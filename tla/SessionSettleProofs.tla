------------------------ MODULE SessionSettleProofs ------------------------
(***************************************************************************)
(* The rows of terminal_sessions and the shells of the agents agree, once  *)
(* everything in progress about a session has settled (SettledAgrees of    *)
(* SessionControl).  The inductive invariant SettleInv says, of every      *)
(* moment in between, which message, request, listing or handler is going  *)
(* to correct a row that is wrong.                                         *)
(*                                                                         *)
(* It has two sides.  A shell whose row does not say running (ShellInv) is *)
(* spoken of on an attached connection only: a connection that the late    *)
(* clean-up of an older one has detached keeps such a shell for ever.  A   *)
(* row that says running without a shell (EndedInv) is going to be written *)
(* on every live connection, attached or not.                              *)
(***************************************************************************)
EXTENDS SessionControlProofs

Msg(k, s) == [t |-> k, s |-> s]

Has(q, m) == \E i \in 1..Len(q) : q[i] = m

\* The message is one of the kinds K about session s.
Tells(m, s, K) == \E k \in K : m = Msg(k, s)

\* An exit of s is on the queue, and nothing of the kinds K about s after it.
ExitEnds(q, s, K) ==
    \E i \in 1..Len(q) : /\ q[i] = Msg("exit", s)
                         /\ \A j \in 1..Len(q) : i < j => ~Tells(q[j], s, K)

Report == {"started", "stdout"}
ExitLast(q, s)  == ExitEnds(q, s, {"started"})
ExitFinal(q, s) == ExitEnds(q, s, Report)

\* The handler of c is between reading the row and writing it.
Holds(c, m) == cur[c] = <<m>>

\* Connection c is attached, and stays so unless another handler of its device
\* gets past its hello.
Sole(c) ==
    /\ link[c] = "up" /\ agents[ConnDevice[c]] = c
    /\ \A o \in Conns : ConnDevice[o] = ConnDevice[c] /\ o # c => pc[o] \in {"gone", "hello"}

\* Connection c serves a live agent, and no other handler of its device is
\* going to list its rows.
Clear(c) ==
    /\ link[c] = "up" /\ pc[c] \in Serving
    /\ \A o \in Conns : ConnDevice[o] = ConnDevice[c] /\ o # c =>
           pc[o] \in {"gone", "hello", "unmark", "offline", "detach"}

\* The agent of c has no shell of s and is not going to spawn one.
Bare(c, s) == link[c] = "up" /\ s \notin ptys[c] /\ ~Has(down[c], Msg("start", s))

\* The server has still to hear, or is about to act on, a report of a shell of s.
Reported(c, s) == (\E k \in Report : Has(up[c], Msg(k, s))) \/ Holds(c, Msg("stdout", s))

LinkInv(c) ==
    /\ link[c] = "up" => alive[c] /\ pc[c] \in {"hello", "attach"} \union Serving
    /\ link[c] = "up" /\ pc[c] \in {"hello", "attach"} =>
           ptys[c] = {} /\ up[c] = <<>> /\ down[c] = <<>>
    /\ ~alive[c] => ptys[c] = {}
    /\ \A o \in Conns : alive[o] /\ alive[c] /\ ConnDevice[o] = ConnDevice[c] => o = c

HandInv(c) ==
    /\ pc[c] = "write" <=> cur[c] # <<>>
    /\ cur[c] # <<>> => cur[c][1].t \in {"stdout", "exit"} /\ Owns(c, cur[c][1].s)
    /\ pc[c] \notin {"sync", "unmark"} => todo[c] = {}
    /\ \A s \in todo[c] : Owns(c, s)

\* A session whose create request is not over has not been heard of.
NewInv(c, s) ==
    creq[s] # "done" =>
        /\ s \notin ptys[c] /\ ~Has(down[c], Msg("start", s))
        /\ ~Has(up[c], Msg("started", s)) /\ ~Has(up[c], Msg("stdout", s))
        /\ ~Holds(c, Msg("stdout", s))

\* A close finds its way to the shell.
RouteInv(c, s) ==
    link[c] = "up" /\ (s \in ptys[c] \/ Has(down[c], Msg("start", s))) => route[s] # NoDevice

\* The row of a shell says running, or is going to, or the shell is going to be closed.
ShellInv(c, s) ==
    Sole(c) /\ Owns(c, s) /\ s \in ptys[c] =>
        /\ ~ExitLast(up[c], s)
        /\ \/ Has(up[c], Msg("started", s))
           \/ clreq[s] = "sending" \/ Has(down[c], Msg("close", s))
           \/ /\ pc[c] \in {"read", "write"} /\ status[s] = "running"
              /\ ~Holds(c, Msg("exit", s))
              /\ Holds(c, Msg("stdout", s)) => rd[c] = "running"

\* The report that takes the row of a shell out of starting is on its way.
StartInv(c, s) ==
    link[c] = "up" /\ s \in ptys[c] /\ status[s] = "starting" => Has(up[c], Msg("started", s))

\* Where no shell is left, an exit follows every report of one.
ReportInv(c, s) == Bare(c, s) => ExitFinal(up[c], s) \/ ~Reported(c, s)

\* The row of a session without a shell does not say starting or running, or is
\* going to be written by an exit, or by a synchronisation or a clean-up.
EndedInv(c, s) ==
    Bare(c, s) /\ Clear(c) /\ Owns(c, s) /\ creq[s] = "done" =>
        \/ ExitFinal(up[c], s) \/ Holds(c, Msg("exit", s))
        \/ pc[c] = "list"
        \/ \E o \in Conns : ConnDevice[o] = ConnDevice[c] /\ s \in todo[o]
        \/ status[s] \notin Active

LinksInv  == \A c \in Conns : LinkInv(c) /\ HandInv(c)
NewsInv   == \A c \in Conns, s \in Sessions : NewInv(c, s) /\ RouteInv(c, s)
ShellsInv == \A c \in Conns, s \in Sessions : ShellInv(c, s) /\ StartInv(c, s)
EndsInv   == \A c \in Conns, s \in Sessions : ReportInv(c, s) /\ EndedInv(c, s)
SettleInv == LinksInv /\ NewsInv /\ ShellsInv /\ EndsInv

-----------------------------------------------------------------------------
(* Queues by their elements *)

\* Append adds one message to a queue.
LEMMA HasAppend ==
    ASSUME NEW Q, NEW q \in Seq(Q), NEW x \in Q, NEW m
    PROVE  Has(Append(q, x), m) <=> Has(q, m) \/ x = m
<1>1. /\ Len(Append(q, x)) = Len(q) + 1 /\ Len(q) \in Nat
      /\ \A i \in 1..Len(q) : Append(q, x)[i] = q[i]
      /\ Append(q, x)[Len(q) + 1] = x
  OBVIOUS
<1>2. \A i \in 1..(Len(q) + 1) : i \in 1..Len(q) \/ i = Len(q) + 1
  BY <1>1
<1>3. (1..Len(q)) \subseteq 1..(Len(q) + 1) /\ Len(q) + 1 \in 1..(Len(q) + 1)
  BY <1>1
<1> QED BY <1>1, <1>2, <1>3 DEF Has

\* What Tail keeps, and where.
LEMMA TailIs ==
    ASSUME NEW Q, NEW q \in Seq(Q), q # <<>>
    PROVE  /\ Tail(q) \in Seq(Q) /\ Len(q) \in Nat /\ Len(Tail(q)) = Len(q) - 1
           /\ Head(q) = q[1] /\ 1 \in 1..Len(q)
           /\ \A i \in 1..Len(Tail(q)) : i + 1 \in 1..Len(q) /\ Tail(q)[i] = q[i + 1]
           /\ \A i \in 1..Len(q) : i = 1 \/ (i - 1 \in 1..Len(Tail(q)) /\ Tail(q)[i - 1] = q[i])
<1>1. Tail(q) \in Seq(Q) /\ Len(q) \in Nat /\ Len(q) # 0 /\ Len(Tail(q)) = Len(q) - 1 /\ Head(q) = q[1]
  OBVIOUS
<1>2. \A i \in 1..Len(Tail(q)) : i + 1 \in 1..Len(q) /\ Tail(q)[i] = q[i + 1]
  BY TailElements
<1>3. ASSUME NEW i \in 1..Len(q), i # 1
      PROVE  i - 1 \in 1..Len(Tail(q)) /\ Tail(q)[i - 1] = q[i]
  <2>1. i - 1 \in 1..Len(Tail(q)) /\ (i - 1) + 1 = i
    BY <1>1, <1>3
  <2> QED BY <1>2, <2>1
<1> QED BY <1>1, <1>2, <1>3

\* A queue has its head and the messages of its tail.
LEMMA HasTail ==
    ASSUME NEW Q, NEW q \in Seq(Q), q # <<>>, NEW m
    PROVE  Has(q, m) <=> Head(q) = m \/ Has(Tail(q), m)
BY TailIs DEF Has

\* An append makes an exit the last word, keeps it, or revokes it.
LEMMA EndsAppend ==
    ASSUME NEW q \in Seq(UpMsg), NEW x \in UpMsg, NEW s, NEW K, "exit" \notin K
    PROVE  ExitEnds(Append(q, x), s, K) <=>
               x = Msg("exit", s) \/ (ExitEnds(q, s, K) /\ ~Tells(x, s, K))
<1> DEFINE a == Append(q, x)
<1>1. /\ Len(a) = Len(q) + 1 /\ Len(q) \in Nat
      /\ \A i \in 1..Len(q) : a[i] = q[i]
      /\ a[Len(q) + 1] = x
  OBVIOUS
<1> HIDE DEF a
<1>2. \A i \in 1..Len(a) : i \in 1..Len(q) \/ i = Len(q) + 1
  BY <1>1
<1>3. \A i \in 1..Len(q) : i \in 1..Len(a) /\ i < Len(q) + 1
  BY <1>1
<1>4. Len(q) + 1 \in 1..Len(a) /\ \A j \in 1..Len(a) : ~(Len(q) + 1 < j)
  BY <1>1
<1>5. ASSUME x = Msg("exit", s) PROVE ExitEnds(a, s, K)
  BY <1>1, <1>4, <1>5 DEF ExitEnds
<1>6. ASSUME ExitEnds(q, s, K), ~Tells(x, s, K) PROVE ExitEnds(a, s, K)
  <2>1. PICK i \in 1..Len(q) : /\ q[i] = Msg("exit", s)
                               /\ \A j \in 1..Len(q) : i < j => ~Tells(q[j], s, K)
    BY <1>6 DEF ExitEnds
  <2>2. i \in 1..Len(a) /\ a[i] = Msg("exit", s)
    BY <1>1, <1>3, <2>1
  <2>3. \A j \in 1..Len(a) : i < j => ~Tells(a[j], s, K)
    BY <1>1, <1>2, <1>6, <2>1
  <2> QED BY <2>2, <2>3 DEF ExitEnds
<1>7. ASSUME ExitEnds(a, s, K), x # Msg("exit", s) PROVE ExitEnds(q, s, K) /\ ~Tells(x, s, K)
  <2>1. PICK i \in 1..Len(a) : /\ a[i] = Msg("exit", s)
                               /\ \A j \in 1..Len(a) : i < j => ~Tells(a[j], s, K)
    BY <1>7 DEF ExitEnds
  <2>2. i \in 1..Len(q) /\ q[i] = Msg("exit", s)
    BY <1>1, <1>2, <1>7, <2>1
  <2>3. ~Tells(x, s, K)
    BY <1>1, <1>3, <1>4, <2>1, <2>2
  <2>4. \A j \in 1..Len(q) : i < j => ~Tells(q[j], s, K)
    BY <1>1, <1>3, <2>1
  <2> QED BY <2>2, <2>3, <2>4 DEF ExitEnds
<1>8. ~Tells(Msg("exit", s), s, K)
  BY DEF Tells, Msg
<1> QED BY <1>5, <1>6, <1>7, <1>8 DEF a

\* A head taken off leaves the last word to the rest.
LEMMA EndsTail ==
    ASSUME NEW q \in Seq(UpMsg), q # <<>>, NEW s, NEW K
    PROVE  ExitEnds(q, s, K) <=>
               \/ ExitEnds(Tail(q), s, K)
               \/ Head(q) = Msg("exit", s) /\ ~\E k \in K : Has(Tail(q), Msg(k, s))
<1> DEFINE u == Tail(q)
<1>1. /\ Len(q) \in Nat /\ Len(u) = Len(q) - 1 /\ Head(q) = q[1] /\ 1 \in 1..Len(q)
      /\ \A i \in 1..Len(u) : i + 1 \in 1..Len(q) /\ u[i] = q[i + 1]
      /\ \A i \in 1..Len(q) : i = 1 \/ (i - 1 \in 1..Len(u) /\ u[i - 1] = q[i])
  BY TailIs
<1> HIDE DEF u
<1>2. ASSUME ExitEnds(u, s, K) PROVE ExitEnds(q, s, K)
  <2>1. PICK i \in 1..Len(u) : /\ u[i] = Msg("exit", s)
                               /\ \A j \in 1..Len(u) : i < j => ~Tells(u[j], s, K)
    BY <1>2 DEF ExitEnds
  <2>2. i + 1 \in 1..Len(q) /\ q[i + 1] = Msg("exit", s)
    BY <1>1, <2>1
  <2>3. ASSUME NEW j \in 1..Len(q), i + 1 < j PROVE ~Tells(q[j], s, K)
    <3>1. j - 1 \in 1..Len(u) /\ u[j - 1] = q[j] /\ i < j - 1
      BY <1>1, <2>3
    <3> QED BY <2>1, <3>1
  <2> QED BY <2>2, <2>3 DEF ExitEnds
<1>3. ASSUME Head(q) = Msg("exit", s), ~\E k \in K : Has(u, Msg(k, s)) PROVE ExitEnds(q, s, K)
  <2>1. ASSUME NEW j \in 1..Len(q), 1 < j PROVE ~Tells(q[j], s, K)
    BY <1>1, <1>3, <2>1 DEF Has, Tells
  <2> QED BY <1>1, <1>3, <2>1 DEF ExitEnds
<1>4. ASSUME ExitEnds(q, s, K)
      PROVE  ExitEnds(u, s, K) \/ (Head(q) = Msg("exit", s) /\ ~\E k \in K : Has(u, Msg(k, s)))
  <2>1. PICK i \in 1..Len(q) : /\ q[i] = Msg("exit", s)
                               /\ \A j \in 1..Len(q) : i < j => ~Tells(q[j], s, K)
    BY <1>4 DEF ExitEnds
  <2>2. CASE i = 1
    <3>1. \A k \in 1..Len(u) : k + 1 \in 1..Len(q) /\ 1 < k + 1 /\ u[k] = q[k + 1]
      BY <1>1
    <3> QED BY <1>1, <2>1, <2>2, <3>1 DEF Has, Tells
  <2>3. CASE i # 1
    <3>1. i - 1 \in 1..Len(u) /\ u[i - 1] = Msg("exit", s)
      BY <1>1, <2>1, <2>3
    <3>2. ASSUME NEW j \in 1..Len(u), i - 1 < j PROVE ~Tells(u[j], s, K)
      <4>1. j + 1 \in 1..Len(q) /\ u[j] = q[j + 1] /\ i < j + 1
        BY <1>1, <3>2
      <4> QED BY <2>1, <4>1
    <3> QED BY <3>1, <3>2 DEF ExitEnds
  <2> QED BY <2>2, <2>3
<1> QED BY <1>2, <1>3, <1>4 DEF u

\* The same for an exit that no later start follows.
LEMMA ExitAppend ==
    ASSUME NEW q \in Seq(UpMsg), NEW x \in UpMsg, NEW s
    PROVE  ExitLast(Append(q, x), s) <=>
               x = Msg("exit", s) \/ (ExitLast(q, s) /\ x # Msg("started", s))
BY EndsAppend DEF ExitLast, Tells

LEMMA ExitTail ==
    ASSUME NEW q \in Seq(UpMsg), q # <<>>, NEW s
    PROVE  ExitLast(q, s) <=>
               \/ ExitLast(Tail(q), s)
               \/ Head(q) = Msg("exit", s) /\ ~Has(Tail(q), Msg("started", s))
BY EndsTail DEF ExitLast

\* An empty queue says nothing.
LEMMA NoneOnEmpty == \A m, s : ~Has(<<>>, m) /\ ~ExitLast(<<>>, s) /\ ~ExitFinal(<<>>, s)
BY DEF Has, ExitLast, ExitFinal, ExitEnds

\* Push appends on its own connection, if the link is up.
LEMMA PushIs ==
    ASSUME TypeOK, NEW c \in Conns, NEW k, NEW s, NEW o \in Conns
    PROVE  /\ Push(up, c, k, s)[o] =
                  IF link[c] = "up" /\ o = c THEN Append(up[c], Msg(k, s)) ELSE up[o]
           /\ Push(down, c, k, s)[o] =
                  IF link[c] = "up" /\ o = c THEN Append(down[c], Msg(k, s)) ELSE down[o]
BY DEF Push, Msg, TypeOK

\* Both ways of marking a listed row are MarkListed.
LEMMA MarksOne ==
    ASSUME TypeOK, NEW c \in Conns, ServerSyncMark(c) \/ CleanUpMark(c)
    PROVE  \E s \in Sessions : MarkListed(c, s)
BY DEF TypeOK, ServerSyncMark, CleanUpMark

\* A message is its kind and its session.
LEMMA MsgIs ==
    ASSUME NEW m \in UpMsg \union DownMsg
    PROVE  m = Msg(m.t, m.s) /\ \A k, s : m = Msg(k, s) <=> m.t = k /\ m.s = s
BY DEF UpMsg, DownMsg, Msg

\* A send of the Hub reaches the connection of the session's device or a broken one.
LEMMA SendShape ==
    ASSUME TypeOK, RoutingInv, NEW s \in Sessions, SendOK(s), NEW k \in {"start", "close"},
           down' = Push(down, Peer(s), k, s), NEW c \in Conns
    PROVE  \/ down'[c] = down[c] /\ (c = Peer(s) => link[c] = "down")
           \/ /\ c = Peer(s) /\ pc[c] \in Serving /\ link[c] = "up" /\ ConnDevice[c] = owner[s]
              /\ route[s] # NoDevice
              /\ down'[c] = Append(down[c], Msg(k, s)) /\ Msg(k, s) \in DownMsg
<1>1. Peer(s) \in Conns /\ pc[Peer(s)] \in Serving /\ route[s] # NoDevice /\ route[s] \in Devices
      /\ agents[route[s]] = Peer(s)
  BY DEF SendOK, Peer, TypeOK
<1>2. ConnDevice[Peer(s)] = owner[s]
  BY <1>1, ConnAssumption DEF RoutingInv, RowInv, NoDeadPeer
<1>3. down \in [Conns -> Seq(DownMsg)] /\ link[c] \in {"up", "down"}
  BY DEF TypeOK
<1>4. Msg(k, s) \in DownMsg
  BY DEF DownMsg, Msg
<1>5. down'[c] = IF link[Peer(s)] = "up" /\ c = Peer(s) THEN Append(down[c], Msg(k, s)) ELSE down[c]
  BY <1>1, PushIs
<1> QED BY <1>1, <1>2, <1>3, <1>4, <1>5

-----------------------------------------------------------------------------
(* Connections *)

\* Sockets, agent processes and handlers stay in step.
LEMMA LinksKept ==
    ASSUME TypeOK, TypeOK', RoutingInv, LinksInv, [Next]_vars
    PROVE  LinksInv'
<1>1. ASSUME NEW s \in Sessions, NEW d \in Devices, CreateCheck(s, d) PROVE LinksInv'
  BY <1>1, ConnAssumption
  DEF TypeOK, LinksInv, LinkInv, HandInv, Owns, Serving, CleanUp, RoutingInv, RowInv,
      NoDeadPeer, dbVars, memVars, connVars, agentVars, reqVars, CreateCheck
<1>2. ASSUME NEW s \in Sessions, CreateInsert(s) PROVE LinksInv'
  BY <1>2, ConnAssumption
  DEF TypeOK, LinksInv, LinkInv, HandInv, Owns, Serving, CleanUp, RoutingInv, RowInv,
      NoDeadPeer, dbVars, memVars, connVars, agentVars, reqVars, CreateInsert
<1>3. ASSUME NEW s \in Sessions, CreateBind(s) PROVE LinksInv'
  BY <1>3, ConnAssumption
  DEF TypeOK, LinksInv, LinkInv, HandInv, Owns, Serving, CleanUp, RoutingInv, RowInv,
      NoDeadPeer, dbVars, memVars, connVars, agentVars, reqVars, CreateBind
<1>4. ASSUME NEW s \in Sessions, CreateSend(s) PROVE LinksInv'
  <2>1. UNCHANGED <<owner, link, alive, pc, ptys, up, cur, todo>>
    BY <1>4 DEF CreateSend, dbVars, connVars
  <2>2. \A o \in Conns : pc[o] \notin Serving => down'[o] = down[o]
    <3>1. CASE down' = down
      BY <3>1
    <3>2. CASE down' # down
      <4>1. SendOK(s) /\ down' = Push(down, Peer(s), "start", s)
        BY <1>4, <3>2 DEF CreateSend
      <4> QED BY <4>1, SendShape
    <3> QED BY <3>1, <3>2
  <2> QED BY <2>1, <2>2 DEF LinksInv, LinkInv, HandInv, Owns, Serving
<1>5. ASSUME NEW s \in Sessions, CreateSendFails(s) PROVE LinksInv'
  BY <1>5, ConnAssumption
  DEF TypeOK, LinksInv, LinkInv, HandInv, Owns, Serving, CleanUp, RoutingInv, RowInv,
      NoDeadPeer, dbVars, memVars, connVars, agentVars, reqVars, CreateSendFails
<1>6. ASSUME NEW s \in Sessions, CreateMarkLost(s) PROVE LinksInv'
  BY <1>6, ConnAssumption
  DEF TypeOK, LinksInv, LinkInv, HandInv, Owns, Serving, CleanUp, RoutingInv, RowInv,
      NoDeadPeer, dbVars, memVars, connVars, agentVars, reqVars, CreateMarkLost
<1>7. ASSUME NEW s \in Sessions, CloseMark(s) PROVE LinksInv'
  BY <1>7, ConnAssumption
  DEF TypeOK, LinksInv, LinkInv, HandInv, Owns, Serving, CleanUp, RoutingInv, RowInv,
      NoDeadPeer, dbVars, memVars, connVars, agentVars, reqVars, CloseMark
<1>8. ASSUME NEW s \in Sessions, CloseSend(s) PROVE LinksInv'
  <2>1. UNCHANGED <<owner, link, alive, pc, ptys, up, cur, todo>>
    BY <1>8 DEF CloseSend, dbVars, connVars
  <2>2. \A o \in Conns : pc[o] \notin Serving => down'[o] = down[o]
    <3>1. CASE down' = down
      BY <3>1
    <3>2. CASE down' # down
      <4>1. SendOK(s) /\ down' = Push(down, Peer(s), "close", s)
        BY <1>8, <3>2 DEF CloseSend
      <4> QED BY <4>1, SendShape
    <3> QED BY <3>1, <3>2
  <2> QED BY <2>1, <2>2 DEF LinksInv, LinkInv, HandInv, Owns, Serving
<1>9. ASSUME NEW s \in Sessions, WebSubscribe(s) PROVE LinksInv'
  BY <1>9, ConnAssumption
  DEF TypeOK, LinksInv, LinkInv, HandInv, Owns, Serving, CleanUp, RoutingInv, RowInv,
      NoDeadPeer, dbVars, memVars, connVars, agentVars, reqVars, WebSubscribe
<1>10. ASSUME NEW c \in Conns, ServerHello(c) PROVE LinksInv'
  BY <1>10, ConnAssumption
  DEF TypeOK, LinksInv, LinkInv, HandInv, Owns, Serving, CleanUp, RoutingInv, RowInv,
      NoDeadPeer, dbVars, memVars, connVars, agentVars, reqVars, ServerHello
<1>11. ASSUME NEW c \in Conns, ServerNoHello(c) PROVE LinksInv'
  BY <1>11, ConnAssumption
  DEF TypeOK, LinksInv, LinkInv, HandInv, Owns, Serving, CleanUp, RoutingInv, RowInv,
      NoDeadPeer, dbVars, memVars, connVars, agentVars, reqVars, ServerNoHello
<1>12. ASSUME NEW c \in Conns, ServerAttach(c) PROVE LinksInv'
  BY <1>12, ConnAssumption
  DEF TypeOK, LinksInv, LinkInv, HandInv, Owns, Serving, CleanUp, RoutingInv, RowInv,
      NoDeadPeer, dbVars, memVars, connVars, agentVars, reqVars, ServerAttach
<1>13. ASSUME NEW c \in Conns, ServerSyncList(c) PROVE LinksInv'
  <2>1. /\ pc[c] \in PCs /\ todo' = [todo EXCEPT ![c] = ActiveOf(ConnDevice[c])] /\ todo \in [Conns -> SUBSET Sessions]
        /\ \A s \in ActiveOf(ConnDevice[c]) : Owns(c, s)
        /\ UNCHANGED <<owner, link, alive, ptys, up, down, cur>>
    BY <1>13 DEF ServerSyncList, ActiveOf, Owns, TypeOK, dbVars, agentVars
  <2>2. pc \in [Conns -> PCs] /\ pc[c] = "list" /\ pc' = [pc EXCEPT ![c] = "sync"]
    BY <1>13 DEF ServerSyncList, TypeOK
  <2> HIDE DEF ActiveOf
  <2> QED BY <2>1, <2>2 DEF LinksInv, LinkInv, HandInv, Owns, Serving
<1>14. ASSUME NEW c \in Conns, NEW s \in Sessions, MarkListed(c, s) PROVE LinksInv'
  BY <1>14, ConnAssumption
  DEF TypeOK, LinksInv, LinkInv, HandInv, Owns, Serving, CleanUp, RoutingInv, RowInv,
      NoDeadPeer, dbVars, memVars, connVars, agentVars, reqVars, MarkListed
<1>15. ASSUME NEW c \in Conns, ServerSyncDone(c) PROVE LinksInv'
  BY <1>15, ConnAssumption
  DEF TypeOK, LinksInv, LinkInv, HandInv, Owns, Serving, CleanUp, RoutingInv, RowInv,
      NoDeadPeer, dbVars, memVars, connVars, agentVars, reqVars, ServerSyncDone
<1>16. ASSUME NEW c \in Conns, ServerSeesBreak(c) PROVE LinksInv'
  BY <1>16, ConnAssumption
  DEF TypeOK, LinksInv, LinkInv, HandInv, Owns, Serving, CleanUp, RoutingInv, RowInv,
      NoDeadPeer, dbVars, memVars, connVars, agentVars, reqVars, ServerSeesBreak
<1>17. ASSUME NEW c \in Conns, CleanUpList(c) PROVE LinksInv'
  <2>1. /\ pc[c] \in PCs /\ todo' = [todo EXCEPT ![c] = ActiveOf(ConnDevice[c])] /\ todo \in [Conns -> SUBSET Sessions]
        /\ \A s \in ActiveOf(ConnDevice[c]) : Owns(c, s)
        /\ UNCHANGED <<owner, link, alive, ptys, up, down, cur>>
    BY <1>17 DEF CleanUpList, ActiveOf, Owns, TypeOK, dbVars, agentVars
  <2>2. pc \in [Conns -> PCs] /\ pc[c] = "unlist" /\ pc' = [pc EXCEPT ![c] = "unmark"]
    BY <1>17 DEF CleanUpList, TypeOK
  <2> HIDE DEF ActiveOf
  <2> QED BY <2>1, <2>2 DEF LinksInv, LinkInv, HandInv, Owns, Serving
<1>18. ASSUME NEW c \in Conns, CleanUpMarked(c) PROVE LinksInv'
  BY <1>18, ConnAssumption
  DEF TypeOK, LinksInv, LinkInv, HandInv, Owns, Serving, CleanUp, RoutingInv, RowInv,
      NoDeadPeer, dbVars, memVars, connVars, agentVars, reqVars, CleanUpMarked
<1>19. ASSUME NEW c \in Conns, CleanUpOffline(c) PROVE LinksInv'
  BY <1>19, ConnAssumption
  DEF TypeOK, LinksInv, LinkInv, HandInv, Owns, Serving, CleanUp, RoutingInv, RowInv,
      NoDeadPeer, dbVars, memVars, connVars, agentVars, reqVars, CleanUpOffline
<1>20. ASSUME NEW c \in Conns, CleanUpDetach(c) PROVE LinksInv'
  BY <1>20, ConnAssumption
  DEF TypeOK, LinksInv, LinkInv, HandInv, Owns, Serving, CleanUp, RoutingInv, RowInv,
      NoDeadPeer, dbVars, memVars, connVars, agentVars, reqVars, CleanUpDetach
<1>21. ASSUME NEW c \in Conns, ServerStarted(c) PROVE LinksInv'
  BY <1>21, ConnAssumption
  DEF TypeOK, LinksInv, LinkInv, HandInv, Owns, Serving, CleanUp, RoutingInv, RowInv,
      NoDeadPeer, dbVars, memVars, connVars, agentVars, reqVars, ServerStarted
<1>22. ASSUME NEW c \in Conns, ServerReadStatus(c) PROVE LinksInv'
  <2> DEFINE m == Head(up[c])
  <2>1. /\ m \in UpMsg /\ m.t \in {"stdout", "exit"} /\ up[c] # <<>> /\ pc[c] = "read"
        /\ pc \in [Conns -> PCs] /\ cur \in [Conns -> {<<>>} \union {<<x>> : x \in UpMsg}]
        /\ up' = [up EXCEPT ![c] = Tail(up[c])] /\ up \in [Conns -> Seq(UpMsg)]
        /\ UNCHANGED <<owner, link, alive, ptys, down, todo>>
    BY <1>22, HeadElement DEF ServerReadStatus, TypeOK, dbVars
  <2>2. \/ UNCHANGED <<pc, cur>>
        \/ /\ Owns(c, m.s) /\ pc' = [pc EXCEPT ![c] = "write"] /\ cur' = [cur EXCEPT ![c] = <<m>>]
    BY <1>22 DEF ServerReadStatus
  <2> HIDE DEF m
  <2>3. /\ \A o \in Conns : o # c => up'[o] = up[o] /\ pc'[o] = pc[o] /\ cur'[o] = cur[o]
        /\ \/ pc'[c] = "read" /\ cur'[c] = cur[c]
           \/ /\ Owns(c, m.s) /\ pc'[c] = "write" /\ cur'[c] = <<m>> /\ cur'[c] # <<>> /\ cur'[c][1] = m
    BY <2>1, <2>2
  <2>4. LinkInv(c)' /\ HandInv(c)'
    BY <2>1, <2>3 DEF LinksInv, LinkInv, HandInv, Owns, Serving
  <2>5. \A o \in Conns : o # c => LinkInv(o)' /\ HandInv(o)'
    BY <2>1, <2>3 DEF LinksInv, LinkInv, HandInv, Owns, Serving
  <2> QED BY <2>4, <2>5 DEF LinksInv
<1>23. ASSUME NEW c \in Conns, ServerWriteStatus(c) PROVE LinksInv'
  BY <1>23, ConnAssumption
  DEF TypeOK, LinksInv, LinkInv, HandInv, Owns, Serving, CleanUp, RoutingInv, RowInv,
      NoDeadPeer, dbVars, memVars, connVars, agentVars, reqVars, ServerWriteStatus
<1>24. ASSUME NEW c \in Conns, AgentConnect(c) PROVE LinksInv'
  BY <1>24, ConnAssumption
  DEF TypeOK, LinksInv, LinkInv, HandInv, Owns, Serving, CleanUp, RoutingInv, RowInv,
      NoDeadPeer, dbVars, memVars, connVars, agentVars, reqVars, AgentConnect
<1>25. ASSUME NEW c \in Conns, AgentStart(c) PROVE LinksInv'
  <2>1. /\ alive[c] /\ down[c] # <<>> /\ down' = [down EXCEPT ![c] = Tail(down[c])]
        /\ UNCHANGED <<owner, link, alive, pc, cur, todo>>
        /\ \E r \in SUBSET Sessions : ptys' = [ptys EXCEPT ![c] = r]
    BY <1>25, HeadElement DEF AgentStart, TypeOK, DownMsg, dbVars, connVars
  <2>2. \A o \in Conns : o # c => up'[o] = up[o]
    <3>1. \E k, x : up' = Push(up, c, k, x)
      BY <1>25 DEF AgentStart
    <3> QED BY <3>1, PushIs
  <2>3. /\ \A o \in Conns : o # c => ptys'[o] = ptys[o] /\ down'[o] = down[o]
        /\ pc[c] \in {"hello", "attach"} => link[c] # "up"
    BY <2>1 DEF TypeOK, LinksInv, LinkInv
  <2>4. LinkInv(c)' /\ HandInv(c)'
    BY <2>1, <2>3 DEF LinksInv, LinkInv, HandInv, Owns, Serving
  <2>5. \A o \in Conns : o # c => LinkInv(o)' /\ HandInv(o)'
    BY <2>1, <2>2, <2>3 DEF LinksInv, LinkInv, HandInv, Owns, Serving
  <2> QED BY <2>4, <2>5 DEF LinksInv
<1>26. ASSUME NEW c \in Conns, AgentClose(c) PROVE LinksInv'
  <2>1. /\ alive[c] /\ down[c] # <<>> /\ down' = [down EXCEPT ![c] = Tail(down[c])]
        /\ UNCHANGED <<owner, link, alive, pc, cur, todo>>
        /\ \E r \in SUBSET Sessions : ptys' = [ptys EXCEPT ![c] = r]
    BY <1>26, HeadElement DEF AgentClose, TypeOK, DownMsg, dbVars, connVars
  <2>2. \A o \in Conns : o # c => up'[o] = up[o]
    <3>1. \E k, x : up' = Push(up, c, k, x)
      BY <1>26 DEF AgentClose
    <3> QED BY <3>1, PushIs
  <2>3. /\ \A o \in Conns : o # c => ptys'[o] = ptys[o] /\ down'[o] = down[o]
        /\ pc[c] \in {"hello", "attach"} => link[c] # "up"
    BY <2>1 DEF TypeOK, LinksInv, LinkInv
  <2>4. LinkInv(c)' /\ HandInv(c)'
    BY <2>1, <2>3 DEF LinksInv, LinkInv, HandInv, Owns, Serving
  <2>5. \A o \in Conns : o # c => LinkInv(o)' /\ HandInv(o)'
    BY <2>1, <2>2, <2>3 DEF LinksInv, LinkInv, HandInv, Owns, Serving
  <2> QED BY <2>4, <2>5 DEF LinksInv
<1>27. ASSUME NEW c \in Conns, NEW s \in Sessions, AgentOutput(c, s) PROVE LinksInv'
  <2>1. /\ alive[c] /\ ptys[c] # {} /\ UNCHANGED down
        /\ UNCHANGED <<owner, link, alive, pc, cur, todo>>
        /\ \E r \in SUBSET Sessions : ptys' = [ptys EXCEPT ![c] = r]
    BY <1>27, HeadElement DEF AgentOutput, TypeOK, DownMsg, dbVars, connVars
  <2>2. \A o \in Conns : o # c => up'[o] = up[o]
    <3>1. \E k, x : up' = Push(up, c, k, x)
      BY <1>27 DEF AgentOutput
    <3> QED BY <3>1, PushIs
  <2>3. /\ \A o \in Conns : o # c => ptys'[o] = ptys[o] /\ down'[o] = down[o]
        /\ pc[c] \in {"hello", "attach"} => link[c] # "up"
    BY <2>1 DEF TypeOK, LinksInv, LinkInv
  <2>4. LinkInv(c)' /\ HandInv(c)'
    BY <2>1, <2>3 DEF LinksInv, LinkInv, HandInv, Owns, Serving
  <2>5. \A o \in Conns : o # c => LinkInv(o)' /\ HandInv(o)'
    BY <2>1, <2>2, <2>3 DEF LinksInv, LinkInv, HandInv, Owns, Serving
  <2> QED BY <2>4, <2>5 DEF LinksInv
<1>28. ASSUME NEW c \in Conns, NEW s \in Sessions, AgentShellExit(c, s) PROVE LinksInv'
  <2>1. /\ alive[c] /\ ptys[c] # {} /\ UNCHANGED down
        /\ UNCHANGED <<owner, link, alive, pc, cur, todo>>
        /\ \E r \in SUBSET Sessions : ptys' = [ptys EXCEPT ![c] = r]
    BY <1>28, HeadElement DEF AgentShellExit, TypeOK, DownMsg, dbVars, connVars
  <2>2. \A o \in Conns : o # c => up'[o] = up[o]
    <3>1. \E k, x : up' = Push(up, c, k, x)
      BY <1>28 DEF AgentShellExit
    <3> QED BY <3>1, PushIs
  <2>3. /\ \A o \in Conns : o # c => ptys'[o] = ptys[o] /\ down'[o] = down[o]
        /\ pc[c] \in {"hello", "attach"} => link[c] # "up"
    BY <2>1 DEF TypeOK, LinksInv, LinkInv
  <2>4. LinkInv(c)' /\ HandInv(c)'
    BY <2>1, <2>3 DEF LinksInv, LinkInv, HandInv, Owns, Serving
  <2>5. \A o \in Conns : o # c => LinkInv(o)' /\ HandInv(o)'
    BY <2>1, <2>2, <2>3 DEF LinksInv, LinkInv, HandInv, Owns, Serving
  <2> QED BY <2>4, <2>5 DEF LinksInv
<1>29. ASSUME NEW c \in Conns, AgentEnds(c) PROVE LinksInv'
  BY <1>29, ConnAssumption
  DEF TypeOK, LinksInv, LinkInv, HandInv, Owns, Serving, CleanUp, RoutingInv, RowInv,
      NoDeadPeer, dbVars, memVars, connVars, agentVars, reqVars, AgentEnds
<1>30. ASSUME NEW c \in Conns, LinkBreaks(c) PROVE LinksInv'
  BY <1>30, ConnAssumption
  DEF TypeOK, LinksInv, LinkInv, HandInv, Owns, Serving, CleanUp, RoutingInv, RowInv,
      NoDeadPeer, dbVars, memVars, connVars, agentVars, reqVars, LinkBreaks
<1>31. ASSUME ServerRestart PROVE LinksInv'
  BY <1>31, ConnAssumption
  DEF TypeOK, LinksInv, LinkInv, HandInv, Owns, Serving, CleanUp, RoutingInv, RowInv,
      NoDeadPeer, dbVars, memVars, connVars, agentVars, reqVars, ServerRestart
<1>32. CASE UNCHANGED vars
  BY <1>32 DEF vars, LinksInv, LinkInv, HandInv, Owns, dbVars, memVars, connVars, agentVars
<1> QED
  BY <1>1, <1>2, <1>3, <1>4, <1>5, <1>6, <1>7, <1>8, <1>9, <1>10, <1>11, <1>12, <1>13, <1>14,
      <1>15, <1>16, <1>17, <1>18, <1>19, <1>20, <1>21, <1>22, <1>23, <1>24, <1>25, <1>26,
      <1>27, <1>28, <1>29, <1>30, <1>31, <1>32, MarksOne
  DEF Next, User, Requests, Connections, Faults, CreateRequest, Handler,
      Handshake, Synchronise, Receive, Disconnect,
      AgentLoop, AgentShells, AgentCrash, AgentSeesBreak

-----------------------------------------------------------------------------
(* What has not been heard of, and the way of a close *)

\* What is of connection c and session s alone.
Quiet(c) ==
    /\ ptys'[c] = ptys[c] /\ down'[c] = down[c] /\ up'[c] = up[c] /\ cur'[c] = cur[c]
    /\ link'[c] = "up" => link[c] = "up"

Routed(s) ==
    /\ creq'[s] # "done" => creq[s] # "done"
    /\ route'[s] = NoDevice => route[s] = NoDevice

\* A step that leaves c and the way to s alone keeps what is known of new sessions.
LEMMA NewsQuiet ==
    ASSUME NEW c, NEW s, NewInv(c, s), RouteInv(c, s), Quiet(c), Routed(s)
    PROVE  NewInv(c, s)' /\ RouteInv(c, s)'
BY DEF NewInv, RouteInv, Quiet, Routed, Holds

\* Nothing is heard of a session before its create request is over, and closes find their way.
LEMMA NewsKept ==
    ASSUME TypeOK, TypeOK', RoutingInv, LinksInv, NewsInv, NEW o \in Conns, NEW x \in Sessions, [Next]_vars
    PROVE  NewInv(o, x)' /\ RouteInv(o, x)'
<1>n. NewInv(o, x) /\ RouteInv(o, x)
  BY DEF NewsInv
<1>1. ASSUME NEW s \in Sessions, NEW d \in Devices, CreateCheck(s, d) PROVE NewInv(o, x)' /\ RouteInv(o, x)'
  <2>1. Quiet(o) /\ Routed(x)
    BY <1>1, ConnAssumption
    DEF TypeOK, Quiet, Routed, dbVars, memVars, connVars, agentVars, reqVars, CreateCheck
  <2> QED BY <2>1, <1>n, NewsQuiet
<1>2. ASSUME NEW s \in Sessions, CreateInsert(s) PROVE NewInv(o, x)' /\ RouteInv(o, x)'
  <2>1. Quiet(o) /\ Routed(x)
    BY <1>2, ConnAssumption
    DEF TypeOK, Quiet, Routed, dbVars, memVars, connVars, agentVars, reqVars, CreateInsert
  <2> QED BY <2>1, <1>n, NewsQuiet
<1>3. ASSUME NEW s \in Sessions, CreateBind(s) PROVE NewInv(o, x)' /\ RouteInv(o, x)'
  <2>1. Quiet(o) /\ creq[s] = "inserted" /\ creq'[s] = "bound" /\ (x # s => Routed(x))
    BY <1>3 DEF TypeOK, Quiet, Routed, dbVars, memVars, connVars, agentVars, reqVars, CreateBind
  <2>2. CASE x # s
    BY <2>1, <2>2, <1>n, NewsQuiet
  <2>3. CASE x = s
    BY <2>1, <2>3, <1>n DEF NewInv, RouteInv, Quiet, Holds
  <2> QED BY <2>2, <2>3
<1>4. ASSUME NEW s \in Sessions, CreateSend(s) PROVE NewInv(o, x)' /\ RouteInv(o, x)'
  <2>1. /\ UNCHANGED <<ptys, up, cur, link, route>> /\ Routed(x)
        /\ creq \in [Sessions -> CReqs] /\ (creq'[x] # "done" => creq[x] # "done")
    BY <1>4 DEF CreateSend, TypeOK, Routed, connVars, memVars
  <2>2. CASE down' = down
    BY <2>1, <2>2, <1>n, NewsQuiet DEF Quiet
  <2>3. CASE down' # down
    <3>1. SendOK(s) /\ down' = Push(down, Peer(s), "start", s)
      BY <1>4, <2>3 DEF CreateSend
    <3>2. \/ down'[o] = down[o]
          \/ /\ route[s] # NoDevice
             /\ down'[o] = Append(down[o], Msg("start", s)) /\ Msg("start", s) \in DownMsg
      BY <3>1, SendShape
    <3>3. Has(down'[o], Msg("start", x)) => Has(down[o], Msg("start", x)) \/ (x = s /\ route[s] # NoDevice)
      <4>1. down[o] \in Seq(DownMsg) /\ (Msg("start", s) = Msg("start", x) => x = s)
        BY DEF TypeOK, Msg
      <4>2. ASSUME Msg("start", s) \in DownMsg
            PROVE  Has(Append(down[o], Msg("start", s)), Msg("start", x)) <=>
                       Has(down[o], Msg("start", x)) \/ Msg("start", s) = Msg("start", x)
        BY <4>1, <4>2, HasAppend
      <4> QED BY <3>2, <4>1, <4>2
    <3> QED BY <1>4, <2>1, <3>2, <3>3, <1>n DEF NewInv, RouteInv, Holds, CreateSend
  <2> QED BY <2>2, <2>3
<1>5. ASSUME NEW s \in Sessions, CreateSendFails(s) PROVE NewInv(o, x)' /\ RouteInv(o, x)'
  <2>1. Quiet(o) /\ Routed(x)
    BY <1>5, ConnAssumption
    DEF TypeOK, Quiet, Routed, dbVars, memVars, connVars, agentVars, reqVars, CreateSendFails
  <2> QED BY <2>1, <1>n, NewsQuiet
<1>6. ASSUME NEW s \in Sessions, CreateMarkLost(s) PROVE NewInv(o, x)' /\ RouteInv(o, x)'
  <2>1. Quiet(o) /\ Routed(x)
    BY <1>6, ConnAssumption
    DEF TypeOK, Quiet, Routed, dbVars, memVars, connVars, agentVars, reqVars, CreateMarkLost
  <2> QED BY <2>1, <1>n, NewsQuiet
<1>7. ASSUME NEW s \in Sessions, CloseMark(s) PROVE NewInv(o, x)' /\ RouteInv(o, x)'
  <2>1. Quiet(o) /\ Routed(x)
    BY <1>7, ConnAssumption
    DEF TypeOK, Quiet, Routed, dbVars, memVars, connVars, agentVars, reqVars, CloseMark
  <2> QED BY <2>1, <1>n, NewsQuiet
<1>8. ASSUME NEW s \in Sessions, CloseSend(s) PROVE NewInv(o, x)' /\ RouteInv(o, x)'
  <2>1. /\ UNCHANGED <<ptys, up, cur, link, route>> /\ Routed(x)
        /\ creq \in [Sessions -> CReqs] /\ (creq'[x] # "done" => creq[x] # "done")
    BY <1>8 DEF CloseSend, TypeOK, Routed, connVars, memVars
  <2>2. CASE down' = down
    BY <2>1, <2>2, <1>n, NewsQuiet DEF Quiet
  <2>3. CASE down' # down
    <3>1. SendOK(s) /\ down' = Push(down, Peer(s), "close", s)
      BY <1>8, <2>3 DEF CloseSend
    <3>2. \/ down'[o] = down[o]
          \/ /\ route[s] # NoDevice
             /\ down'[o] = Append(down[o], Msg("close", s)) /\ Msg("close", s) \in DownMsg
      BY <3>1, SendShape
    <3>3. Has(down'[o], Msg("start", x)) => Has(down[o], Msg("start", x)) \/ FALSE
      <4>1. down[o] \in Seq(DownMsg) /\ (Msg("close", s) = Msg("start", x) => FALSE)
        BY DEF TypeOK, Msg
      <4>2. ASSUME Msg("close", s) \in DownMsg
            PROVE  Has(Append(down[o], Msg("close", s)), Msg("start", x)) <=>
                       Has(down[o], Msg("start", x)) \/ Msg("close", s) = Msg("start", x)
        BY <4>1, <4>2, HasAppend
      <4> QED BY <3>2, <4>1, <4>2
    <3> QED BY <2>1, <3>2, <3>3, <1>n DEF NewInv, RouteInv, Holds
  <2> QED BY <2>2, <2>3
<1>9. ASSUME NEW s \in Sessions, WebSubscribe(s) PROVE NewInv(o, x)' /\ RouteInv(o, x)'
  <2>1. /\ Quiet(o) /\ UNCHANGED <<creq, link, ptys, down>>
        /\ x # s => Routed(x)
        /\ route'[s] = owner[s]
    BY <1>9 DEF TypeOK, Quiet, Routed, dbVars, memVars, connVars, agentVars, reqVars, WebSubscribe
  <2>2. CASE x # s
    BY <2>1, <2>2, <1>n, NewsQuiet
  <2>3. CASE x = s
    <3>1. x \in ptys[o] \/ Has(down[o], Msg("start", x)) => owner[x] = ConnDevice[o]
      <4>1. \A i \in 1..Len(down[o]) : down[o][i] = Msg("start", x) => Owns(o, x)
        BY DEF RoutingInv, OnlyOnOwner, Msg
      <4>2. x \in ptys[o] => Owns(o, x)
        BY DEF RoutingInv, OnlyOnOwner
      <4> QED BY <4>1, <4>2 DEF Has, Owns
    <3>2. owner[x] = ConnDevice[o] => owner[x] # NoDevice
      BY ConnAssumption
    <3> QED BY <2>1, <2>3, <3>1, <3>2, <1>n DEF NewInv, RouteInv, Quiet, Holds
  <2> QED BY <2>2, <2>3
<1>10. ASSUME NEW c \in Conns, ServerHello(c) PROVE NewInv(o, x)' /\ RouteInv(o, x)'
  <2>1. Quiet(o) /\ Routed(x)
    BY <1>10, ConnAssumption
    DEF TypeOK, Quiet, Routed, dbVars, memVars, connVars, agentVars, reqVars, ServerHello
  <2> QED BY <2>1, <1>n, NewsQuiet
<1>11. ASSUME NEW c \in Conns, ServerNoHello(c) PROVE NewInv(o, x)' /\ RouteInv(o, x)'
  <2>1. Quiet(o) /\ Routed(x)
    BY <1>11, ConnAssumption
    DEF TypeOK, Quiet, Routed, dbVars, memVars, connVars, agentVars, reqVars, ServerNoHello
  <2> QED BY <2>1, <1>n, NewsQuiet
<1>12. ASSUME NEW c \in Conns, ServerAttach(c) PROVE NewInv(o, x)' /\ RouteInv(o, x)'
  <2>1. Quiet(o) /\ Routed(x)
    BY <1>12, ConnAssumption
    DEF TypeOK, Quiet, Routed, dbVars, memVars, connVars, agentVars, reqVars, ServerAttach
  <2> QED BY <2>1, <1>n, NewsQuiet
<1>13. ASSUME NEW c \in Conns, ServerSyncList(c) PROVE NewInv(o, x)' /\ RouteInv(o, x)'
  <2>1. Quiet(o) /\ Routed(x)
    BY <1>13, ConnAssumption
    DEF TypeOK, Quiet, Routed, dbVars, memVars, connVars, agentVars, reqVars, ServerSyncList
  <2> QED BY <2>1, <1>n, NewsQuiet
<1>14. ASSUME NEW c \in Conns, NEW s \in Sessions, MarkListed(c, s) PROVE NewInv(o, x)' /\ RouteInv(o, x)'
  <2>1. Quiet(o) /\ Routed(x)
    BY <1>14, ConnAssumption
    DEF TypeOK, Quiet, Routed, dbVars, memVars, connVars, agentVars, reqVars, MarkListed
  <2> QED BY <2>1, <1>n, NewsQuiet
<1>15. ASSUME NEW c \in Conns, ServerSyncDone(c) PROVE NewInv(o, x)' /\ RouteInv(o, x)'
  <2>1. Quiet(o) /\ Routed(x)
    BY <1>15, ConnAssumption
    DEF TypeOK, Quiet, Routed, dbVars, memVars, connVars, agentVars, reqVars, ServerSyncDone
  <2> QED BY <2>1, <1>n, NewsQuiet
<1>16. ASSUME NEW c \in Conns, ServerSeesBreak(c) PROVE NewInv(o, x)' /\ RouteInv(o, x)'
  <2>1. /\ UNCHANGED <<ptys, down, link, cur, creq, route>>
        /\ up'[o] = up[o] \/ up'[o] = <<>>
    BY <1>16 DEF ServerSeesBreak, TypeOK, memVars, reqVars
  <2>2. \A m : Has(up'[o], m) => Has(up[o], m)
    BY <2>1, NoneOnEmpty
  <2> QED BY <2>1, <2>2, <1>n DEF NewInv, RouteInv, Holds
<1>17. ASSUME NEW c \in Conns, CleanUpList(c) PROVE NewInv(o, x)' /\ RouteInv(o, x)'
  <2>1. Quiet(o) /\ Routed(x)
    BY <1>17, ConnAssumption
    DEF TypeOK, Quiet, Routed, dbVars, memVars, connVars, agentVars, reqVars, CleanUpList
  <2> QED BY <2>1, <1>n, NewsQuiet
<1>18. ASSUME NEW c \in Conns, CleanUpMarked(c) PROVE NewInv(o, x)' /\ RouteInv(o, x)'
  <2>1. Quiet(o) /\ Routed(x)
    BY <1>18, ConnAssumption
    DEF TypeOK, Quiet, Routed, dbVars, memVars, connVars, agentVars, reqVars, CleanUpMarked
  <2> QED BY <2>1, <1>n, NewsQuiet
<1>19. ASSUME NEW c \in Conns, CleanUpOffline(c) PROVE NewInv(o, x)' /\ RouteInv(o, x)'
  <2>1. Quiet(o) /\ Routed(x)
    BY <1>19, ConnAssumption
    DEF TypeOK, Quiet, Routed, dbVars, memVars, connVars, agentVars, reqVars, CleanUpOffline
  <2> QED BY <2>1, <1>n, NewsQuiet
<1>20. ASSUME NEW c \in Conns, CleanUpDetach(c) PROVE NewInv(o, x)' /\ RouteInv(o, x)'
  <2>1. Quiet(o) /\ Routed(x)
    BY <1>20, ConnAssumption
    DEF TypeOK, Quiet, Routed, dbVars, memVars, connVars, agentVars, reqVars, CleanUpDetach
  <2> QED BY <2>1, <1>n, NewsQuiet
<1>21. ASSUME NEW c \in Conns, ServerStarted(c) PROVE NewInv(o, x)' /\ RouteInv(o, x)'
  <2>1. /\ up[c] # <<>> /\ up' = [up EXCEPT ![c] = Tail(up[c])] /\ up \in [Conns -> Seq(UpMsg)]
        /\ UNCHANGED <<ptys, down, cur, link, creq>>
        /\ route'[x] = NoDevice => route[x] = NoDevice
    <3>1. up[c] \in Seq(UpMsg) /\ up[c] # <<>> /\ ConnDevice[c] # NoDevice
      <4>1. up[c] # <<>>
        BY <1>21 DEF ServerStarted
      <4>2. up[c] \in Seq(UpMsg)
        BY DEF TypeOK
      <4> QED BY <4>1, <4>2, ConnAssumption
    <3>2. Head(up[c]) \in UpMsg
      BY <3>1, HeadElement
    <3> QED BY <1>21, <3>1, <3>2 DEF ServerStarted, TypeOK, connVars, reqVars, UpMsg
  <2>2. \A m : Has(up'[o], m) => Has(up[o], m)
    BY <2>1, HasTail
  <2> QED BY <2>1, <2>2, <1>n DEF NewInv, RouteInv, Holds
<1>22. ASSUME NEW c \in Conns, ServerReadStatus(c) PROVE NewInv(o, x)' /\ RouteInv(o, x)'
  <2> DEFINE h == Head(up[c])
  <2>1. /\ up[c] # <<>> /\ up' = [up EXCEPT ![c] = Tail(up[c])] /\ up \in [Conns -> Seq(UpMsg)]
        /\ cur \in [Conns -> {<<>>} \union {<<y>> : y \in UpMsg}]
        /\ UNCHANGED <<ptys, down, link, creq, route>>
        /\ cur' = cur \/ cur' = [cur EXCEPT ![c] = <<h>>]
    BY <1>22 DEF ServerReadStatus, TypeOK, memVars, reqVars
  <2>2. \A m : Has(up'[o], m) => Has(up[o], m)
    BY <2>1, HasTail
  <2>3. \A m : Holds(o, m)' => Holds(o, m) \/ Has(up[o], m)
    <3>1. \A m : h = m => Has(up[c], m)
      BY <2>1, HasTail
    <3> HIDE DEF h
    <3>2. \A m : cur'[o] = <<m>> => cur[o] = <<m>> \/ (o = c /\ h = m)
      BY <2>1
    <3> QED BY <3>1, <3>2 DEF Holds
  <2> QED BY <2>1, <2>2, <2>3, <1>n DEF NewInv, RouteInv
<1>23. ASSUME NEW c \in Conns, ServerWriteStatus(c) PROVE NewInv(o, x)' /\ RouteInv(o, x)'
  <2>1. UNCHANGED <<ptys, down, up, link, creq, route>> /\ (cur'[o] = cur[o] \/ cur'[o] = <<>>)
    BY <1>23 DEF ServerWriteStatus, TypeOK, memVars, reqVars, agentVars
  <2> QED BY <2>1, <1>n DEF NewInv, RouteInv, Holds
<1>24. ASSUME NEW c \in Conns, AgentConnect(c) PROVE NewInv(o, x)' /\ RouteInv(o, x)'
  <2>1. CASE o # c
    <3>1. Quiet(o) /\ Routed(x)
      BY <1>24, <2>1 DEF AgentConnect, TypeOK, Quiet, Routed, memVars, reqVars
    <3> QED BY <3>1, <1>n, NewsQuiet
  <2>2. CASE o = c
    <3>1. up'[c] = <<>> /\ down'[c] = <<>> /\ UNCHANGED <<ptys, creq, route, cur>> /\ ~alive[c]
      BY <1>24 DEF AgentConnect, TypeOK, memVars, reqVars
    <3>2. ptys[c] = {}
      BY <3>1 DEF LinksInv, LinkInv
    <3> QED BY <2>2, <3>1, <3>2, <1>n, NoneOnEmpty DEF NewInv, RouteInv, Holds
  <2> QED BY <2>1, <2>2
<1>25. ASSUME NEW c \in Conns, AgentStart(c) PROVE NewInv(o, x)' /\ RouteInv(o, x)'
  <2> DEFINE h == Head(down[c])
  <2>h. h \in DownMsg /\ down[c] # <<>> /\ h.t = "start"
    BY <1>25, HeadElement DEF AgentStart, TypeOK
  <2>1. /\ UNCHANGED <<cur, link, creq, route>> /\ up[o] \in Seq(UpMsg) /\ down[o] \in Seq(DownMsg) /\ down[c] \in Seq(DownMsg)
        /\ h = Msg("start", h.s) /\ down' = [down EXCEPT ![c] = Tail(down[c])] /\ down \in [Conns -> Seq(DownMsg)]
        /\ up' = Push(up, c, "started", h.s) /\ Msg("started", h.s) \in UpMsg
    <3>1. h = Msg("start", h.s) /\ Msg("started", h.s) \in UpMsg
      BY <2>h DEF DownMsg, UpMsg, Msg
    <3> QED BY <1>25, <3>1 DEF AgentStart, TypeOK, connVars, memVars, reqVars
  <2>2. x \in ptys'[o] => x \in ptys[o] \/ (o = c /\ x = h.s)
    BY <1>25 DEF AgentStart, TypeOK
  <2>6. o = c /\ x = h.s => Has(down[o], Msg("start", x))
    BY <2>1, <2>h, HasTail
  <2> HIDE DEF h
  <2>3. up'[o] = IF link[c] = "up" /\ o = c THEN Append(up[c], Msg("started", h.s)) ELSE up[o]
    BY <2>1, PushIs
  <2>4. \A m : Has(up'[o], m) => Has(up[o], m) \/ (o = c /\ m = Msg("started", h.s))
    BY <2>1, <2>3, HasAppend
  <2>5. \A m : Has(down'[o], m) => Has(down[o], m)
    BY <2>1, <2>h, HasTail
  <2>7. Msg("started", h.s) # Msg("stdout", x) /\ (Msg("started", h.s) = Msg("started", x) => x = h.s)
    BY DEF Msg
  <2> QED BY <2>1, <2>2, <2>4, <2>5, <2>6, <2>7, <1>n DEF NewInv, RouteInv, Holds
<1>26. ASSUME NEW c \in Conns, AgentClose(c) PROVE NewInv(o, x)' /\ RouteInv(o, x)'
  <2> DEFINE h == Head(down[c])
  <2>h. h \in DownMsg /\ down[c] # <<>> /\ h.t = "close"
    BY <1>26, HeadElement DEF AgentClose, TypeOK
  <2>1. /\ UNCHANGED <<cur, link, creq, route>> /\ up[o] \in Seq(UpMsg) /\ down[o] \in Seq(DownMsg) /\ down[c] \in Seq(DownMsg)
        /\ h = Msg("close", h.s) /\ down' = [down EXCEPT ![c] = Tail(down[c])] /\ down \in [Conns -> Seq(DownMsg)]
        /\ up' = Push(up, c, "exit", h.s) /\ Msg("exit", h.s) \in UpMsg
    <3>1. h = Msg("close", h.s) /\ Msg("exit", h.s) \in UpMsg
      BY <2>h DEF DownMsg, UpMsg, Msg
    <3> QED BY <1>26, <3>1 DEF AgentClose, TypeOK, connVars, memVars, reqVars
  <2>2. x \in ptys'[o] => x \in ptys[o]
    BY <1>26 DEF AgentClose, TypeOK
  <2> HIDE DEF h
  <2>3. up'[o] = IF link[c] = "up" /\ o = c THEN Append(up[c], Msg("exit", h.s)) ELSE up[o]
    BY <2>1, PushIs
  <2>4. \A m : Has(up'[o], m) => Has(up[o], m) \/ (o = c /\ m = Msg("exit", h.s))
    BY <2>1, <2>3, HasAppend
  <2>5. \A m : Has(down'[o], m) => Has(down[o], m)
    BY <2>1, <2>h, HasTail
  <2>6. Msg("exit", h.s) # Msg("started", x) /\ (Msg("exit", h.s) = Msg("stdout", x) => FALSE)
    BY <2>1 DEF Msg
  <2> QED BY <2>1, <2>2, <2>4, <2>5, <2>6, <1>n DEF NewInv, RouteInv, Holds
<1>27. ASSUME NEW c \in Conns, NEW s \in Sessions, AgentOutput(c, s) PROVE NewInv(o, x)' /\ RouteInv(o, x)'
  <2>1. /\ UNCHANGED <<cur, link, creq, route, down>> /\ s \in ptys[c] /\ up[o] \in Seq(UpMsg) /\ down[o] \in Seq(DownMsg) /\ down[c] \in Seq(DownMsg)
        /\ up' = Push(up, c, "stdout", s) /\ Msg("stdout", s) \in UpMsg
    BY <1>27 DEF AgentOutput, TypeOK, UpMsg, Msg, connVars, memVars, reqVars
  <2>2. x \in ptys'[o] => x \in ptys[o]
    BY <1>27 DEF AgentOutput, TypeOK
  <2>3. up'[o] = IF link[c] = "up" /\ o = c THEN Append(up[c], Msg("stdout", s)) ELSE up[o]
    BY <2>1, PushIs
  <2>4. \A m : Has(up'[o], m) => Has(up[o], m) \/ (o = c /\ m = Msg("stdout", s))
    BY <2>1, <2>3, HasAppend
  <2>5. \A m : Has(down'[o], m) => Has(down[o], m)
    BY <2>1
  <2>6. Msg("stdout", s) # Msg("started", x) /\ (Msg("stdout", s) = Msg("stdout", x) => x = s)
    BY <2>1 DEF Msg
  <2> QED BY <2>1, <2>2, <2>4, <2>5, <2>6, <1>n DEF NewInv, RouteInv, Holds
<1>28. ASSUME NEW c \in Conns, NEW s \in Sessions, AgentShellExit(c, s) PROVE NewInv(o, x)' /\ RouteInv(o, x)'
  <2>1. /\ UNCHANGED <<cur, link, creq, route, down>> /\ s \in ptys[c] /\ up[o] \in Seq(UpMsg) /\ down[o] \in Seq(DownMsg) /\ down[c] \in Seq(DownMsg)
        /\ up' = Push(up, c, "exit", s) /\ Msg("exit", s) \in UpMsg
    BY <1>28 DEF AgentShellExit, TypeOK, UpMsg, Msg, connVars, memVars, reqVars
  <2>2. x \in ptys'[o] => x \in ptys[o]
    BY <1>28 DEF AgentShellExit, TypeOK
  <2>3. up'[o] = IF link[c] = "up" /\ o = c THEN Append(up[c], Msg("exit", s)) ELSE up[o]
    BY <2>1, PushIs
  <2>4. \A m : Has(up'[o], m) => Has(up[o], m) \/ (o = c /\ m = Msg("exit", s))
    BY <2>1, <2>3, HasAppend
  <2>5. \A m : Has(down'[o], m) => Has(down[o], m)
    BY <2>1
  <2>6. Msg("exit", s) # Msg("started", x) /\ (Msg("exit", s) = Msg("stdout", x) => FALSE)
    BY <2>1 DEF Msg
  <2> QED BY <2>1, <2>2, <2>4, <2>5, <2>6, <1>n DEF NewInv, RouteInv, Holds
<1>29. ASSUME NEW c \in Conns, AgentEnds(c) PROVE NewInv(o, x)' /\ RouteInv(o, x)'
  <2>1. /\ UNCHANGED <<up, cur, creq, route>> /\ (link'[o] = "up" => link[o] = "up")
        /\ x \in ptys'[o] => x \in ptys[o]
        /\ down'[o] = down[o] \/ down'[o] = <<>>
    BY <1>29 DEF AgentEnds, TypeOK, connVars, memVars, reqVars
  <2>2. \A m : Has(down'[o], m) => Has(down[o], m)
    BY <2>1, NoneOnEmpty
  <2> QED BY <2>1, <2>2, <1>n DEF NewInv, RouteInv, Holds
<1>30. ASSUME NEW c \in Conns, LinkBreaks(c) PROVE NewInv(o, x)' /\ RouteInv(o, x)'
  <2>1. Quiet(o) /\ Routed(x)
    BY <1>30, ConnAssumption
    DEF TypeOK, Quiet, Routed, dbVars, memVars, connVars, agentVars, reqVars, LinkBreaks
  <2> QED BY <2>1, <1>n, NewsQuiet
<1>31. ASSUME ServerRestart PROVE NewInv(o, x)' /\ RouteInv(o, x)'
  <2>1. /\ UNCHANGED <<ptys, down>> /\ link'[o] # "up" /\ cur'[o] = <<>> /\ up'[o] = <<>>
        /\ creq'[x] # "done" => creq[x] # "done"
    BY <1>31 DEF ServerRestart, TypeOK
  <2>2. \A m : ~Has(up'[o], m)
    BY <2>1, NoneOnEmpty
  <2> QED BY <2>1, <2>2, <1>n DEF NewInv, RouteInv, Holds
<1>32. CASE UNCHANGED vars
  BY <1>32, <1>n, NewsQuiet DEF vars, Quiet, Routed, memVars, connVars, agentVars, reqVars
<1> QED
  BY <1>1, <1>2, <1>3, <1>4, <1>5, <1>6, <1>7, <1>8, <1>9, <1>10, <1>11, <1>12, <1>13, <1>14,
      <1>15, <1>16, <1>17, <1>18, <1>19, <1>20, <1>21, <1>22, <1>23, <1>24, <1>25, <1>26,
      <1>27, <1>28, <1>29, <1>30, <1>31, <1>32, MarksOne
  DEF Next, User, Requests, Connections, Faults, CreateRequest, Handler,
      Handshake, Synchronise, Receive, Disconnect,
      AgentLoop, AgentShells, AgentCrash, AgentSeesBreak

-----------------------------------------------------------------------------
(* The only connection of a device *)

\* A connection becomes its device's only one by attaching, and not otherwise.
LEMMA SoleKept ==
    ASSUME TypeOK, RoutingInv, LinksInv, NEW o \in Conns, Sole(o)', [Next]_vars
    PROVE  Sole(o) \/ ServerAttach(o)
<1>1. ASSUME NEW s \in Sessions, NEW d \in Devices, CreateCheck(s, d) PROVE Sole(o) \/ ServerAttach(o)
  <2>1. UNCHANGED <<link, agents, pc>>
    BY <1>1 DEF CreateCheck, memVars, connVars, agentVars
  <2> QED BY <2>1 DEF Sole
<1>2. ASSUME NEW s \in Sessions, CreateInsert(s) PROVE Sole(o) \/ ServerAttach(o)
  <2>1. UNCHANGED <<link, agents, pc>>
    BY <1>2 DEF CreateInsert, memVars, connVars, agentVars
  <2> QED BY <2>1 DEF Sole
<1>3. ASSUME NEW s \in Sessions, CreateBind(s) PROVE Sole(o) \/ ServerAttach(o)
  <2>1. UNCHANGED <<link, agents, pc>>
    BY <1>3 DEF CreateBind, memVars, connVars, agentVars
  <2> QED BY <2>1 DEF Sole
<1>4. ASSUME NEW s \in Sessions, CreateSend(s) PROVE Sole(o) \/ ServerAttach(o)
  <2>1. UNCHANGED <<link, agents, pc>>
    BY <1>4 DEF CreateSend, memVars, connVars, agentVars
  <2> QED BY <2>1 DEF Sole
<1>5. ASSUME NEW s \in Sessions, CreateSendFails(s) PROVE Sole(o) \/ ServerAttach(o)
  <2>1. UNCHANGED <<link, agents, pc>>
    BY <1>5 DEF CreateSendFails, memVars, connVars, agentVars
  <2> QED BY <2>1 DEF Sole
<1>6. ASSUME NEW s \in Sessions, CreateMarkLost(s) PROVE Sole(o) \/ ServerAttach(o)
  <2>1. UNCHANGED <<link, agents, pc>>
    BY <1>6 DEF CreateMarkLost, memVars, connVars, agentVars
  <2> QED BY <2>1 DEF Sole
<1>7. ASSUME NEW s \in Sessions, CloseMark(s) PROVE Sole(o) \/ ServerAttach(o)
  <2>1. UNCHANGED <<link, agents, pc>>
    BY <1>7 DEF CloseMark, memVars, connVars, agentVars
  <2> QED BY <2>1 DEF Sole
<1>8. ASSUME NEW s \in Sessions, CloseSend(s) PROVE Sole(o) \/ ServerAttach(o)
  <2>1. UNCHANGED <<link, agents, pc>>
    BY <1>8 DEF CloseSend, memVars, connVars, agentVars
  <2> QED BY <2>1 DEF Sole
<1>9. ASSUME NEW s \in Sessions, WebSubscribe(s) PROVE Sole(o) \/ ServerAttach(o)
  <2>1. UNCHANGED <<link, agents, pc>>
    BY <1>9 DEF WebSubscribe, memVars, connVars, agentVars
  <2> QED BY <2>1 DEF Sole
<1>10. ASSUME NEW c \in Conns, ServerHello(c) PROVE Sole(o) \/ ServerAttach(o)
  BY <1>10, ConnAssumption
  DEF TypeOK, Sole, RoutingInv, NoDeadPeer, LinksInv, LinkInv, Serving, CleanUp, dbVars,
      memVars, connVars, agentVars, reqVars, ServerHello
<1>11. ASSUME NEW c \in Conns, ServerNoHello(c) PROVE Sole(o) \/ ServerAttach(o)
  BY <1>11, ConnAssumption
  DEF TypeOK, Sole, RoutingInv, NoDeadPeer, LinksInv, LinkInv, Serving, CleanUp, dbVars,
      memVars, connVars, agentVars, reqVars, ServerNoHello
<1>12. ASSUME NEW c \in Conns, ServerAttach(c) PROVE Sole(o) \/ ServerAttach(o)
  <2>1. CASE o = c
    BY <1>12, <2>1
  <2>2. CASE o # c
    <3>1. /\ UNCHANGED link /\ agents' = [agents EXCEPT ![ConnDevice[c]] = c] /\ ConnDevice[c] \in Devices
          /\ pc' = [pc EXCEPT ![c] = "list"] /\ pc \in [Conns -> PCs] /\ agents \in [Devices -> Conns \union {NoConn}]
          /\ ConnDevice[o] \in Devices
      BY <1>12, ConnAssumption DEF ServerAttach, TypeOK, agentVars
    <3>2. ConnDevice[o] # ConnDevice[c]
      BY <2>2, <3>1 DEF Sole
    <3>3. agents'[ConnDevice[o]] = agents[ConnDevice[o]]
      BY <3>1, <3>2
    <3>4. \A b \in Conns : b # c => pc'[b] = pc[b]
      BY <3>1
    <3> QED BY <2>2, <3>1, <3>2, <3>3, <3>4 DEF Sole
  <2> QED BY <2>1, <2>2
<1>13. ASSUME NEW c \in Conns, ServerSyncList(c) PROVE Sole(o) \/ ServerAttach(o)
  BY <1>13, ConnAssumption
  DEF TypeOK, Sole, RoutingInv, NoDeadPeer, LinksInv, LinkInv, Serving, CleanUp, dbVars,
      memVars, connVars, agentVars, reqVars, ServerSyncList
<1>14. ASSUME NEW c \in Conns, NEW s \in Sessions, MarkListed(c, s) PROVE Sole(o) \/ ServerAttach(o)
  <2>1. UNCHANGED <<link, agents, pc>>
    BY <1>14 DEF MarkListed, memVars, connVars, agentVars
  <2> QED BY <2>1 DEF Sole
<1>15. ASSUME NEW c \in Conns, ServerSyncDone(c) PROVE Sole(o) \/ ServerAttach(o)
  BY <1>15, ConnAssumption
  DEF TypeOK, Sole, RoutingInv, NoDeadPeer, LinksInv, LinkInv, Serving, CleanUp, dbVars,
      memVars, connVars, agentVars, reqVars, ServerSyncDone
<1>16. ASSUME NEW c \in Conns, ServerSeesBreak(c) PROVE Sole(o) \/ ServerAttach(o)
  BY <1>16, ConnAssumption
  DEF TypeOK, Sole, RoutingInv, NoDeadPeer, LinksInv, LinkInv, Serving, CleanUp, dbVars,
      memVars, connVars, agentVars, reqVars, ServerSeesBreak
<1>17. ASSUME NEW c \in Conns, CleanUpList(c) PROVE Sole(o) \/ ServerAttach(o)
  BY <1>17, ConnAssumption
  DEF TypeOK, Sole, RoutingInv, NoDeadPeer, LinksInv, LinkInv, Serving, CleanUp, dbVars,
      memVars, connVars, agentVars, reqVars, CleanUpList
<1>18. ASSUME NEW c \in Conns, CleanUpMarked(c) PROVE Sole(o) \/ ServerAttach(o)
  BY <1>18, ConnAssumption
  DEF TypeOK, Sole, RoutingInv, NoDeadPeer, LinksInv, LinkInv, Serving, CleanUp, dbVars,
      memVars, connVars, agentVars, reqVars, CleanUpMarked
<1>19. ASSUME NEW c \in Conns, CleanUpOffline(c) PROVE Sole(o) \/ ServerAttach(o)
  BY <1>19, ConnAssumption
  DEF TypeOK, Sole, RoutingInv, NoDeadPeer, LinksInv, LinkInv, Serving, CleanUp, dbVars,
      memVars, connVars, agentVars, reqVars, CleanUpOffline
<1>20. ASSUME NEW c \in Conns, CleanUpDetach(c) PROVE Sole(o) \/ ServerAttach(o)
  <2>1. /\ UNCHANGED link /\ agents' = [agents EXCEPT ![ConnDevice[c]] = NoConn] /\ ConnDevice[c] \in Devices
        /\ pc' = [pc EXCEPT ![c] = "gone"] /\ pc \in [Conns -> PCs] /\ agents \in [Devices -> Conns \union {NoConn}]
        /\ ConnDevice[o] \in Devices /\ o # NoConn
    BY <1>20, ConnAssumption DEF CleanUpDetach, TypeOK, agentVars
  <2>2. ConnDevice[o] # ConnDevice[c]
    BY <2>1 DEF Sole
  <2>3. agents'[ConnDevice[o]] = agents[ConnDevice[o]]
    BY <2>1, <2>2
  <2>4. \A b \in Conns : b # c => pc'[b] = pc[b]
    BY <2>1
  <2> QED BY <2>1, <2>2, <2>3, <2>4 DEF Sole
<1>21. ASSUME NEW c \in Conns, ServerStarted(c) PROVE Sole(o) \/ ServerAttach(o)
  <2>1. UNCHANGED <<link, agents, pc>>
    BY <1>21 DEF ServerStarted, memVars, connVars, agentVars
  <2> QED BY <2>1 DEF Sole
<1>22. ASSUME NEW c \in Conns, ServerReadStatus(c) PROVE Sole(o) \/ ServerAttach(o)
  <2>1. UNCHANGED <<link, agents>> /\ (pc' = pc \/ (pc[c] = "read" /\ pc' = [pc EXCEPT ![c] = "write"]))
    BY <1>22 DEF ServerReadStatus, memVars, connVars
  <2> QED BY <2>1 DEF Sole, TypeOK
<1>23. ASSUME NEW c \in Conns, ServerWriteStatus(c) PROVE Sole(o) \/ ServerAttach(o)
  BY <1>23, ConnAssumption
  DEF TypeOK, Sole, RoutingInv, NoDeadPeer, LinksInv, LinkInv, Serving, CleanUp, dbVars,
      memVars, connVars, agentVars, reqVars, ServerWriteStatus
<1>24. ASSUME NEW c \in Conns, AgentConnect(c) PROVE Sole(o) \/ ServerAttach(o)
  <2>1. /\ UNCHANGED agents /\ pc[c] = "gone"
        /\ pc' = [pc EXCEPT ![c] = "hello"] /\ pc \in [Conns -> PCs]
        /\ link' = [link EXCEPT ![c] = "up"] /\ link \in [Conns -> {"up", "down"}]
        /\ ConnDevice[o] \in Devices /\ o # NoConn
    BY <1>24, ConnAssumption DEF AgentConnect, TypeOK, memVars
  <2>2. o # c
    <3>1. agents[ConnDevice[o]] = o
      BY <2>1 DEF Sole
    <3>2. pc[o] \in Serving \union CleanUp
      BY <2>1, <3>1 DEF RoutingInv, NoDeadPeer
    <3> QED BY <2>1, <3>2 DEF Serving, CleanUp
  <2>3. link'[o] = link[o] /\ \A b \in Conns : b # c => pc'[b] = pc[b]
    BY <2>1, <2>2
  <2> QED BY <2>1, <2>2, <2>3 DEF Sole
<1>25. ASSUME NEW c \in Conns, AgentStart(c) PROVE Sole(o) \/ ServerAttach(o)
  <2>1. UNCHANGED <<link, agents, pc>>
    BY <1>25 DEF AgentStart, memVars, connVars, agentVars
  <2> QED BY <2>1 DEF Sole
<1>26. ASSUME NEW c \in Conns, AgentClose(c) PROVE Sole(o) \/ ServerAttach(o)
  <2>1. UNCHANGED <<link, agents, pc>>
    BY <1>26 DEF AgentClose, memVars, connVars, agentVars
  <2> QED BY <2>1 DEF Sole
<1>27. ASSUME NEW c \in Conns, NEW s \in Sessions, AgentOutput(c, s) PROVE Sole(o) \/ ServerAttach(o)
  <2>1. UNCHANGED <<link, agents, pc>>
    BY <1>27 DEF AgentOutput, memVars, connVars, agentVars
  <2> QED BY <2>1 DEF Sole
<1>28. ASSUME NEW c \in Conns, NEW s \in Sessions, AgentShellExit(c, s) PROVE Sole(o) \/ ServerAttach(o)
  <2>1. UNCHANGED <<link, agents, pc>>
    BY <1>28 DEF AgentShellExit, memVars, connVars, agentVars
  <2> QED BY <2>1 DEF Sole
<1>29. ASSUME NEW c \in Conns, AgentEnds(c) PROVE Sole(o) \/ ServerAttach(o)
  BY <1>29, ConnAssumption
  DEF TypeOK, Sole, RoutingInv, NoDeadPeer, LinksInv, LinkInv, Serving, CleanUp, dbVars,
      memVars, connVars, agentVars, reqVars, AgentEnds
<1>30. ASSUME NEW c \in Conns, LinkBreaks(c) PROVE Sole(o) \/ ServerAttach(o)
  BY <1>30, ConnAssumption
  DEF TypeOK, Sole, RoutingInv, NoDeadPeer, LinksInv, LinkInv, Serving, CleanUp, dbVars,
      memVars, connVars, agentVars, reqVars, LinkBreaks
<1>31. ASSUME ServerRestart PROVE Sole(o) \/ ServerAttach(o)
  BY <1>31, ConnAssumption
  DEF TypeOK, Sole, RoutingInv, NoDeadPeer, LinksInv, LinkInv, Serving, CleanUp, dbVars,
      memVars, connVars, agentVars, reqVars, ServerRestart
<1>32. CASE UNCHANGED vars
  BY <1>32 DEF vars, Sole, memVars, connVars, agentVars
<1> QED
  BY <1>1, <1>2, <1>3, <1>4, <1>5, <1>6, <1>7, <1>8, <1>9, <1>10, <1>11, <1>12, <1>13, <1>14,
      <1>15, <1>16, <1>17, <1>18, <1>19, <1>20, <1>21, <1>22, <1>23, <1>24, <1>25, <1>26,
      <1>27, <1>28, <1>29, <1>30, <1>31, <1>32, MarksOne
  DEF Next, User, Requests, Connections, Faults, CreateRequest, Handler,
      Handshake, Synchronise, Receive, Disconnect,
      AgentLoop, AgentShells, AgentCrash, AgentSeesBreak

-----------------------------------------------------------------------------
(* Shells and their rows *)

\* A step leaves alone what the agreement of c and s depends on.
Still(c, s) ==
    /\ pc[c] \in {"read", "write"} => pc'[c] \in {"read", "write"}
    /\ s \in ptys'[c] <=> s \in ptys[c]
    /\ ExitLast(up'[c], s) <=> ExitLast(up[c], s)
    /\ Has(up'[c], Msg("started", s)) <=> Has(up[c], Msg("started", s))
    /\ Has(down[c], Msg("close", s)) => Has(down'[c], Msg("close", s))
    /\ Holds(c, Msg("exit", s))' <=> Holds(c, Msg("exit", s))
    /\ Holds(c, Msg("stdout", s))' => Holds(c, Msg("stdout", s)) /\ rd'[c] = rd[c]

\* A step leaves the row of s and the requests about it alone.
Untouched(s) ==
    /\ owner'[s] = owner[s] /\ status'[s] = status[s]
    /\ clreq[s] = "sending" => clreq'[s] = "sending"

Calm(c) ==
    /\ pc'[c] = pc[c] /\ todo'[c] = todo[c] /\ cur'[c] = cur[c] /\ rd'[c] = rd[c]
    /\ ptys'[c] = ptys[c] /\ up'[c] = up[c] /\ down'[c] = down[c]

\* A step that leaves the connection alone leaves its agreements alone.
LEMMA CalmIsStill == ASSUME NEW c, NEW s, Calm(c) PROVE Still(c, s)
BY DEF Calm, Still, Holds

\* A step that concerns neither the connection nor the row keeps their agreement.
LEMMA PairQuiet ==
    ASSUME NEW c, NEW s, Sole(c), ShellInv(c, s), Still(c, s), Untouched(s)
    PROVE  ShellInv(c, s)'
<1>1. Owns(c, s)' <=> Owns(c, s)
  BY DEF Untouched, Owns
<1> QED BY <1>1 DEF ShellInv, Still, Untouched

\* What the other connections of the device may no longer do.
LEMMA SoleIs ==
    ASSUME TypeOK, RoutingInv, LinksInv, NEW c \in Conns, Sole(c)
    PROVE  /\ link[c] = "up" /\ pc[c] \in Serving /\ alive[c]
           /\ \A s \in Sessions : Owns(c, s) /\ route[s] # NoDevice => Peer(s) = c
           /\ \A o \in Conns : o # c => 
                 /\ \A s : Owns(c, s) => s \notin todo[o] /\ (cur[o] # <<>> => cur[o][1].s # s)
                 /\ \A s : Owns(c, s) /\ Owns(o, s) => pc[o] \in {"gone", "hello"}
<1>1. link[c] = "up" /\ agents[ConnDevice[c]] = c /\ ConnDevice[c] \in Devices /\ c # NoConn
  BY ConnAssumption DEF Sole
<1>2. pc[c] \in Serving \union CleanUp /\ alive[c]
  BY <1>1 DEF RoutingInv, NoDeadPeer, LinksInv, LinkInv
<1>3. pc[c] \in Serving
  BY <1>1, <1>2 DEF LinksInv, LinkInv, Serving, CleanUp
<1>4. ASSUME NEW s \in Sessions, Owns(c, s), route[s] # NoDevice PROVE Peer(s) = c
  BY <1>1, <1>4 DEF RoutingInv, RowInv, Owns, Peer
<1>5. ASSUME NEW o \in Conns, o # c
      PROVE  /\ \A s : Owns(c, s) => s \notin todo[o] /\ (cur[o] # <<>> => cur[o][1].s # s)
             /\ \A s : Owns(c, s) /\ Owns(o, s) => pc[o] \in {"gone", "hello"}
  <2>1. ASSUME NEW s, Owns(c, s), Owns(o, s) PROVE pc[o] \in {"gone", "hello"}
    BY <1>5, <2>1 DEF Sole, Owns
  <2>2. HandInv(o)
    BY DEF LinksInv
  <2> QED BY <2>1, <2>2 DEF HandInv
<1> QED BY <1>1, <1>2, <1>3, <1>4, <1>5

\* Every step of anyone keeps the rows of an attached connection's shells right.
LEMMA ShellsKept ==
    ASSUME TypeOK, RoutingInv, LinksInv, NewsInv, ShellsInv,
           NEW o \in Conns, NEW x \in Sessions, Sole(o), Sole(o)', Owns(o, x)', [Next]_vars
    PROVE  ShellInv(o, x)'
<1>n. /\ ShellInv(o, x) /\ NewInv(o, x) /\ RouteInv(o, x) /\ HandInv(o)
      /\ link[o] = "up" /\ pc[o] \in Serving /\ alive[o]
  BY SoleIs DEF ShellsInv, NewsInv, LinksInv
<1>1. ASSUME NEW s \in Sessions, NEW d \in Devices, CreateCheck(s, d) PROVE ShellInv(o, x)'
  <2>1. Calm(o) /\ Untouched(x)
    BY <1>1 DEF TypeOK, Calm, Untouched, dbVars, memVars, connVars, agentVars, reqVars, CreateCheck
  <2> QED BY <2>1, <1>n, CalmIsStill, PairQuiet
<1>2. ASSUME NEW s \in Sessions, CreateInsert(s) PROVE ShellInv(o, x)'
  <2>1. Calm(o) /\ (s # x => Untouched(x))
    BY <1>2 DEF TypeOK, Calm, Untouched, dbVars, memVars, connVars, agentVars, reqVars, CreateInsert
  <2>2. CASE s # x
    BY <2>1, <2>2, <1>n, CalmIsStill, PairQuiet
  <2>3. CASE s = x
    <3>1. creq[x] = "checked" /\ creq'[x] = "inserted"
      BY <1>2, <2>3 DEF CreateInsert, TypeOK
    <3> QED BY <2>1, <3>1, <1>n DEF NewInv, ShellInv, Calm
  <2> QED BY <2>2, <2>3
<1>3. ASSUME NEW s \in Sessions, CreateBind(s) PROVE ShellInv(o, x)'
  <2>1. Calm(o) /\ Untouched(x)
    BY <1>3 DEF TypeOK, Calm, Untouched, dbVars, memVars, connVars, agentVars, reqVars, CreateBind
  <2> QED BY <2>1, <1>n, CalmIsStill, PairQuiet
<1>4. ASSUME NEW s \in Sessions, CreateSend(s) PROVE ShellInv(o, x)'
  <2>1. /\ pc'[o] = pc[o] /\ todo'[o] = todo[o] /\ cur'[o] = cur[o] /\ rd'[o] = rd[o]
        /\ ptys'[o] = ptys[o] /\ up'[o] = up[o] /\ (s # x => Untouched(x))
    BY <1>4 DEF TypeOK, Untouched, dbVars, connVars, CreateSend
  <2>2. Still(o, x)
    <3>1. ASSUME NEW m PROVE Has(down[o], m) => Has(down'[o], m)
      <4>1. CASE down' = down
        BY <4>1
      <4>2. CASE down' # down
        <5>1. SendOK(s) /\ down' = Push(down, Peer(s), "start", s)
          BY <1>4, <4>2 DEF CreateSend
        <5>2. \/ down'[o] = down[o]
              \/ down'[o] = Append(down[o], Msg("start", s)) /\ Msg("start", s) \in DownMsg
          BY <5>1, SendShape
        <5>3. down[o] \in Seq(DownMsg)
          BY DEF TypeOK
        <5>4. ASSUME Msg("start", s) \in DownMsg
              PROVE  Has(Append(down[o], Msg("start", s)), m) <=> Has(down[o], m) \/ Msg("start", s) = m
          BY <5>3, <5>4, HasAppend
        <5> QED BY <5>2, <5>4
      <4> QED BY <4>1, <4>2
    <3> QED BY <2>1, <3>1 DEF Still, Holds
  <2>4. CASE s # x
    BY <2>1, <2>2, <2>4, <1>n, PairQuiet
  <2>5. CASE s = x
    <3>1. creq[x] = "bound" /\ SendOK(x) /\ down' = Push(down, Peer(x), "start", x) /\ owner' = owner
      BY <1>4, <2>5 DEF CreateSend, dbVars
    <3>2. x \notin ptys'[o]
      BY <2>1, <3>1, <1>n DEF NewInv
    <3>3. Owns(o, x) /\ route[x] # NoDevice
      BY <3>1 DEF Owns, SendOK, Peer
    <3>4. Peer(x) = o
      BY <3>3, SoleIs
    <3>5. down'[o] = Append(down[o], Msg("start", x)) /\ Msg("start", x) \in DownMsg
      BY <3>1, <3>4, <1>n, SendShape
    <3>6. down[o] \in Seq(DownMsg)
      BY DEF TypeOK
    <3>7. Has(down'[o], Msg("start", x))
      BY <3>5, <3>6, HasAppend
    <3> QED BY <3>2, <3>7 DEF ShellInv
  <2> QED BY <2>4, <2>5
<1>5. ASSUME NEW s \in Sessions, CreateSendFails(s) PROVE ShellInv(o, x)'
  <2>1. Calm(o) /\ Untouched(x)
    BY <1>5
    DEF TypeOK, Calm, Untouched, dbVars, memVars, connVars, agentVars, reqVars, CreateSendFails
  <2> QED BY <2>1, <1>n, CalmIsStill, PairQuiet
<1>6. ASSUME NEW s \in Sessions, CreateMarkLost(s) PROVE ShellInv(o, x)'
  <2>1. Calm(o) /\ (s # x => Untouched(x))
    BY <1>6
    DEF TypeOK, Calm, Untouched, dbVars, memVars, connVars, agentVars, reqVars, CreateMarkLost
  <2>2. CASE s # x
    BY <2>1, <2>2, <1>n, CalmIsStill, PairQuiet
  <2>3. CASE s = x
    <3>1. creq[x] = "failed" /\ status'[x] = "lost"
      BY <1>6, <2>3 DEF CreateMarkLost, TypeOK
    <3> QED BY <2>1, <3>1, <1>n DEF NewInv, ShellInv, Calm, Holds, Active
  <2> QED BY <2>2, <2>3
<1>7. ASSUME NEW s \in Sessions, CloseMark(s) PROVE ShellInv(o, x)'
  <2>1. Calm(o) /\ (s # x => Untouched(x))
    BY <1>7 DEF TypeOK, Calm, Untouched, dbVars, memVars, connVars, agentVars, reqVars, CloseMark
  <2>2. CASE s # x
    BY <2>1, <2>2, <1>n, CalmIsStill, PairQuiet
  <2>3. CASE s = x
    <3>1. /\ status'[x] = "closed" /\ clreq'[x] = "sending"
          /\ UNCHANGED <<owner, creq>>
      BY <1>7, <2>3 DEF CloseMark, TypeOK
    <3>2. ShellInv(o, x)'
      BY <2>1, <3>1, <1>n DEF ShellInv, Calm, Owns
    <3> QED BY <3>2
  <2> QED BY <2>2, <2>3
<1>8. ASSUME NEW s \in Sessions, CloseSend(s) PROVE ShellInv(o, x)'
  <2>1. /\ pc'[o] = pc[o] /\ todo'[o] = todo[o] /\ cur'[o] = cur[o] /\ rd'[o] = rd[o]
        /\ ptys'[o] = ptys[o] /\ up'[o] = up[o] /\ (s # x => Untouched(x))
    BY <1>8 DEF TypeOK, Untouched, dbVars, connVars, CloseSend
  <2>2. Still(o, x)
    <3>1. ASSUME NEW m PROVE Has(down[o], m) => Has(down'[o], m)
      <4>1. CASE down' = down
        BY <4>1
      <4>2. CASE down' # down
        <5>1. SendOK(s) /\ down' = Push(down, Peer(s), "close", s)
          BY <1>8, <4>2 DEF CloseSend
        <5>2. \/ down'[o] = down[o]
              \/ down'[o] = Append(down[o], Msg("close", s)) /\ Msg("close", s) \in DownMsg
          BY <5>1, SendShape
        <5>3. down[o] \in Seq(DownMsg)
          BY DEF TypeOK
        <5>4. ASSUME Msg("close", s) \in DownMsg
              PROVE  Has(Append(down[o], Msg("close", s)), m) <=> Has(down[o], m) \/ Msg("close", s) = m
          BY <5>3, <5>4, HasAppend
        <5> QED BY <5>2, <5>4
      <4> QED BY <4>1, <4>2
    <3> QED BY <2>1, <3>1 DEF Still, Holds
  <2>4. CASE s # x
    BY <2>1, <2>2, <2>4, <1>n, PairQuiet
  <2>5. CASE s = x
    <3>1. owner'[x] = owner[x] /\ status'[x] = status[x] /\ creq'[x] = creq[x] /\ Owns(o, x)
      BY <1>8 DEF CloseSend, dbVars, Owns
    <3>3. ASSUME x \in ptys[o]
          PROVE  Has(down'[o], Msg("close", x))
      <4>1. Peer(x) = o
        BY <3>1, <3>3, <1>n, SoleIs DEF RouteInv
      <4>2. SendOK(x) /\ down' = Push(down, Peer(x), "close", x)
        BY <1>8, <2>5, <4>1, <1>n, ConnAssumption DEF CloseSend, SendFails
      <4>3. down'[o] = Append(down[o], Msg("close", x)) /\ Msg("close", x) \in DownMsg
        BY <4>1, <4>2, <1>n, SendShape
      <4>4. down[o] \in Seq(DownMsg)
        BY DEF TypeOK
      <4> QED BY <4>3, <4>4, HasAppend
    <3> QED BY <2>2, <3>1, <3>3, <1>n DEF ShellInv, Still, Owns
  <2> QED BY <2>4, <2>5
<1>9. ASSUME NEW s \in Sessions, WebSubscribe(s) PROVE ShellInv(o, x)'
  <2>1. Calm(o) /\ Untouched(x)
    BY <1>9 DEF TypeOK, Calm, Untouched, dbVars, memVars, connVars, agentVars, reqVars, WebSubscribe
  <2> QED BY <2>1, <1>n, CalmIsStill, PairQuiet
<1>10. ASSUME NEW c \in Conns, ServerHello(c) PROVE ShellInv(o, x)'
  <2>1. CASE c # o
    <3>1. Calm(o) /\ Untouched(x)
      BY <1>10, <2>1
      DEF TypeOK, Calm, Untouched, dbVars, memVars, connVars, agentVars, reqVars, ServerHello
    <3> QED BY <3>1, <1>n, CalmIsStill, PairQuiet
  <2>2. CASE c = o
    BY <1>10, <2>2, <1>n DEF ServerHello, Serving
  <2> QED BY <2>1, <2>2
<1>11. ASSUME NEW c \in Conns, ServerNoHello(c) PROVE ShellInv(o, x)'
  <2>1. CASE c # o
    <3>1. Calm(o) /\ Untouched(x)
      BY <1>11, <2>1
      DEF TypeOK, Calm, Untouched, dbVars, memVars, connVars, agentVars, reqVars, ServerNoHello
    <3> QED BY <3>1, <1>n, CalmIsStill, PairQuiet
  <2>2. CASE c = o
    BY <1>11, <2>2, <1>n DEF ServerNoHello, Serving
  <2> QED BY <2>1, <2>2
<1>12. ASSUME NEW c \in Conns, ServerAttach(c) PROVE ShellInv(o, x)'
  <2>1. CASE c # o
    <3>1. Calm(o) /\ Untouched(x)
      BY <1>12, <2>1
      DEF TypeOK, Calm, Untouched, dbVars, memVars, connVars, agentVars, reqVars, ServerAttach
    <3> QED BY <3>1, <1>n, CalmIsStill, PairQuiet
  <2>2. CASE c = o
    BY <1>12, <2>2, <1>n DEF ServerAttach, Serving
  <2> QED BY <2>1, <2>2
<1>13. ASSUME NEW c \in Conns, ServerSyncList(c) PROVE ShellInv(o, x)'
  <2>1. CASE c # o
    <3>1. Calm(o) /\ Untouched(x)
      BY <1>13, <2>1
      DEF TypeOK, Calm, Untouched, dbVars, memVars, connVars, agentVars, reqVars, ServerSyncList
    <3> QED BY <3>1, <1>n, CalmIsStill, PairQuiet
  <2>2. CASE c = o
    <3>1. /\ pc[o] = "list" /\ pc'[o] = "sync" /\ cur'[o] = cur[o] /\ ptys' = ptys /\ up' = up /\ down' = down
          /\ (x \in todo'[o] <=> owner[x] = ConnDevice[o] /\ status[x] \in Active) /\ UNCHANGED <<owner, status, creq, clreq>>
      BY <1>13, <2>2 DEF ServerSyncList, ActiveOf, TypeOK, dbVars, agentVars, reqVars
    <3>2. cur[o] = <<>>
      BY <3>1, <1>n DEF HandInv
    <3>3. ShellInv(o, x)'
      BY <3>1, <1>n DEF ShellInv, Owns
    <3> QED BY <3>3
  <2> QED BY <2>1, <2>2
<1>14. ASSUME NEW c \in Conns, NEW s \in Sessions, MarkListed(c, s) PROVE ShellInv(o, x)'
  <2>1. /\ s \in todo[c] /\ status' = [status EXCEPT ![s] = "lost"] /\ todo' = [todo EXCEPT ![c] = todo[c] \ {s}]
        /\ UNCHANGED <<owner, pc, cur, rd, ptys, up, down, creq, clreq>>
    BY <1>14 DEF MarkListed, agentVars, reqVars
  <2>2. Owns(o, x)
    BY <2>1 DEF Owns
  <2>3. CASE s # x
    <3>1. Still(o, x) /\ Untouched(x)
      BY <2>1, <2>3 DEF Still, Untouched, Holds, TypeOK
    <3> QED BY <3>1, <1>n, PairQuiet
  <2>4. CASE s = x
    <3>1. c = o
      BY <2>1, <2>2, <2>4, SoleIs
    <3>2. pc[o] = "sync" /\ status'[x] = "lost"
      BY <2>1, <2>4, <3>1, <1>n DEF HandInv, Serving, TypeOK
    <3>3. cur[o] = <<>>
      BY <3>2, <1>n DEF HandInv
    <3>4. ShellInv(o, x)'
      BY <2>1, <3>2, <1>n DEF ShellInv, Owns
    <3> QED BY <3>4
  <2> QED BY <2>3, <2>4
<1>15. ASSUME NEW c \in Conns, ServerSyncDone(c) PROVE ShellInv(o, x)'
  <2>1. CASE c # o
    <3>1. Calm(o) /\ Untouched(x)
      BY <1>15, <2>1
      DEF TypeOK, Calm, Untouched, dbVars, memVars, connVars, agentVars, reqVars, ServerSyncDone
    <3> QED BY <3>1, <1>n, CalmIsStill, PairQuiet
  <2>2. CASE c = o
    <3>1. /\ pc[o] = "sync" /\ pc'[o] = "read" /\ todo[o] = {} /\ UNCHANGED <<cur, ptys, up, down, owner, status, creq, clreq>>
      BY <1>15, <2>2 DEF ServerSyncDone, TypeOK, dbVars, agentVars, reqVars
    <3>2. cur[o] = <<>>
      BY <3>1, <1>n DEF HandInv
    <3>3. ShellInv(o, x)'
      BY <3>1, <1>n DEF ShellInv, Owns
    <3> QED BY <3>3
  <2> QED BY <2>1, <2>2
<1>16. ASSUME NEW c \in Conns, ServerSeesBreak(c) PROVE ShellInv(o, x)'
  <2>1. CASE c # o
    <3>1. Calm(o) /\ Untouched(x)
      BY <1>16, <2>1
      DEF TypeOK, Calm, Untouched, dbVars, memVars, connVars, agentVars, reqVars, ServerSeesBreak
    <3> QED BY <3>1, <1>n, CalmIsStill, PairQuiet
  <2>2. CASE c = o
    BY <1>16, <2>2, <1>n DEF ServerSeesBreak, Serving
  <2> QED BY <2>1, <2>2
<1>17. ASSUME NEW c \in Conns, CleanUpList(c) PROVE ShellInv(o, x)'
  <2>1. CASE c # o
    <3>1. Calm(o) /\ Untouched(x)
      BY <1>17, <2>1
      DEF TypeOK, Calm, Untouched, dbVars, memVars, connVars, agentVars, reqVars, CleanUpList
    <3> QED BY <3>1, <1>n, CalmIsStill, PairQuiet
  <2>2. CASE c = o
    BY <1>17, <2>2, <1>n DEF CleanUpList, Serving
  <2> QED BY <2>1, <2>2
<1>18. ASSUME NEW c \in Conns, CleanUpMarked(c) PROVE ShellInv(o, x)'
  <2>1. CASE c # o
    <3>1. Calm(o) /\ Untouched(x)
      BY <1>18, <2>1
      DEF TypeOK, Calm, Untouched, dbVars, memVars, connVars, agentVars, reqVars, CleanUpMarked
    <3> QED BY <3>1, <1>n, CalmIsStill, PairQuiet
  <2>2. CASE c = o
    BY <1>18, <2>2, <1>n DEF CleanUpMarked, Serving
  <2> QED BY <2>1, <2>2
<1>19. ASSUME NEW c \in Conns, CleanUpOffline(c) PROVE ShellInv(o, x)'
  <2>1. CASE c # o
    <3>1. Calm(o) /\ Untouched(x)
      BY <1>19, <2>1
      DEF TypeOK, Calm, Untouched, dbVars, memVars, connVars, agentVars, reqVars, CleanUpOffline
    <3> QED BY <3>1, <1>n, CalmIsStill, PairQuiet
  <2>2. CASE c = o
    BY <1>19, <2>2, <1>n DEF CleanUpOffline, Serving
  <2> QED BY <2>1, <2>2
<1>20. ASSUME NEW c \in Conns, CleanUpDetach(c) PROVE ShellInv(o, x)'
  <2>1. CASE c # o
    <3>1. Calm(o) /\ Untouched(x)
      BY <1>20, <2>1
      DEF TypeOK, Calm, Untouched, dbVars, memVars, connVars, agentVars, reqVars, CleanUpDetach
    <3> QED BY <3>1, <1>n, CalmIsStill, PairQuiet
  <2>2. CASE c = o
    BY <1>20, <2>2, <1>n DEF CleanUpDetach, Serving
  <2> QED BY <2>1, <2>2
<1>21. ASSUME NEW c \in Conns, ServerStarted(c) PROVE ShellInv(o, x)'
  <2>1. up[c] # <<>> /\ up[c] \in Seq(UpMsg) /\ up \in [Conns -> Seq(UpMsg)] /\ status \in [Sessions -> Status] /\ pc[c] = "read"
    BY <1>21 DEF ServerStarted, TypeOK
  <2> DEFINE h == Head(up[c])
  <2>2. h \in UpMsg /\ h = Msg(h.t, h.s) /\ h.t = "started" /\ h.s \in Sessions
    <3>1. h \in UpMsg
      BY <2>1, HeadElement
    <3>2. h.t = "started"
      BY <1>21 DEF ServerStarted
    <3> QED BY <3>1, <3>2, MsgIs DEF UpMsg
  <2>3. /\ status' = IF Owns(c, h.s) THEN [status EXCEPT ![h.s] = "running"] ELSE status
        /\ up' = [up EXCEPT ![c] = Tail(up[c])]
        /\ UNCHANGED <<owner, pc, todo, cur, rd, ptys, down, creq, clreq>>
    BY <1>21 DEF ServerStarted, connVars, reqVars
  <2>4. Owns(o, x)
    BY <2>3 DEF Owns
  <2>5. CASE c # o
    <3>1. Owns(c, h.s) => h.s # x
      BY <2>1, <2>4, <2>5, SoleIs
    <3> HIDE DEF h
    <3>2. Calm(o) /\ Untouched(x)
      BY <2>1, <2>3, <2>5, <3>1 DEF Calm, Untouched
    <3> QED BY <3>2, <1>n, CalmIsStill, PairQuiet
  <2>6. CASE c = o
    <3>1. \A m : Has(up[o], m) <=> h = m \/ Has(up'[o], m)
      BY <2>1, <2>3, <2>6, HasTail
    <3>2. ExitLast(up[o], x) <=> ExitLast(up'[o], x)
      <4>1. h # Msg("exit", x)
        BY <2>2 DEF Msg
      <4>2. up'[o] = Tail(up[o])
        BY <2>1, <2>3, <2>6
      <4>3. ExitLast(up[o], x) <=>
                \/ ExitLast(Tail(up[o]), x)
                \/ h = Msg("exit", x) /\ ~Has(Tail(up[o]), Msg("started", x))
        BY <2>1, <2>6, ExitTail
      <4> QED BY <4>1, <4>2, <4>3
    <3> HIDE DEF h
    <3>3. CASE h.s # x
      <4>1. h # Msg("started", x)
        BY <2>2, <3>3 DEF Msg
      <4>2. Still(o, x)
        BY <2>3, <3>1, <3>2, <4>1 DEF Still, Holds
      <4>3. Untouched(x)
        BY <2>1, <2>3, <3>3 DEF Untouched
      <4> QED BY <4>2, <4>3, <1>n, PairQuiet
    <3>4. CASE h.s = x
      <4>1. h = Msg("started", x)
        BY <2>2, <3>4
      <4>2. status'[x] = "running" /\ pc[o] = "read" /\ cur[o] = <<>>
        BY <2>1, <2>3, <2>4, <2>6, <3>4, <1>n DEF HandInv
      <4>3. ShellInv(o, x)'
        BY <2>3, <2>4, <3>2, <4>2, <1>n DEF ShellInv, Holds
      <4> QED BY <4>3
    <3> QED BY <3>3, <3>4
  <2> QED BY <2>5, <2>6
<1>22. ASSUME NEW c \in Conns, ServerReadStatus(c) PROVE ShellInv(o, x)'
  <2>1. up[c] # <<>> /\ up[c] \in Seq(UpMsg) /\ up \in [Conns -> Seq(UpMsg)] /\ pc[c] = "read"
        /\ pc \in [Conns -> PCs] /\ cur \in [Conns -> {<<>>} \union {<<y>> : y \in UpMsg}] /\ rd \in [Conns -> Status]
    BY <1>22 DEF ServerReadStatus, TypeOK
  <2> DEFINE h == Head(up[c])
  <2>2. h = Msg(h.t, h.s) /\ h.t \in {"stdout", "exit"}
    <3>1. h \in UpMsg
      BY <2>1, HeadElement
    <3>2. h.t \in {"stdout", "exit"}
      BY <1>22 DEF ServerReadStatus
    <3> QED BY <3>1, <3>2, MsgIs
  <2>3. /\ up' = [up EXCEPT ![c] = Tail(up[c])]
        /\ UNCHANGED <<status, owner, todo, ptys, down, creq, clreq>>
        /\ IF Owns(c, h.s)
           THEN /\ pc' = [pc EXCEPT ![c] = "write"] /\ cur' = [cur EXCEPT ![c] = <<h>>]
                /\ rd' = [rd EXCEPT ![c] = status[h.s]]
           ELSE UNCHANGED <<pc, cur, rd>>
    BY <1>22 DEF ServerReadStatus, dbVars, reqVars
  <2>4. Owns(o, x)
    BY <2>3 DEF Owns
  <2>5. Untouched(x)
    BY <2>3 DEF Untouched
  <2>6. CASE c # o
    <3> HIDE DEF h
    <3>1. Calm(o)
      BY <2>1, <2>3, <2>6 DEF Calm
    <3> QED BY <2>5, <3>1, <1>n, CalmIsStill, PairQuiet
  <2>7. CASE c = o
    <3>1. \A m : Has(up[o], m) <=> h = m \/ Has(up'[o], m)
      BY <2>1, <2>3, <2>7, HasTail
    <3>2. ExitLast(up[o], x) <=>
              \/ ExitLast(up'[o], x)
              \/ h = Msg("exit", x) /\ ~Has(up'[o], Msg("started", x))
      <4>1. up'[o] = Tail(up[o])
        BY <2>1, <2>3, <2>7
      <4>2. ExitLast(up[o], x) <=>
                \/ ExitLast(Tail(up[o]), x)
                \/ h = Msg("exit", x) /\ ~Has(Tail(up[o]), Msg("started", x))
        BY <2>1, <2>7, ExitTail
      <4> QED BY <4>1, <4>2
    <3>3. h # Msg("started", x)
      BY <2>2 DEF Msg
    <3>4. cur[o] = <<>> /\ todo[o] = {} /\ pc[o] = "read"
      BY <2>1, <2>7, <1>n DEF HandInv
    <3> HIDE DEF h
    <3>5. CASE h.s # x
      <4>1. h # Msg("exit", x) /\ h # Msg("stdout", x)
        BY <2>2, <3>5 DEF Msg
      <4>2. pc'[o] \in {"read", "write"} /\ cur'[o] \in {<<>>, <<h>>}
        BY <2>1, <2>3, <2>7, <3>4
      <4>3. /\ ~Holds(o, Msg("exit", x)) /\ ~Holds(o, Msg("exit", x))'
            /\ ~Holds(o, Msg("stdout", x))'
        <5>1. \A m : <<m>> # <<>> /\ (<<h>> = <<m>> => h = m)
          OBVIOUS
        <5> QED BY <3>4, <4>1, <4>2, <5>1 DEF Holds
      <4>4. Still(o, x)
        BY <2>3, <3>1, <3>2, <3>3, <3>4, <4>1, <4>2, <4>3 DEF Still
      <4> QED BY <2>5, <4>4, <1>n, PairQuiet
    <3>6. CASE h.s = x
      <4>1. pc'[o] = "write" /\ cur'[o] = <<h>> /\ rd'[o] = status[x]
        BY <2>1, <2>3, <2>4, <2>7, <3>6
      <4>2. CASE h.t = "exit"
        <5>1. h = Msg("exit", x) /\ h # Msg("stdout", x)
          BY <2>2, <3>6, <4>2 DEF Msg
        <5>2. Holds(o, Msg("exit", x))'
          BY <4>1, <5>1 DEF Holds
        <5>3. ShellInv(o, x)'
          BY <2>3, <2>4, <3>1, <3>2, <5>1, <1>n DEF ShellInv, Owns
        <5> QED BY <5>3
      <4>3. CASE h.t = "stdout"
        <5>1. h = Msg("stdout", x) /\ h # Msg("exit", x)
          BY <2>2, <3>6, <4>3 DEF Msg
        <5>2. ~Holds(o, Msg("exit", x))' /\ ~Holds(o, Msg("exit", x))
          BY <3>4, <4>1, <5>1 DEF Holds
        <5>3. ShellInv(o, x)'
          BY <2>3, <2>4, <3>1, <3>2, <3>3, <4>1, <5>1, <5>2, <1>n DEF ShellInv, Owns
        <5> QED BY <5>3
      <4> QED BY <2>2, <4>2, <4>3
    <3> QED BY <3>5, <3>6
  <2> QED BY <2>6, <2>7
<1>23. ASSUME NEW c \in Conns, ServerWriteStatus(c) PROVE ShellInv(o, x)'
  <2>1. /\ pc[c] = "write" /\ pc \in [Conns -> PCs] /\ cur[c] \in {<<>>} \union {<<y>> : y \in UpMsg}
        /\ cur \in [Conns -> {<<>>} \union {<<y>> : y \in UpMsg}] /\ rd \in [Conns -> Status] /\ status \in [Sessions -> Status]
    BY <1>23 DEF ServerWriteStatus, TypeOK
  <2>2. cur[c] # <<>> /\ cur[c][1].t \in {"stdout", "exit"}
    BY <2>1 DEF LinksInv, HandInv
  <2>3. PICK m \in UpMsg : cur[c] = <<m>>
    BY <2>1, <2>2
  <2>4. m = Msg(m.t, m.s) /\ m.t \in {"stdout", "exit"} /\ m.s \in Sessions
    BY <2>2, <2>3, MsgIs DEF UpMsg
  <2>5. /\ status' = [status EXCEPT ![m.s] = IF m.t = "stdout" THEN AfterStdout(rd[c]) ELSE AfterExit(rd[c])]
        /\ pc' = [pc EXCEPT ![c] = "read"] /\ cur' = [cur EXCEPT ![c] = <<>>] /\ rd' = [rd EXCEPT ![c] = "none"]
        /\ UNCHANGED <<owner, todo, ptys, up, down, creq, clreq>>
    BY <1>23, <2>3 DEF ServerWriteStatus, agentVars, reqVars
  <2>6. Owns(o, x)
    BY <2>5 DEF Owns
  <2>7. CASE c # o
    <3>1. m.s # x
      BY <2>2, <2>3, <2>6, <2>7, SoleIs
    <3>2. Calm(o) /\ Untouched(x)
      BY <2>1, <2>5, <2>7, <3>1 DEF Calm, Untouched
    <3> QED BY <3>2, <1>n, CalmIsStill, PairQuiet
  <2>8. CASE c = o
    <3>1. pc'[o] = "read" /\ cur'[o] = <<>> /\ todo[o] = {} /\ pc[o] = "write" /\ cur[o] = <<m>>
      BY <2>1, <2>3, <2>5, <2>8, <1>n DEF HandInv
    <3>2. \A n : (Holds(o, n) <=> n = m) /\ ~Holds(o, n)'
      BY <3>1 DEF Holds
    <3>3. CASE m.s # x
      <4>1. m # Msg("exit", x) /\ m # Msg("stdout", x)
        BY <2>4, <3>3 DEF Msg
      <4>2. Still(o, x) /\ Untouched(x)
        BY <2>1, <2>5, <3>1, <3>2, <3>3, <4>1 DEF Still, Untouched
      <4> QED BY <4>2, <1>n, PairQuiet
    <3>4. CASE m.s = x /\ m.t = "exit"
      <4>1. m = Msg("exit", x)
        BY <2>4, <3>4
      <4>2. status'[x] \notin Active
        BY <2>1, <2>5, <3>4 DEF AfterExit, Active
      <4>3. ShellInv(o, x)'
        BY <2>5, <2>6, <3>1, <3>2, <4>1, <1>n DEF ShellInv, Owns
      <4> QED BY <4>3
    <3>5. CASE m.s = x /\ m.t = "stdout"
      <4>1. m = Msg("stdout", x) /\ m # Msg("exit", x)
        BY <2>4, <3>5 DEF Msg
      <4>2. status'[x] = AfterStdout(rd[o])
        BY <2>1, <2>5, <2>8, <3>5
      <4>3. (rd[o] = "running" => status'[x] = "running") /\ (rd[o] \notin Active => status'[x] \notin Active)
        BY <4>2 DEF AfterStdout, Active
      <4>4. ShellInv(o, x)'
        BY <2>5, <2>6, <3>1, <3>2, <4>1, <4>3, <1>n DEF ShellInv, Owns
      <4> QED BY <4>4
    <3> QED BY <2>4, <3>3, <3>4, <3>5
  <2> QED BY <2>7, <2>8
<1>24. ASSUME NEW c \in Conns, AgentConnect(c) PROVE ShellInv(o, x)'
  <2>1. CASE c # o
    <3>1. Calm(o) /\ Untouched(x)
      BY <1>24, <2>1
      DEF TypeOK, Calm, Untouched, dbVars, memVars, connVars, agentVars, reqVars, AgentConnect
    <3> QED BY <3>1, <1>n, CalmIsStill, PairQuiet
  <2>2. CASE c = o
    BY <1>24, <2>2, <1>n DEF AgentConnect, Serving
  <2> QED BY <2>1, <2>2
<1>25. ASSUME NEW c \in Conns, AgentStart(c) PROVE ShellInv(o, x)'
  <2>1. /\ UNCHANGED <<status, owner, pc, todo, cur, rd, creq, clreq>>
        /\ up[o] \in Seq(UpMsg) /\ ptys \in [Conns -> SUBSET Sessions] /\ down \in [Conns -> Seq(DownMsg)]
    BY <1>25 DEF AgentStart, TypeOK, dbVars, connVars, reqVars
  <2> DEFINE h == Head(down[c])
  <2>2. down[c] # <<>> /\ down[c] \in Seq(DownMsg) /\ h.t = "start" /\ down' = [down EXCEPT ![c] = Tail(down[c])]
        /\ up' = Push(up, c, "started", h.s) /\ ptys' = [ptys EXCEPT ![c] = ptys[c] \union {h.s}]
    BY <1>25 DEF AgentStart, TypeOK
  <2>3. h = Msg("start", h.s) /\ h.s \in Sessions /\ Msg("started", h.s) \in UpMsg
    <3>1. h \in DownMsg
      BY <2>2, HeadElement
    <3> QED BY <2>2, <3>1, MsgIs DEF DownMsg, UpMsg, Msg
  <2>4. c = o => \A m : Has(down[o], m) <=> h = m \/ Has(down'[o], m)
    BY <2>1, <2>2, HasTail
  <2> HIDE DEF h
  <2>5. up'[o] = IF c = o THEN Append(up[o], Msg("started", h.s)) ELSE up[o]
    BY <2>2, <1>n, PushIs
  <2>6. Untouched(x)
    BY <2>1 DEF Untouched
  <2>7. CASE c # o
    <3>1. Calm(o)
      BY <2>1, <2>2, <2>5, <2>7 DEF Calm
    <3> QED BY <2>6, <3>1, <1>n, CalmIsStill, PairQuiet
  <2>8. CASE c = o
    <3>1. Has(up'[o], Msg("started", x)) <=> Has(up[o], Msg("started", x)) \/ Msg("started", h.s) = Msg("started", x)
      BY <2>1, <2>3, <2>5, <2>8, HasAppend
    <3>2. ExitLast(up'[o], x) <=>
              \/ Msg("started", h.s) = Msg("exit", x)
              \/ ExitLast(up[o], x) /\ Msg("started", h.s) # Msg("started", x)
      BY <2>1, <2>3, <2>5, <2>8, ExitAppend
    <3>3. CASE h.s # x
      <4>1. Msg("started", h.s) # Msg("started", x) /\ Msg("started", h.s) # Msg("exit", x)
        BY <3>3 DEF Msg
      <4>2. h # Msg("start", x) /\ h # Msg("close", x)
        BY <2>3, <3>3 DEF Msg
      <4>3. x \in ptys'[o] <=> x \in ptys[o]
        BY <2>1, <2>2, <2>8, <3>3
      <4>4. Still(o, x)
        BY <2>1, <2>2, <3>1, <3>2, <4>1, <4>3, <4>2, <2>4, <2>8 DEF Still, Holds
      <4> QED BY <2>6, <4>4, <1>n, PairQuiet
    <3>4. CASE h.s = x
      <4>1. x \in ptys'[o]
        BY <2>1, <2>2, <2>8, <3>4
      <4>2. Msg("started", x) # Msg("exit", x)
        BY DEF Msg
      <4> QED BY <3>1, <3>2, <3>4, <4>1, <4>2 DEF ShellInv
    <3> QED BY <3>3, <3>4
  <2> QED BY <2>7, <2>8
<1>26. ASSUME NEW c \in Conns, AgentClose(c) PROVE ShellInv(o, x)'
  <2>1. /\ UNCHANGED <<status, owner, pc, todo, cur, rd, creq, clreq>>
        /\ up[o] \in Seq(UpMsg) /\ ptys \in [Conns -> SUBSET Sessions] /\ down \in [Conns -> Seq(DownMsg)]
    BY <1>26 DEF AgentClose, TypeOK, dbVars, connVars, reqVars
  <2> DEFINE h == Head(down[c])
  <2>2. down[c] # <<>> /\ down[c] \in Seq(DownMsg) /\ h.t = "close" /\ down' = [down EXCEPT ![c] = Tail(down[c])]
        /\ up' = Push(up, c, "exit", h.s) /\ ptys' = [ptys EXCEPT ![c] = ptys[c] \ {h.s}]
    BY <1>26 DEF AgentClose, TypeOK
  <2>3. h = Msg("close", h.s) /\ h.s \in Sessions /\ Msg("exit", h.s) \in UpMsg
    <3>1. h \in DownMsg
      BY <2>2, HeadElement
    <3> QED BY <2>2, <3>1, MsgIs DEF DownMsg, UpMsg, Msg
  <2>4. c = o => \A m : Has(down[o], m) <=> h = m \/ Has(down'[o], m)
    BY <2>1, <2>2, HasTail
  <2> HIDE DEF h
  <2>5. up'[o] = IF c = o THEN Append(up[o], Msg("exit", h.s)) ELSE up[o]
    BY <2>2, <1>n, PushIs
  <2>6. Untouched(x)
    BY <2>1 DEF Untouched
  <2>7. CASE c # o
    <3>1. Calm(o)
      BY <2>1, <2>2, <2>5, <2>7 DEF Calm
    <3> QED BY <2>6, <3>1, <1>n, CalmIsStill, PairQuiet
  <2>8. CASE c = o
    <3>1. Has(up'[o], Msg("started", x)) <=> Has(up[o], Msg("started", x)) \/ Msg("exit", h.s) = Msg("started", x)
      BY <2>1, <2>3, <2>5, <2>8, HasAppend
    <3>2. ExitLast(up'[o], x) <=>
              \/ Msg("exit", h.s) = Msg("exit", x)
              \/ ExitLast(up[o], x) /\ Msg("exit", h.s) # Msg("started", x)
      BY <2>1, <2>3, <2>5, <2>8, ExitAppend
    <3>3. CASE h.s # x
      <4>1. Msg("exit", h.s) # Msg("started", x) /\ Msg("exit", h.s) # Msg("exit", x)
        BY <3>3 DEF Msg
      <4>2. h # Msg("start", x) /\ h # Msg("close", x)
        BY <2>3, <3>3 DEF Msg
      <4>3. x \in ptys'[o] <=> x \in ptys[o]
        BY <2>1, <2>2, <2>8, <3>3
      <4>4. Still(o, x)
        BY <2>1, <2>2, <3>1, <3>2, <4>1, <4>3, <4>2, <2>4, <2>8 DEF Still, Holds
      <4> QED BY <2>6, <4>4, <1>n, PairQuiet
    <3>4. CASE h.s = x
      <4>1. x \notin ptys'[o]
        BY <2>1, <2>2, <2>8, <3>4
      <4> QED BY <3>2, <3>4, <4>1 DEF ShellInv
    <3> QED BY <3>3, <3>4
  <2> QED BY <2>7, <2>8
<1>27. ASSUME NEW c \in Conns, NEW s \in Sessions, AgentOutput(c, s) PROVE ShellInv(o, x)'
  <2>1. /\ UNCHANGED <<status, owner, pc, todo, cur, rd, creq, clreq>>
        /\ up[o] \in Seq(UpMsg) /\ ptys \in [Conns -> SUBSET Sessions] /\ down \in [Conns -> Seq(DownMsg)]
    BY <1>27 DEF AgentOutput, TypeOK, dbVars, connVars, reqVars
  <2>2. up' = Push(up, c, "stdout", s) /\ down' = down
        /\ ptys' = ptys
    BY <1>27 DEF AgentOutput
  <2>3. Msg("stdout", s) \in UpMsg
    BY DEF UpMsg, Msg
  <2>5. up'[o] = IF c = o THEN Append(up[o], Msg("stdout", s)) ELSE up[o]
    BY <2>2, <1>n, PushIs
  <2>6. Untouched(x)
    BY <2>1 DEF Untouched
  <2>7. CASE c # o
    <3>1. Calm(o)
      BY <2>1, <2>2, <2>5, <2>7 DEF Calm
    <3> QED BY <2>6, <3>1, <1>n, CalmIsStill, PairQuiet
  <2>8. CASE c = o
    <3>1. Has(up'[o], Msg("started", x)) <=> Has(up[o], Msg("started", x)) \/ Msg("stdout", s) = Msg("started", x)
      BY <2>1, <2>3, <2>5, <2>8, HasAppend
    <3>2. ExitLast(up'[o], x) <=>
              \/ Msg("stdout", s) = Msg("exit", x)
              \/ ExitLast(up[o], x) /\ Msg("stdout", s) # Msg("started", x)
      BY <2>1, <2>3, <2>5, <2>8, ExitAppend
    <3>3. Msg("stdout", s) # Msg("started", x) /\ Msg("stdout", s) # Msg("exit", x)
      BY DEF Msg
    <3>4. Still(o, x)
      BY <2>1, <2>2, <3>1, <3>2, <3>3 DEF Still, Holds
    <3> QED BY <2>6, <3>4, <1>n, PairQuiet
  <2> QED BY <2>7, <2>8
<1>28. ASSUME NEW c \in Conns, NEW s \in Sessions, AgentShellExit(c, s) PROVE ShellInv(o, x)'
  <2>1. /\ UNCHANGED <<status, owner, pc, todo, cur, rd, creq, clreq>>
        /\ up[o] \in Seq(UpMsg) /\ ptys \in [Conns -> SUBSET Sessions] /\ down \in [Conns -> Seq(DownMsg)]
    BY <1>28 DEF AgentShellExit, TypeOK, dbVars, connVars, reqVars
  <2>2. up' = Push(up, c, "exit", s) /\ down' = down
        /\ ptys' = [ptys EXCEPT ![c] = ptys[c] \ {s}]
    BY <1>28 DEF AgentShellExit
  <2>3. Msg("exit", s) \in UpMsg
    BY DEF UpMsg, Msg
  <2>5. up'[o] = IF c = o THEN Append(up[o], Msg("exit", s)) ELSE up[o]
    BY <2>2, <1>n, PushIs
  <2>6. Untouched(x)
    BY <2>1 DEF Untouched
  <2>7. CASE c # o
    <3>1. Calm(o)
      BY <2>1, <2>2, <2>5, <2>7 DEF Calm
    <3> QED BY <2>6, <3>1, <1>n, CalmIsStill, PairQuiet
  <2>8. CASE c = o
    <3>1. Has(up'[o], Msg("started", x)) <=> Has(up[o], Msg("started", x)) \/ Msg("exit", s) = Msg("started", x)
      BY <2>1, <2>3, <2>5, <2>8, HasAppend
    <3>2. ExitLast(up'[o], x) <=>
              \/ Msg("exit", s) = Msg("exit", x)
              \/ ExitLast(up[o], x) /\ Msg("exit", s) # Msg("started", x)
      BY <2>1, <2>3, <2>5, <2>8, ExitAppend
    <3>3. CASE s # x
      <4>1. Msg("exit", s) # Msg("started", x) /\ Msg("exit", s) # Msg("exit", x)
        BY <3>3 DEF Msg
      <4>3. x \in ptys'[o] <=> x \in ptys[o]
        BY <2>1, <2>2, <2>8, <3>3
      <4>4. Still(o, x)
        BY <2>1, <2>2, <3>1, <3>2, <4>1, <4>3 DEF Still, Holds
      <4> QED BY <2>6, <4>4, <1>n, PairQuiet
    <3>4. CASE s = x
      <4>1. x \notin ptys'[o]
        BY <2>1, <2>2, <2>8, <3>4
      <4> QED BY <3>2, <3>4, <4>1 DEF ShellInv
    <3> QED BY <3>3, <3>4
  <2> QED BY <2>7, <2>8
<1>29. ASSUME NEW c \in Conns, AgentEnds(c) PROVE ShellInv(o, x)'
  <2>1. CASE c # o
    <3>1. Calm(o) /\ Untouched(x)
      BY <1>29, <2>1
      DEF TypeOK, Calm, Untouched, dbVars, memVars, connVars, agentVars, reqVars, AgentEnds
    <3> QED BY <3>1, <1>n, CalmIsStill, PairQuiet
  <2>2. CASE c = o
    BY <1>29, <2>2, <1>n DEF AgentEnds, Sole, TypeOK
  <2> QED BY <2>1, <2>2
<1>30. ASSUME NEW c \in Conns, LinkBreaks(c) PROVE ShellInv(o, x)'
  <2>1. CASE c # o
    <3>1. Calm(o) /\ Untouched(x)
      BY <1>30, <2>1
      DEF TypeOK, Calm, Untouched, dbVars, memVars, connVars, agentVars, reqVars, LinkBreaks
    <3> QED BY <3>1, <1>n, CalmIsStill, PairQuiet
  <2>2. CASE c = o
    BY <1>30, <2>2, <1>n DEF LinkBreaks, Sole, TypeOK
  <2> QED BY <2>1, <2>2
<1>31. ASSUME ServerRestart PROVE ShellInv(o, x)'
  BY <1>31 DEF ServerRestart, Sole
<1>32. CASE UNCHANGED vars
  <2>1. Calm(o) /\ Untouched(x)
    BY <1>32 DEF vars, Calm, Untouched, dbVars, memVars, connVars, agentVars, reqVars
  <2> QED BY <2>1, <1>n, CalmIsStill, PairQuiet
<1> QED
  BY <1>1, <1>2, <1>3, <1>4, <1>5, <1>6, <1>7, <1>8, <1>9, <1>10, <1>11, <1>12, <1>13, <1>14,
      <1>15, <1>16, <1>17, <1>18, <1>19, <1>20, <1>21, <1>22, <1>23, <1>24, <1>25, <1>26,
      <1>27, <1>28, <1>29, <1>30, <1>31, <1>32, MarksOne
  DEF Next, User, Requests, Connections, Faults, CreateRequest, Handler,
      Handshake, Synchronise, Receive, Disconnect,
      AgentLoop, AgentShells, AgentCrash, AgentSeesBreak

\* A connection that attaches has no shells.
LEMMA AttachShells ==
    ASSUME TypeOK, LinksInv, NEW o \in Conns, NEW x \in Sessions, ServerAttach(o), Sole(o)'
    PROVE  ShellInv(o, x)'
<1>1. /\ pc[o] = "attach" /\ link[o] = "up" /\ UNCHANGED <<ptys, up, down>>
  BY DEF ServerAttach, Sole, TypeOK, agentVars
<1>2. ptys'[o] = {}
  BY <1>1 DEF LinksInv, LinkInv
<1> QED BY <1>1, <1>2 DEF ShellInv

-----------------------------------------------------------------------------
(* What a step does to one part of the state *)

lifeVars == <<status, owner, ptys, begun, up, down, cur, rd, creq, target>>

\* The steps that the life of a session can notice.
LEMMA LifeSteps ==
    ASSUME TypeOK, [Next]_vars
    PROVE  \/ \E s \in Sessions : \/ \E d \in Devices : CreateCheck(s, d)
                                  \/ CreateInsert(s) \/ CreateBind(s) \/ CreateSend(s)
                                  \/ CreateSendFails(s) \/ CreateMarkLost(s)
                                  \/ CloseMark(s) \/ CloseSend(s)
           \/ \E c \in Conns, s \in Sessions :
                  MarkListed(c, s) \/ AgentOutput(c, s) \/ AgentShellExit(c, s)
           \/ \E c \in Conns : \/ ServerStarted(c) \/ ServerReadStatus(c)
                               \/ ServerWriteStatus(c) \/ AgentConnect(c)
                               \/ AgentStart(c) \/ AgentClose(c) \/ AgentEnds(c)
                               \/ ServerSeesBreak(c)
           \/ ServerRestart
           \/ UNCHANGED lifeVars /\ \A c \in Conns : link'[c] = "up" => link[c] = "up"
<1> USE DEF lifeVars, dbVars, memVars, connVars, agentVars, reqVars
<1> DEFINE NotSeen == UNCHANGED lifeVars /\ \A c \in Conns : link'[c] = "up" => link[c] = "up"
<1>1. ASSUME NEW s \in Sessions, WebSubscribe(s) PROVE NotSeen
  BY <1>1 DEF WebSubscribe
<1>2. ASSUME NEW c \in Conns, Handshake(c) \/ ServerSyncList(c) \/ ServerSyncDone(c)
      PROVE  NotSeen
  BY <1>2 DEF Handshake, ServerHello, ServerNoHello, ServerAttach, ServerSyncList, ServerSyncDone
<1>3. ASSUME NEW c \in Conns,
             \/ CleanUpList(c) \/ CleanUpMarked(c) \/ CleanUpOffline(c) \/ CleanUpDetach(c)
             \/ LinkBreaks(c)
      PROVE  NotSeen
  BY <1>3 DEF CleanUpList, CleanUpMarked, CleanUpOffline, CleanUpDetach, LinkBreaks, TypeOK
<1>4. CASE UNCHANGED vars
  BY <1>4 DEF vars
<1> HIDE DEF NotSeen, lifeVars, dbVars, memVars, connVars, agentVars, reqVars
<1>5. CASE User
  BY <1>5, <1>1 DEF User, NotSeen
<1>6. CASE Requests
  BY <1>6 DEF Requests, CreateRequest
<1>7. CASE Connections
  <2>1. PICK c \in Conns : Handler(c) \/ AgentConnect(c) \/ AgentLoop(c) \/ AgentShells(c)
    BY <1>7 DEF Connections
  <2>2. CASE Handler(c)
    BY <2>2, <1>2, <1>3, MarksOne DEF Handler, Synchronise, Receive, Disconnect, NotSeen
  <2>3. CASE AgentConnect(c)
    BY <2>3
  <2>4. CASE AgentLoop(c)
    BY <2>4 DEF AgentLoop, AgentSeesBreak
  <2>5. CASE AgentShells(c)
    BY <2>5 DEF AgentShells
  <2> QED BY <2>1, <2>2, <2>3, <2>4, <2>5
<1>8. CASE Faults
  BY <1>8, <1>3 DEF Faults, AgentCrash, NotSeen
<1> QED BY <1>4, <1>5, <1>6, <1>7, <1>8 DEF Next, NotSeen

\* Requests: one that is over stays over, a new one names a device, and only the
\* insert takes it past its insert.
LEMMA ReqStep ==
    ASSUME TypeOK, TypeOK', [Next]_vars, NEW s \in Sessions
    PROVE  /\ creq[s] = "done" => creq'[s] = "done"
           /\ creq'[s] = "checked" => (creq[s] = "checked" /\ target'[s] = target[s])
                                      \/ target'[s] \in Devices
           /\ creq'[s] \notin {"idle", "checked"} => creq[s] \notin {"idle", "checked"} \/ CreateInsert(s)
<1> USE DEF TypeOK, dbVars, memVars, connVars, agentVars, reqVars
<1>1. ASSUME NEW x \in Sessions, NEW d \in Devices, CreateCheck(x, d)
      PROVE  /\ creq[s] = "done" => creq'[s] = "done"
             /\ creq'[s] = "checked" => (creq[s] = "checked" /\ target'[s] = target[s])
                                        \/ target'[s] \in Devices
             /\ creq'[s] \notin {"idle", "checked"} => creq[s] \notin {"idle", "checked"}
  BY <1>1 DEF CreateCheck
<1>2. ASSUME NEW x \in Sessions, CreateInsert(x)
      PROVE  /\ creq[s] = "done" => creq'[s] = "done"
             /\ creq'[s] = "checked" => (creq[s] = "checked" /\ target'[s] = target[s])
             /\ creq'[s] \notin {"idle", "checked"} => creq[s] \notin {"idle", "checked"} \/ x = s
  BY <1>2 DEF CreateInsert
<1>3. ASSUME NEW x \in Sessions,
             CreateBind(x) \/ CreateSend(x) \/ CreateSendFails(x) \/ CreateMarkLost(x)
      PROVE  /\ creq[s] = "done" => creq'[s] = "done"
             /\ creq'[s] = "checked" => (creq[s] = "checked" /\ target'[s] = target[s])
             /\ creq'[s] \notin {"idle", "checked"} => creq[s] \notin {"idle", "checked"}
  BY <1>3 DEF CreateBind, CreateSend, CreateSendFails, CreateMarkLost
<1>4. ASSUME ServerRestart
      PROVE  /\ creq[s] = "done" => creq'[s] = "done"
             /\ creq'[s] # "checked"
             /\ creq'[s] \notin {"idle", "checked"} => creq[s] \notin {"idle", "checked"}
  BY <1>4 DEF ServerRestart
<1>5. ASSUME NEW x \in Sessions, CloseMark(x) \/ CloseSend(x)
      PROVE  UNCHANGED <<creq, target>>
  BY <1>5 DEF CloseMark, CloseSend
<1>6. ASSUME NEW c \in Conns, NEW x \in Sessions,
             MarkListed(c, x) \/ AgentOutput(c, x) \/ AgentShellExit(c, x)
      PROVE  UNCHANGED <<creq, target>>
  BY <1>6 DEF MarkListed, AgentOutput, AgentShellExit
<1>7. ASSUME NEW c \in Conns,
             \/ ServerStarted(c) \/ ServerReadStatus(c) \/ ServerWriteStatus(c)
             \/ AgentConnect(c) \/ AgentStart(c) \/ AgentClose(c) \/ AgentEnds(c)
             \/ ServerSeesBreak(c)
      PROVE  UNCHANGED <<creq, target>>
  BY <1>7 DEF ServerStarted, ServerReadStatus, ServerWriteStatus, AgentConnect, AgentStart,
              AgentClose, AgentEnds, ServerSeesBreak
<1>8. CASE UNCHANGED lifeVars
  BY <1>8 DEF lifeVars
<1> HIDE DEF TypeOK, dbVars, memVars, connVars, agentVars, reqVars
<1> QED BY <1>1, <1>2, <1>3, <1>4, <1>5, <1>6, <1>7, <1>8, LifeSteps

\* What a step does to the messages for an agent.
LEMMA DownStep ==
    ASSUME TypeOK, [Next]_vars, NEW c \in Conns
    PROVE  \/ down'[c] = down[c] \/ down'[c] = <<>>
           \/ down[c] # <<>> /\ down'[c] = Tail(down[c])
           \/ \E s \in Sessions :
                  \/ down'[c] = Append(down[c], Msg("close", s))
                  \/ CreateSend(s) /\ c = Peer(s) /\ down'[c] = Append(down[c], Msg("start", s))
<1> USE DEF dbVars, memVars, connVars, agentVars, reqVars
<1>1. ASSUME NEW s \in Sessions, CreateSend(s)
      PROVE  down'[c] = down[c] \/ (c = Peer(s) /\ down'[c] = Append(down[c], Msg("start", s)))
  <2>1. SendOK(s) /\ down' = Push(down, Peer(s), "start", s)
    BY <1>1 DEF CreateSend
  <2>2. Peer(s) \in Conns
    BY <2>1 DEF SendOK, Peer, TypeOK
  <2>3. down'[c] = IF link[Peer(s)] = "up" /\ c = Peer(s) THEN Append(down[c], Msg("start", s))
                                                        ELSE down[c]
    BY <2>1, <2>2, PushIs
  <2> QED BY <2>3
<1>2. ASSUME NEW s \in Sessions, CloseSend(s)
      PROVE  down'[c] = down[c] \/ down'[c] = Append(down[c], Msg("close", s))
  <2>1. down' = down \/ (SendOK(s) /\ down' = Push(down, Peer(s), "close", s))
    BY <1>2 DEF CloseSend
  <2>2. SendOK(s) => Peer(s) \in Conns
    BY DEF SendOK, Peer, TypeOK
  <2>3. SendOK(s) /\ down' = Push(down, Peer(s), "close", s) =>
            down'[c] = IF link[Peer(s)] = "up" /\ c = Peer(s) THEN Append(down[c], Msg("close", s))
                                                            ELSE down[c]
    BY <2>2, PushIs
  <2> QED BY <2>1, <2>3
<1>3. ASSUME NEW o \in Conns, AgentConnect(o) \/ AgentEnds(o)
      PROVE  down'[c] = down[c] \/ down'[c] = <<>>
  BY <1>3 DEF AgentConnect, AgentEnds, TypeOK
<1>4. ASSUME NEW o \in Conns, AgentStart(o) \/ AgentClose(o)
      PROVE  down'[c] = down[c] \/ (down[c] # <<>> /\ down'[c] = Tail(down[c]))
  <2>1. down[o] # <<>> /\ down' = [down EXCEPT ![o] = Tail(@)]
    BY <1>4 DEF AgentStart, AgentClose
  <2> QED BY <2>1 DEF TypeOK
<1>5. ASSUME NEW x \in Sessions, NEW d \in Devices, CreateCheck(x, d) PROVE down' = down
  BY <1>5 DEF CreateCheck
<1>6. ASSUME NEW x \in Sessions,
             \/ CreateInsert(x) \/ CreateBind(x) \/ CreateSendFails(x)
             \/ CreateMarkLost(x) \/ CloseMark(x)
      PROVE  down' = down
  BY <1>6 DEF CreateInsert, CreateBind, CreateSendFails, CreateMarkLost, CloseMark
<1>7. ASSUME NEW o \in Conns, NEW x \in Sessions,
             MarkListed(o, x) \/ AgentOutput(o, x) \/ AgentShellExit(o, x)
      PROVE  down' = down
  BY <1>7 DEF MarkListed, AgentOutput, AgentShellExit
<1>8. ASSUME NEW o \in Conns,
             \/ ServerStarted(o) \/ ServerReadStatus(o) \/ ServerWriteStatus(o)
             \/ ServerSeesBreak(o)
      PROVE  down' = down
  BY <1>8 DEF ServerStarted, ServerReadStatus, ServerWriteStatus, ServerSeesBreak
<1>9. ASSUME ServerRestart PROVE down' = down
  BY <1>9 DEF ServerRestart
<1>10. CASE UNCHANGED lifeVars
  BY <1>10 DEF lifeVars
<1> HIDE DEF dbVars, memVars, connVars, agentVars, reqVars
<1> QED
  BY <1>1, <1>2, <1>3, <1>4, <1>5, <1>6, <1>7, <1>8, <1>9, <1>10, LifeSteps

\* A start that is on the way was so before, or is the one that its create request sends.
LEMMA StartStep ==
    ASSUME TypeOK, [Next]_vars, NEW c \in Conns, NEW s \in Sessions, Has(down[c], Msg("start", s))'
    PROVE  Has(down[c], Msg("start", s)) \/ (CreateSend(s) /\ c = Peer(s))
<1>1. down[c] \in Seq(DownMsg) /\ \A x \in Sessions : Msg("start", x) \in DownMsg /\ Msg("close", x) \in DownMsg
  BY DEF TypeOK, DownMsg, Msg
<1>2. Has(down'[c], Msg("start", s))
  BY DEF Has
<1>3. CASE down'[c] = down[c]
  BY <1>2, <1>3
<1>4. CASE down'[c] = <<>>
  BY <1>2, <1>4, NoneOnEmpty
<1>5. CASE down[c] # <<>> /\ down'[c] = Tail(down[c])
  BY <1>1, <1>2, <1>5, HasTail
<1>6. ASSUME NEW x \in Sessions, down'[c] = Append(down[c], Msg("close", x))
      PROVE  Has(down[c], Msg("start", s))
  <2>1. Has(down[c], Msg("start", s)) \/ Msg("close", x) = Msg("start", s)
    BY <1>1, <1>2, <1>6, HasAppend
  <2> QED BY <2>1 DEF Msg
<1>7. ASSUME NEW x \in Sessions, CreateSend(x), c = Peer(x), down'[c] = Append(down[c], Msg("start", x))
      PROVE  Has(down[c], Msg("start", s)) \/ (CreateSend(s) /\ c = Peer(s))
  <2>1. Has(down[c], Msg("start", s)) \/ Msg("start", x) = Msg("start", s)
    BY <1>1, <1>2, <1>7, HasAppend
  <2>2. Msg("start", x) = Msg("start", s) => x = s
    BY DEF Msg
  <2> QED BY <1>7, <2>1, <2>2
<1> QED BY <1>3, <1>4, <1>5, <1>6, <1>7, DownStep

\* What an agent takes from its queue to spawn a shell.
LEMMA StartIs ==
    ASSUME TypeOK, NEW c \in Conns, AgentStart(c)
    PROVE  \E s \in Sessions :
               /\ Has(down[c], Msg("start", s)) /\ Head(down[c]) = Msg("start", s)
               /\ down[c] # <<>> /\ down' = [down EXCEPT ![c] = Tail(@)]
               /\ ptys' = [ptys EXCEPT ![c] = @ \union {s}] /\ begun' = begun \union {s}
               /\ up' = Push(up, c, "started", s)
               /\ UNCHANGED <<status, owner, creq>>
<1> DEFINE m == Head(down[c])
<1>1. down[c] \in Seq(DownMsg) /\ down[c] # <<>>
  BY DEF AgentStart, TypeOK
<1>2. m \in DownMsg /\ m.t = "start"
  BY <1>1, HeadElement DEF AgentStart
<1>3. m = Msg("start", m.s) /\ m.s \in Sessions
  BY <1>2, MsgIs DEF DownMsg
<1>4. Has(down[c], m)
  BY <1>1, HasTail
<1> QED BY <1>1, <1>3, <1>4 DEF AgentStart, dbVars, reqVars

\* What a step does to the shells: an agent spawns one, or one agent loses some.
LEMMA ShellStep ==
    ASSUME TypeOK, [Next]_vars
    PROVE  \/ UNCHANGED <<ptys, begun>>
           \/ \E c \in Conns : AgentStart(c)
           \/ /\ UNCHANGED <<status, owner, begun>>
              /\ \E c \in Conns, gone \in SUBSET Sessions :
                     gone \subseteq ptys[c] /\ ptys' = [ptys EXCEPT ![c] = @ \ gone]
<1> USE DEF dbVars, memVars, connVars, agentVars, reqVars
<1>1. ASSUME NEW c \in Conns, AgentClose(c)
      PROVE  /\ UNCHANGED <<status, owner, begun>>
             /\ \E gone \in SUBSET Sessions :
                    gone \subseteq ptys[c] /\ ptys' = [ptys EXCEPT ![c] = @ \ gone]
  <2> DEFINE gone == ptys[c] \intersect {Head(down[c]).s}
  <2>1. ptys' = [ptys EXCEPT ![c] = @ \ {Head(down[c]).s}] /\ UNCHANGED <<status, owner, begun>>
    BY <1>1 DEF AgentClose
  <2>2. ptys[c] \ {Head(down[c]).s} = ptys[c] \ gone /\ gone \subseteq ptys[c] /\ gone \in SUBSET Sessions
    BY DEF TypeOK
  <2> QED BY <2>1, <2>2
<1>2. ASSUME NEW c \in Conns, NEW s \in Sessions, AgentShellExit(c, s)
      PROVE  /\ UNCHANGED <<status, owner, begun>>
             /\ \E gone \in SUBSET Sessions :
                    gone \subseteq ptys[c] /\ ptys' = [ptys EXCEPT ![c] = @ \ gone]
  <2>1. {s} \subseteq ptys[c] /\ {s} \in SUBSET Sessions
    BY <1>2 DEF AgentShellExit
  <2>2. ptys' = [ptys EXCEPT ![c] = @ \ {s}] /\ UNCHANGED <<status, owner, begun>>
    BY <1>2 DEF AgentShellExit
  <2> QED BY <2>1, <2>2
<1>3. ASSUME NEW c \in Conns, AgentEnds(c)
      PROVE  /\ UNCHANGED <<status, owner, begun>>
             /\ \E gone \in SUBSET Sessions :
                    gone \subseteq ptys[c] /\ ptys' = [ptys EXCEPT ![c] = @ \ gone]
  <2>1. ptys' = [ptys EXCEPT ![c] = {}] /\ UNCHANGED <<status, owner, begun>>
    BY <1>3 DEF AgentEnds
  <2>2. ptys[c] \ ptys[c] = {} /\ ptys[c] \in SUBSET Sessions
    BY DEF TypeOK
  <2> QED BY <2>1, <2>2
<1>4. ASSUME NEW x \in Sessions, NEW d \in Devices, CreateCheck(x, d) PROVE UNCHANGED <<ptys, begun>>
  BY <1>4 DEF CreateCheck
<1>5. ASSUME NEW x \in Sessions,
             \/ CreateInsert(x) \/ CreateBind(x) \/ CreateSend(x) \/ CreateSendFails(x)
             \/ CreateMarkLost(x) \/ CloseMark(x) \/ CloseSend(x)
      PROVE  UNCHANGED <<ptys, begun>>
  BY <1>5 DEF CreateInsert, CreateBind, CreateSend, CreateSendFails, CreateMarkLost, CloseMark,
              CloseSend
<1>6. ASSUME NEW c \in Conns, NEW x \in Sessions, MarkListed(c, x) \/ AgentOutput(c, x)
      PROVE  UNCHANGED <<ptys, begun>>
  BY <1>6 DEF MarkListed, AgentOutput
<1>7. ASSUME NEW c \in Conns,
             \/ ServerStarted(c) \/ ServerReadStatus(c) \/ ServerWriteStatus(c) \/ AgentConnect(c)
             \/ ServerSeesBreak(c)
      PROVE  UNCHANGED <<ptys, begun>>
  BY <1>7 DEF ServerStarted, ServerReadStatus, ServerWriteStatus, AgentConnect, ServerSeesBreak
<1>8. ASSUME ServerRestart PROVE UNCHANGED <<ptys, begun>>
  BY <1>8 DEF ServerRestart
<1>9. CASE UNCHANGED lifeVars
  BY <1>9 DEF lifeVars
<1> HIDE DEF dbVars, memVars, connVars, agentVars, reqVars
<1> QED
  BY <1>1, <1>2, <1>3, <1>4, <1>5, <1>6, <1>7, <1>8, <1>9, LifeSteps

\* Nobody speaks of a shell for the first time but an agent that has it.
LEMMA UpStep ==
    ASSUME TypeOK, [Next]_vars, NEW c \in Conns, NEW s \in Sessions,
           NEW k \in {"started", "stdout"}, Has(up[c], Msg(k, s))'
    PROVE  Has(up[c], Msg(k, s)) \/ s \in ptys[c] \/ s \in ptys'[c]
<1> USE DEF dbVars, memVars, connVars, agentVars, reqVars
<1>1. up[c] \in Seq(UpMsg) /\ Has(up'[c], Msg(k, s))
  BY DEF TypeOK, Has
<1>2. ASSUME NEW o \in Conns, NEW x \in Sessions, NEW j \in {"started", "stdout", "exit"},
             up' = Push(up, o, j, x), ~(o = c /\ j = k /\ x = s)
      PROVE  Has(up[c], Msg(k, s))
  <2>1. up'[c] = IF link[o] = "up" /\ c = o THEN Append(up[o], Msg(j, x)) ELSE up[c]
    BY <1>2, PushIs
  <2>2. Msg(j, x) \in UpMsg /\ (Msg(j, x) = Msg(k, s) => j = k /\ x = s)
    BY DEF UpMsg, Msg
  <2> QED BY <1>1, <1>2, <2>1, <2>2, HasAppend
<1>3. ASSUME NEW o \in Conns, AgentStart(o)
      PROVE  Has(up[c], Msg(k, s)) \/ s \in ptys'[c]
  <2>1. PICK x \in Sessions : /\ ptys' = [ptys EXCEPT ![o] = @ \union {x}]
                              /\ up' = Push(up, o, "started", x)
    BY <1>3, StartIs
  <2>2. o = c /\ x = s => s \in ptys'[c]
    BY <2>1 DEF TypeOK
  <2> QED BY <1>2, <2>1, <2>2
<1>4. ASSUME NEW o \in Conns, AgentClose(o)
      PROVE  Has(up[c], Msg(k, s))
  <2>1. up' = Push(up, o, "exit", Head(down[o]).s) /\ down[o] # <<>>
    BY <1>4 DEF AgentClose
  <2>2. Head(down[o]).s \in Sessions
    <3>1. down[o] \in Seq(DownMsg)
      BY DEF TypeOK
    <3>2. Head(down[o]) \in DownMsg
      BY <2>1, <3>1, HeadElement
    <3> QED BY <3>2 DEF DownMsg
  <2> QED BY <1>2, <2>1, <2>2
<1>5. ASSUME NEW o \in Conns, NEW x \in Sessions, AgentShellExit(o, x)
      PROVE  Has(up[c], Msg(k, s))
  BY <1>2, <1>5 DEF AgentShellExit
<1>6. ASSUME NEW o \in Conns, NEW x \in Sessions, AgentOutput(o, x)
      PROVE  Has(up[c], Msg(k, s)) \/ s \in ptys[c]
  BY <1>2, <1>6 DEF AgentOutput
<1>7. ASSUME NEW o \in Conns, ServerStarted(o) \/ ServerReadStatus(o)
      PROVE  Has(up[c], Msg(k, s))
  <2>1. up[o] # <<>> /\ up' = [up EXCEPT ![o] = Tail(@)]
    BY <1>7 DEF ServerStarted, ServerReadStatus
  <2>2. up'[c] = up[c] \/ (up[c] # <<>> /\ up'[c] = Tail(up[c]))
    BY <2>1 DEF TypeOK
  <2> QED BY <1>1, <2>2, HasTail
<1>8. ASSUME NEW o \in Conns, AgentConnect(o) \/ ServerSeesBreak(o) PROVE Has(up[c], Msg(k, s))
  <2>1. up'[c] = up[c] \/ up'[c] = <<>>
    BY <1>8 DEF AgentConnect, ServerSeesBreak, TypeOK
  <2> QED BY <1>1, <2>1, NoneOnEmpty
<1>9. ASSUME up' = up PROVE Has(up[c], Msg(k, s))
  BY <1>1, <1>9
<1>10. ASSUME NEW x \in Sessions, NEW d \in Devices, CreateCheck(x, d) PROVE up' = up
  BY <1>10 DEF CreateCheck
<1>11. ASSUME NEW x \in Sessions,
              \/ CreateInsert(x) \/ CreateBind(x) \/ CreateSend(x) \/ CreateSendFails(x)
              \/ CreateMarkLost(x) \/ CloseMark(x) \/ CloseSend(x)
       PROVE  up' = up
  BY <1>11 DEF CreateInsert, CreateBind, CreateSend, CreateSendFails, CreateMarkLost, CloseMark,
               CloseSend
<1>12. ASSUME NEW o \in Conns, NEW x \in Sessions, MarkListed(o, x) PROVE up' = up
  BY <1>12 DEF MarkListed
<1>13. ASSUME NEW o \in Conns, ServerWriteStatus(o) \/ AgentEnds(o) PROVE up' = up
  BY <1>13 DEF ServerWriteStatus, AgentEnds
<1>14. ASSUME ServerRestart PROVE Has(up[c], Msg(k, s))
  <2>1. up'[c] = <<>>
    BY <1>14 DEF ServerRestart
  <2> QED BY <1>1, <2>1, NoneOnEmpty
<1>15. CASE UNCHANGED lifeVars
  BY <1>15, <1>9 DEF lifeVars
<1> HIDE DEF dbVars, memVars, connVars, agentVars, reqVars
<1> QED
  BY <1>3, <1>4, <1>5, <1>6, <1>7, <1>8, <1>9, <1>10, <1>11, <1>12, <1>13, <1>14, <1>15, LifeSteps

\* What a handler holds it has taken from its socket, with the status of the row.
LEMMA HandStep ==
    ASSUME TypeOK, [Next]_vars, NEW c \in Conns
    PROVE  \/ cur'[c] = cur[c] /\ rd'[c] = rd[c]
           \/ cur'[c] = <<>>
           \/ \E m \in UpMsg : /\ Has(up[c], m) /\ Owns(c, m.s)
                               /\ cur'[c] = <<m>> /\ rd'[c] = status[m.s]
<1> USE DEF dbVars, memVars, connVars, agentVars, reqVars
<1>1. ASSUME NEW o \in Conns, ServerReadStatus(o), cur'[c] # cur[c] \/ rd'[c] # rd[c]
      PROVE  \E m \in UpMsg : /\ Has(up[c], m) /\ Owns(c, m.s)
                              /\ cur'[c] = <<m>> /\ rd'[c] = status[m.s]
  <2> DEFINE m == Head(up[o])
  <2>1. up[o] # <<>> /\ up[o] \in Seq(UpMsg)
    BY <1>1 DEF ServerReadStatus, TypeOK
  <2>2. m \in UpMsg /\ Has(up[o], m)
    BY <2>1, HeadElement, HasTail
  <2>3. /\ Owns(o, m.s) /\ cur' = [cur EXCEPT ![o] = <<m>>] /\ rd' = [rd EXCEPT ![o] = status[m.s]]
    BY <1>1 DEF ServerReadStatus
  <2>4. o = c
    BY <1>1, <2>3 DEF TypeOK
  <2> QED BY <2>2, <2>3, <2>4 DEF TypeOK
<1>2. ASSUME NEW o \in Conns, ServerWriteStatus(o)
      PROVE  cur'[c] = <<>> \/ (cur'[c] = cur[c] /\ rd'[c] = rd[c])
  BY <1>2 DEF ServerWriteStatus, TypeOK
<1>3. ASSUME ServerRestart PROVE cur'[c] = <<>>
  BY <1>3 DEF ServerRestart
<1>4. ASSUME NEW x \in Sessions, NEW d \in Devices, CreateCheck(x, d) PROVE UNCHANGED <<cur, rd>>
  BY <1>4 DEF CreateCheck
<1>5. ASSUME NEW x \in Sessions,
             \/ CreateInsert(x) \/ CreateBind(x) \/ CreateSend(x) \/ CreateSendFails(x)
             \/ CreateMarkLost(x) \/ CloseMark(x) \/ CloseSend(x)
      PROVE  UNCHANGED <<cur, rd>>
  BY <1>5 DEF CreateInsert, CreateBind, CreateSend, CreateSendFails, CreateMarkLost, CloseMark,
              CloseSend
<1>6. ASSUME NEW o \in Conns, NEW x \in Sessions,
             MarkListed(o, x) \/ AgentOutput(o, x) \/ AgentShellExit(o, x)
      PROVE  UNCHANGED <<cur, rd>>
  BY <1>6 DEF MarkListed, AgentOutput, AgentShellExit
<1>7. ASSUME NEW o \in Conns,
             \/ ServerStarted(o) \/ AgentConnect(o) \/ ServerSeesBreak(o)
             \/ AgentStart(o) \/ AgentClose(o) \/ AgentEnds(o)
      PROVE  UNCHANGED <<cur, rd>>
  BY <1>7 DEF ServerStarted, AgentConnect, AgentStart, AgentClose, AgentEnds, ServerSeesBreak
<1>8. CASE UNCHANGED lifeVars
  BY <1>8 DEF lifeVars
<1> HIDE DEF dbVars, memVars, connVars, agentVars, reqVars
<1> QED BY <1>1, <1>2, <1>3, <1>4, <1>5, <1>6, <1>7, <1>8, LifeSteps

\* An agent and a handler begin with a new connection only, and with empty queues.
LEMMA PeerStep ==
    ASSUME TypeOK, [Next]_vars, NEW c \in Conns
    PROVE  \/ (alive'[c] => alive[c]) /\ (pc'[c] # "gone" => pc[c] # "gone")
           \/ up'[c] = <<>> /\ down'[c] = <<>> /\ pc'[c] = "hello"
<1> USE DEF dbVars, memVars, connVars, agentVars, reqVars
<1> DEFINE Older == (alive'[c] => alive[c]) /\ (pc'[c] # "gone" => pc[c] # "gone")
<1>1. CASE UNCHANGED vars
  BY <1>1 DEF vars
<1>2. CASE User
  BY <1>2 DEF User, CreateCheck, CloseMark, WebSubscribe
<1>3. CASE Requests
  <2>1. ASSUME NEW x \in Sessions, CreateRequest(x) PROVE Older
    BY <2>1 DEF CreateRequest, CreateInsert, CreateBind, CreateSend, CreateSendFails,
                CreateMarkLost
  <2>2. ASSUME NEW x \in Sessions, CloseSend(x) PROVE Older
    BY <2>2 DEF CloseSend
  <2> HIDE DEF Older
  <2> QED BY <1>3, <2>1, <2>2 DEF Requests, Older
<1>4. ASSUME NEW o \in Conns, Handshake(o) \/ Synchronise(o) PROVE Older
  <2>1. CASE Handshake(o)
    BY <2>1 DEF Handshake, ServerHello, ServerNoHello, ServerAttach, TypeOK
  <2>2. CASE Synchronise(o)
    BY <2>2 DEF Synchronise, ServerSyncList, ServerSyncMark, ServerSyncDone, MarkListed, TypeOK
  <2> QED BY <1>4, <2>1, <2>2
<1>5. ASSUME NEW o \in Conns, Receive(o) PROVE Older
  BY <1>5 DEF Receive, ServerStarted, ServerReadStatus, ServerWriteStatus, TypeOK
<1>6. ASSUME NEW o \in Conns, Disconnect(o) PROVE Older
  BY <1>6 DEF Disconnect, ServerSeesBreak, CleanUpList, CleanUpMark, CleanUpMarked,
              CleanUpOffline, CleanUpDetach, MarkListed, TypeOK
<1>7. ASSUME NEW o \in Conns, AgentConnect(o)
      PROVE  Older \/ (up'[c] = <<>> /\ down'[c] = <<>> /\ pc'[c] = "hello")
  BY <1>7 DEF AgentConnect, TypeOK
<1>8. ASSUME NEW o \in Conns, AgentLoop(o) PROVE Older
  BY <1>8 DEF AgentLoop, AgentStart, AgentClose, AgentSeesBreak, AgentEnds, TypeOK
<1>9. ASSUME NEW o \in Conns, AgentShells(o) PROVE Older
  BY <1>9 DEF AgentShells, AgentOutput, AgentShellExit
<1>10. CASE Faults
  BY <1>10 DEF Faults, ServerRestart, AgentCrash, AgentEnds, LinkBreaks, TypeOK
<1> HIDE DEF Older, dbVars, memVars, connVars, agentVars, reqVars
<1>11. CASE Connections
  BY <1>11, <1>4, <1>5, <1>6, <1>7, <1>8, <1>9 DEF Connections, Handler, Older
<1> QED BY <1>1, <1>2, <1>3, <1>10, <1>11 DEF Next

\* A row that starts to say starting or running was inserted, or a handler has
\* read a report of its shell.
LEMMA RunStep ==
    ASSUME TypeOK, LinksInv, [Next]_vars, NEW s \in Sessions, status'[s] \in Active
    PROVE  \/ status[s] \in Active \/ CreateInsert(s)
           \/ \E c \in Conns : /\ Owns(c, s) /\ pc[c] \in {"read", "write"}
                               /\ Has(up[c], Msg("started", s)) \/ Holds(c, Msg("stdout", s))
<1> USE DEF dbVars, memVars, connVars, agentVars, reqVars
<1>1. ASSUME NEW x \in Sessions, CreateInsert(x) PROVE status[s] \in Active \/ CreateInsert(s)
  <2>1. x # s => status'[s] = status[s]
    BY <1>1 DEF CreateInsert, TypeOK
  <2> QED BY <1>1, <2>1
<1>2. ASSUME NEW x \in Sessions, CreateMarkLost(x) \/ CloseMark(x) PROVE status[s] \in Active
  BY <1>2 DEF CreateMarkLost, CloseMark, TypeOK, Active
<1>3. ASSUME NEW c \in Conns, NEW x \in Sessions, MarkListed(c, x) PROVE status[s] \in Active
  BY <1>3 DEF MarkListed, TypeOK, Active
<1>4. ASSUME NEW c \in Conns, ServerStarted(c)
      PROVE  status[s] \in Active \/ (Owns(c, s) /\ pc[c] = "read" /\ Has(up[c], Msg("started", s)))
  <2> DEFINE m == Head(up[c])
  <2>1. /\ pc[c] = "read" /\ up[c] # <<>> /\ up[c] \in Seq(UpMsg) /\ m.t = "started"
        /\ status' = status \/ (Owns(c, m.s) /\ status' = [status EXCEPT ![m.s] = "running"])
    BY <1>4 DEF ServerStarted, TypeOK
  <2>2. m \in UpMsg /\ Has(up[c], m)
    BY <2>1, HeadElement, HasTail
  <2>3. m = Msg("started", m.s)
    BY <2>1, <2>2, MsgIs
  <2>4. status'[s] = status[s] \/ (m.s = s /\ Owns(c, s))
    BY <2>1 DEF TypeOK
  <2> QED BY <2>1, <2>2, <2>3, <2>4
<1>5. ASSUME NEW c \in Conns, ServerWriteStatus(c)
      PROVE  status[s] \in Active \/ (Owns(c, s) /\ pc[c] = "write" /\ Holds(c, Msg("stdout", s)))
  <2> DEFINE m == cur[c][1]
  <2>1. cur[c] # <<>> /\ m.t \in {"stdout", "exit"} /\ Owns(c, m.s) /\ pc[c] = "write"
    BY <1>5 DEF ServerWriteStatus, LinksInv, HandInv
  <2>2. m \in UpMsg /\ cur[c] = <<m>>
    BY <2>1 DEF TypeOK
  <2>3. m = Msg(m.t, m.s)
    BY <2>2, MsgIs
  <2>4. status' = [status EXCEPT ![m.s] = IF m.t = "stdout" THEN AfterStdout(rd[c])
                                                          ELSE AfterExit(rd[c])]
    BY <1>5 DEF ServerWriteStatus
  <2>5. AfterExit(rd[c]) \notin Active
    BY DEF AfterExit, Active
  <2> HIDE DEF m
  <2>6. status'[s] = status[s] \/ (m.s = s /\ m.t = "stdout")
    BY <2>1, <2>4, <2>5 DEF TypeOK
  <2> QED BY <2>1, <2>2, <2>3, <2>6 DEF Holds
<1>6. ASSUME NEW x \in Sessions,
             \/ \E d \in Devices : CreateCheck(x, d)
             \/ CreateBind(x) \/ CreateSend(x) \/ CreateSendFails(x) \/ CloseSend(x)
      PROVE  status' = status
  BY <1>6 DEF CreateCheck, CreateBind, CreateSend, CreateSendFails, CloseSend
<1>7. ASSUME NEW c \in Conns, NEW x \in Sessions, AgentOutput(c, x) \/ AgentShellExit(c, x)
      PROVE  status' = status
  BY <1>7 DEF AgentOutput, AgentShellExit
<1>8. ASSUME NEW c \in Conns,
             \/ ServerReadStatus(c) \/ AgentConnect(c) \/ ServerSeesBreak(c)
             \/ AgentStart(c) \/ AgentClose(c) \/ AgentEnds(c)
      PROVE  status' = status
  BY <1>8 DEF ServerReadStatus, AgentConnect, AgentStart, AgentClose, AgentEnds, ServerSeesBreak
<1>9. ASSUME ServerRestart \/ UNCHANGED lifeVars PROVE status' = status
  BY <1>9 DEF ServerRestart, lifeVars
<1> HIDE DEF dbVars, memVars, connVars, agentVars, reqVars
<1> QED BY <1>1, <1>2, <1>3, <1>4, <1>5, <1>6, <1>7, <1>8, <1>9, LifeSteps

-----------------------------------------------------------------------------
(* Rows without a shell *)

\* What a step does to an agent that then has no shell of s: it begins, it sends
\* an exit of s, or it had none before and sends nothing about s.
LEMMA BareStep ==
    ASSUME TypeOK, [Next]_vars, NEW c \in Conns, NEW s \in Sessions, Bare(c, s)'
    PROVE  \/ up'[c] = <<>> /\ pc'[c] = "hello"
           \/ \E m \in UpMsg : /\ up'[c] = Append(up[c], m) /\ cur'[c] = cur[c]
                               /\ \/ m = Msg("exit", s)
                                  \/ Bare(c, s) /\ \A k \in Report : m # Msg(k, s)
           \/ /\ Bare(c, s)
              /\ \/ up'[c] = up[c]
                 \/ /\ up[c] # <<>> /\ up'[c] = Tail(up[c])
                    /\ ServerStarted(c) \/ ServerReadStatus(c)
<1> DEFINE Began == up'[c] = <<>> /\ pc'[c] = "hello"
           Sent(m) == /\ up'[c] = Append(up[c], m) /\ cur'[c] = cur[c]
                      /\ \/ m = Msg("exit", s)
                         \/ Bare(c, s) /\ \A k \in Report : m # Msg(k, s)
           Heard == /\ up[c] # <<>> /\ up'[c] = Tail(up[c])
                    /\ ServerStarted(c) \/ ServerReadStatus(c)
           Same == Bare(c, s) /\ (up'[c] = up[c] \/ Heard)
           Goal == Began \/ (\E m \in UpMsg : Sent(m)) \/ Same
<1> USE DEF dbVars, memVars, connVars, agentVars, reqVars
<1>0. link'[c] = "up" /\ s \notin ptys'[c] /\ ~Has(down'[c], Msg("start", s))
  BY DEF Bare, Has
<1>1. ASSUME link'[c] = link[c], ptys'[c] = ptys[c], down'[c] = down[c]
      PROVE  Bare(c, s)
  BY <1>0, <1>1 DEF Bare
<1>2. /\ up[c] \in Seq(UpMsg) /\ down \in [Conns -> Seq(DownMsg)]
      /\ ptys \in [Conns -> SUBSET Sessions]
      /\ \A k \in {"started", "stdout", "exit"}, x \in Sessions :
             Msg(k, x) \in UpMsg /\ \A j : Msg(k, x) = Msg(j, s) => k = j /\ x = s
  BY DEF TypeOK, UpMsg, Msg
<1>3. ASSUME NEW x \in Sessions, CreateSend(x) \/ CloseSend(x) PROVE Goal
  <2>1. link' = link /\ ptys' = ptys /\ up' = up
    BY <1>3 DEF CreateSend, CloseSend
  <2>2. ASSUME NEW k \in {"start", "close"}, down' = Push(down, Peer(x), k, x), SendOK(x)
        PROVE  ~Has(down[c], Msg("start", s))
    <3>1. Peer(x) \in Conns
      BY <2>2 DEF SendOK, Peer, TypeOK
    <3>2. down'[c] = IF link[Peer(x)] = "up" /\ c = Peer(x) THEN Append(down[c], Msg(k, x)) ELSE down[c]
      BY <2>2, <3>1, PushIs
    <3>3. Msg(k, x) \in DownMsg /\ down[c] \in Seq(DownMsg)
      BY <1>2 DEF DownMsg, Msg
    <3>4. Has(Append(down[c], Msg(k, x)), Msg("start", s)) <=>
              Has(down[c], Msg("start", s)) \/ Msg(k, x) = Msg("start", s)
      BY <3>3, HasAppend
    <3> QED BY <1>0, <3>2, <3>4
  <2>3. down' = down \/ \E k \in {"start", "close"} : down' = Push(down, Peer(x), k, x) /\ SendOK(x)
    BY <1>3 DEF CreateSend, CloseSend
  <2>4. ~Has(down[c], Msg("start", s))
    BY <1>0, <2>2, <2>3
  <2> QED BY <1>0, <2>1, <2>4 DEF Bare
<1>4. ASSUME NEW o \in Conns, AgentConnect(o) PROVE Goal
  <2>1. CASE o = c
    BY <1>4, <2>1 DEF AgentConnect, TypeOK
  <2>2. CASE o # c
    BY <1>1, <1>4, <2>2 DEF AgentConnect, TypeOK
  <2> QED BY <2>1, <2>2
<1>5. ASSUME NEW o \in Conns, AgentStart(o) PROVE Goal
  <2>1. PICK x \in Sessions :
            /\ Head(down[o]) = Msg("start", x) /\ down[o] # <<>>
            /\ down' = [down EXCEPT ![o] = Tail(@)] /\ ptys' = [ptys EXCEPT ![o] = @ \union {x}]
            /\ up' = Push(up, o, "started", x)
    BY <1>5, StartIs
  <2>2. link' = link /\ cur' = cur
    BY <1>5 DEF AgentStart
  <2>3. up'[c] = IF link[o] = "up" /\ c = o THEN Append(up[o], Msg("started", x)) ELSE up[c]
    BY <2>1, PushIs
  <2>4. CASE o # c
    BY <1>1, <1>2, <2>1, <2>2, <2>3, <2>4
  <2>5. CASE o = c
    <3>1. x # s /\ s \notin ptys[c] /\ down[c] # <<>> /\ down'[c] = Tail(down[c]) /\ down[c] \in Seq(DownMsg)
      BY <1>0, <1>2, <2>1, <2>5
    <3>2. Head(down[c]) # Msg("start", s)
      BY <2>1, <2>5, <3>1 DEF Msg
    <3>3. ~Has(down[c], Msg("start", s))
      BY <1>0, <3>1, <3>2, HasTail
    <3>4. Bare(c, s)
      BY <1>0, <2>2, <3>1, <3>3 DEF Bare
    <3>5. Sent(Msg("started", x))
      BY <1>0, <1>2, <2>2, <2>3, <2>5, <3>1, <3>4
    <3> QED BY <1>2, <3>5
  <2> QED BY <2>4, <2>5
<1>6. ASSUME NEW o \in Conns, AgentClose(o) PROVE Goal
  <2> DEFINE h == Head(down[o])
  <2>1. down[o] # <<>> /\ down[o] \in Seq(DownMsg)
    BY <1>6 DEF AgentClose, TypeOK
  <2>2. h \in DownMsg
    BY <2>1, HeadElement
  <2>3. h.t = "close" /\ h.s \in Sessions
    BY <1>6, <2>2 DEF AgentClose, DownMsg
  <2>4. /\ down' = [down EXCEPT ![o] = Tail(@)] /\ ptys' = [ptys EXCEPT ![o] = @ \ {h.s}]
        /\ up' = Push(up, o, "exit", h.s) /\ link' = link /\ cur' = cur
    BY <1>6 DEF AgentClose
  <2> DEFINE x == h.s
  <2>5. h # Msg("start", s) /\ x \in Sessions
    BY <2>3 DEF Msg
  <2>6. up'[c] = IF link[o] = "up" /\ c = o THEN Append(up[o], Msg("exit", x)) ELSE up[c]
    BY <2>4, PushIs
  <2>7. CASE o # c
    BY <1>1, <1>2, <2>4, <2>6, <2>7
  <2>8. CASE o = c
    <3>1. down'[c] = Tail(down[c]) /\ (x # s => s \notin ptys[c])
      BY <1>0, <1>2, <2>4, <2>8
    <3>2. ~Has(down[c], Msg("start", s))
      BY <1>0, <2>1, <2>5, <2>8, <3>1, HasTail
    <3>3. x # s => Bare(c, s)
      BY <1>0, <2>4, <3>1, <3>2 DEF Bare
    <3> HIDE DEF x
    <3>4. Sent(Msg("exit", x))
      BY <1>0, <1>2, <2>4, <2>5, <2>6, <2>8, <3>3 DEF Report
    <3> QED BY <1>2, <2>5, <3>4
  <2> QED BY <2>7, <2>8
<1>7. ASSUME NEW o \in Conns, NEW x \in Sessions, AgentShellExit(o, x) PROVE Goal
  <2>1. /\ ptys' = [ptys EXCEPT ![o] = @ \ {x}] /\ up' = Push(up, o, "exit", x)
        /\ link' = link /\ cur' = cur /\ down' = down
    BY <1>7 DEF AgentShellExit
  <2>2. up'[c] = IF link[o] = "up" /\ c = o THEN Append(up[o], Msg("exit", x)) ELSE up[c]
    BY <2>1, PushIs
  <2>3. CASE o # c
    BY <1>1, <1>2, <2>1, <2>2, <2>3
  <2>4. CASE o = c
    <3>1. x # s => Bare(c, s)
      BY <1>0, <1>2, <2>1, <2>4 DEF Bare
    <3>2. Sent(Msg("exit", x))
      BY <1>0, <1>2, <2>1, <2>2, <2>4, <3>1 DEF Report
    <3> QED BY <1>2, <3>2
  <2> QED BY <2>3, <2>4
<1>8. ASSUME NEW o \in Conns, NEW x \in Sessions, AgentOutput(o, x) PROVE Goal
  <2>1. /\ ptys' = ptys /\ up' = Push(up, o, "stdout", x) /\ x \in ptys[o]
        /\ link' = link /\ cur' = cur /\ down' = down
    BY <1>8 DEF AgentOutput
  <2>2. up'[c] = IF link[o] = "up" /\ c = o THEN Append(up[o], Msg("stdout", x)) ELSE up[c]
    BY <2>1, PushIs
  <2>3. Bare(c, s)
    BY <1>1, <2>1
  <2>4. CASE o # c
    BY <2>2, <2>3, <2>4
  <2>5. CASE o = c
    <3>1. x # s
      BY <1>0, <2>1, <2>5
    <3>2. Sent(Msg("stdout", x))
      BY <1>0, <1>2, <2>1, <2>2, <2>3, <2>5, <3>1
    <3> QED BY <1>2, <3>2
  <2> QED BY <2>4, <2>5
<1>9. ASSUME NEW o \in Conns, ServerStarted(o) \/ ServerReadStatus(o) PROVE Goal
  <2>1. up[o] # <<>> /\ up' = [up EXCEPT ![o] = Tail(@)] /\ link' = link /\ ptys' = ptys /\ down' = down
    BY <1>9 DEF ServerStarted, ServerReadStatus
  <2>2. up'[c] = up[c] \/ (o = c /\ up'[c] = Tail(up[c]))
    BY <2>1 DEF TypeOK
  <2> QED BY <1>1, <1>9, <2>1, <2>2
<1>10. ASSUME NEW o \in Conns, ServerSeesBreak(o) \/ AgentEnds(o) PROVE Goal
  <2>1. CASE o = c
    BY <1>0, <1>10, <2>1 DEF ServerSeesBreak, AgentEnds, TypeOK
  <2>2. CASE o # c
    BY <1>1, <1>10, <2>2 DEF ServerSeesBreak, AgentEnds, TypeOK
  <2> QED BY <2>1, <2>2
<1>11. ASSUME ServerRestart PROVE Goal
  BY <1>0, <1>11 DEF ServerRestart
<1>12. ASSUME NEW x \in Sessions,
              \/ \E d \in Devices : CreateCheck(x, d)
              \/ CreateInsert(x) \/ CreateBind(x) \/ CreateSendFails(x) \/ CreateMarkLost(x)
              \/ CloseMark(x)
       PROVE  Goal
  <2>1. link' = link /\ ptys' = ptys /\ down' = down /\ up' = up
    BY <1>12 DEF CreateCheck, CreateInsert, CreateBind, CreateSendFails, CreateMarkLost, CloseMark
  <2> QED BY <1>1, <2>1
<1>13. ASSUME NEW o \in Conns, NEW x \in Sessions, MarkListed(o, x) PROVE Goal
  BY <1>1, <1>13 DEF MarkListed
<1>14. ASSUME NEW o \in Conns, ServerWriteStatus(o) PROVE Goal
  BY <1>1, <1>14 DEF ServerWriteStatus
<1>15. CASE UNCHANGED lifeVars /\ \A o \in Conns : link'[o] = "up" => link[o] = "up"
  <2>1. link[c] = "up" /\ ptys' = ptys /\ down' = down /\ up' = up
    BY <1>0, <1>15 DEF lifeVars
  <2> QED BY <1>0, <2>1 DEF Bare
<1> HIDE DEF Goal, dbVars, memVars, connVars, agentVars, reqVars
<1>16. ASSUME NEW o \in Conns, NEW x \in Sessions,
              MarkListed(o, x) \/ AgentOutput(o, x) \/ AgentShellExit(o, x)
       PROVE  Goal
  BY <1>16, <1>7, <1>8, <1>13
<1>17. ASSUME NEW o \in Conns,
              \/ ServerStarted(o) \/ ServerReadStatus(o) \/ ServerWriteStatus(o) \/ AgentConnect(o)
              \/ AgentStart(o) \/ AgentClose(o) \/ AgentEnds(o) \/ ServerSeesBreak(o)
       PROVE  Goal
  BY <1>17, <1>4, <1>5, <1>6, <1>9, <1>10, <1>14
<1> QED BY <1>3, <1>11, <1>12, <1>15, <1>16, <1>17, LifeSteps DEF Goal

\* Every step of anyone keeps: where no shell is left, an exit follows every report.
LEMMA ReportKept ==
    ASSUME TypeOK, LinksInv, LinksInv', [Next]_vars, NEW c \in Conns, NEW s \in Sessions, ReportInv(c, s)
    PROVE  ReportInv(c, s)'
<1> SUFFICES ASSUME Bare(c, s)' PROVE ExitFinal(up'[c], s) \/ ~Reported(c, s)'
  BY DEF ReportInv, ExitFinal, ExitEnds
<1>2. /\ up[c] \in Seq(UpMsg) /\ Msg("exit", s) # Msg("stdout", s) /\ "exit" \notin Report
      /\ "stdout" \in Report
  BY DEF TypeOK, Msg, Report
<1>3. /\ pc'[c] = "write" <=> cur'[c] # <<>>
      /\ pc[c] = "write" <=> cur[c] # <<>>
  BY DEF LinksInv, HandInv
<1>4. CASE up'[c] = <<>> /\ pc'[c] = "hello"
  <2>1. cur'[c] = <<>>
    BY <1>3, <1>4
  <2> QED BY <1>4, <2>1, NoneOnEmpty DEF Reported, Holds
<1>5. ASSUME NEW m \in UpMsg, up'[c] = Append(up[c], m), m = Msg("exit", s)
      PROVE  ExitFinal(up'[c], s)
  BY <1>2, <1>5, EndsAppend DEF ExitFinal
<1>6. ASSUME NEW m \in UpMsg, up'[c] = Append(up[c], m), cur'[c] = cur[c],
             Bare(c, s), \A k \in Report : m # Msg(k, s)
      PROVE  ExitFinal(up'[c], s) \/ ~Reported(c, s)'
  <2>1. ExitFinal(up[c], s) => ExitFinal(up'[c], s)
    BY <1>2, <1>6, EndsAppend DEF ExitFinal, Tells
  <2>2. \A k \in Report : Has(up'[c], Msg(k, s)) => Has(up[c], Msg(k, s))
    BY <1>2, <1>6, HasAppend
  <2>3. Reported(c, s)' => Reported(c, s)
    BY <1>6, <2>2 DEF Reported, Holds
  <2> QED BY <1>6, <2>1, <2>3 DEF ReportInv
<1>7. ASSUME Bare(c, s), up'[c] = up[c] PROVE ExitFinal(up'[c], s) \/ ~Reported(c, s)'
  <2>1. ASSUME Holds(c, Msg("stdout", s))' PROVE Reported(c, s)
    <3>1. cur'[c] = <<Msg("stdout", s)>> /\ cur'[c] # <<>>
      BY <2>1 DEF Holds
    <3>2. cur'[c] = cur[c] \/ \E m \in UpMsg : Has(up[c], m) /\ cur'[c] = <<m>>
      BY <3>1, HandStep
    <3>3. ASSUME NEW m \in UpMsg, Has(up[c], m), cur'[c] = <<m>> PROVE Has(up[c], Msg("stdout", s))
      <4>1. m = Msg("stdout", s)
        BY <3>1, <3>3
      <4> QED BY <3>3, <4>1
    <3> QED BY <1>2, <3>1, <3>2, <3>3 DEF Reported, Holds
  <2>2. Reported(c, s)' => Reported(c, s)
    BY <1>7, <2>1 DEF Reported
  <2> QED BY <1>7, <2>2 DEF ReportInv
<1>8. ASSUME Bare(c, s), up[c] # <<>>, up'[c] = Tail(up[c]), ServerStarted(c) \/ ServerReadStatus(c)
      PROVE  ExitFinal(up'[c], s) \/ ~Reported(c, s)'
  <2> DEFINE h == Head(up[c])
  <2>1. cur[c] = <<>> /\ (cur'[c] = cur[c] \/ cur'[c] = <<h>>)
    BY <1>3, <1>8 DEF ServerStarted, ServerReadStatus, connVars, TypeOK
  <2>2. \A m : Has(up[c], m) <=> h = m \/ Has(up'[c], m)
    BY <1>2, <1>8, HasTail
  <2>3. ExitFinal(up[c], s) => \/ ExitFinal(up'[c], s)
                               \/ h = Msg("exit", s) /\ ~\E k \in Report : Has(up'[c], Msg(k, s))
    BY <1>2, <1>8, EndsTail DEF ExitFinal
  <2> HIDE DEF h
  <2>4. Holds(c, Msg("stdout", s))' => h = Msg("stdout", s)
    BY <2>1 DEF Holds
  <2>5. Reported(c, s)' => Reported(c, s)
    BY <1>2, <2>2, <2>4 DEF Reported
  <2>6. h = Msg("exit", s) /\ (~\E k \in Report : Has(up'[c], Msg(k, s))) => ~Reported(c, s)'
    BY <1>2, <2>4 DEF Reported
  <2> QED BY <1>8, <2>3, <2>5, <2>6 DEF ReportInv
<1> QED BY <1>4, <1>5, <1>6, <1>7, <1>8, BareStep

\* Every step of anyone keeps: the row of a shell says starting only while the
\* report of its start is on the way.
LEMMA StartKept ==
    ASSUME TypeOK, RoutingInv, LinksInv, [Next]_vars, NEW c \in Conns, NEW s \in Sessions,
           NewInv(c, s), StartInv(c, s)
    PROVE  StartInv(c, s)'
<1> USE DEF dbVars, memVars, connVars, agentVars, reqVars
<1>0. /\ up \in [Conns -> Seq(UpMsg)] /\ up[c] \in Seq(UpMsg) /\ ptys \in [Conns -> SUBSET Sessions]
      /\ status \in [Sessions -> Status] /\ link \in [Conns -> {"up", "down"}]
      /\ \A k \in {"started", "stdout", "exit"}, x \in Sessions : Msg(k, x) \in UpMsg
  BY DEF TypeOK, UpMsg, Msg
<1> SUFFICES ASSUME link'[c] = "up", s \in ptys'[c], status'[s] = "starting"
             PROVE  Has(up'[c], Msg("started", s))
  BY DEF StartInv, Has
<1>1. ASSUME link[c] = "up", s \in ptys[c], status[s] = "starting" PROVE Has(up[c], Msg("started", s))
  BY <1>1 DEF StartInv
<1>2. ASSUME NEW x \in Sessions, CreateInsert(x) PROVE Has(up'[c], Msg("started", s))
  <2>1. x = s => s \notin ptys[c]
    BY <1>2 DEF CreateInsert, NewInv
  <2> QED BY <1>0, <1>1, <1>2, <2>1 DEF CreateInsert
<1>3. ASSUME NEW x \in Sessions,
             \/ \E d \in Devices : CreateCheck(x, d)
             \/ CreateBind(x) \/ CreateSend(x) \/ CreateSendFails(x) \/ CreateMarkLost(x)
             \/ CloseMark(x) \/ CloseSend(x)
      PROVE  Has(up'[c], Msg("started", s))
  BY <1>0, <1>1, <1>3 DEF CreateCheck, CreateBind, CreateSend, CreateSendFails, CreateMarkLost,
                          CloseMark, CloseSend
<1>4. ASSUME NEW o \in Conns, NEW x \in Sessions, MarkListed(o, x) PROVE Has(up'[c], Msg("started", s))
  BY <1>0, <1>1, <1>4 DEF MarkListed
<1>5. ASSUME NEW o \in Conns, NEW x \in Sessions, NEW k \in {"started", "stdout", "exit"},
             up' = Push(up, o, k, x), link' = link, status' = status, s \in ptys[c]
      PROVE  Has(up'[c], Msg("started", s))
  <2>1. up'[c] = IF link[o] = "up" /\ c = o THEN Append(up[o], Msg(k, x)) ELSE up[c]
    BY <1>5, PushIs
  <2>2. Msg(k, x) \in UpMsg /\ Has(up[c], Msg("started", s))
    BY <1>0, <1>1, <1>5
  <2>3. Has(Append(up[c], Msg(k, x)), Msg("started", s))
    BY <1>0, <2>2, HasAppend
  <2> QED BY <2>1, <2>2, <2>3
<1>6. ASSUME NEW o \in Conns, AgentStart(o) PROVE Has(up'[c], Msg("started", s))
  <2>1. PICK x \in Sessions : /\ ptys' = [ptys EXCEPT ![o] = @ \union {x}]
                              /\ up' = Push(up, o, "started", x) /\ UNCHANGED <<status, owner>>
    BY <1>6, StartIs
  <2>2. link' = link
    BY <1>6 DEF AgentStart
  <2>3. CASE s \in ptys[c]
    BY <1>5, <2>1, <2>2, <2>3
  <2>4. CASE s \notin ptys[c]
    <3>1. o = c /\ x = s
      BY <1>0, <2>1, <2>4
    <3>2. up'[c] = IF link[o] = "up" /\ c = o THEN Append(up[o], Msg("started", x)) ELSE up[c]
      BY <2>1, PushIs
    <3>3. up'[c] = Append(up[c], Msg("started", s))
      BY <2>2, <3>1, <3>2
    <3> QED BY <1>0, <3>3, HasAppend
  <2> QED BY <2>3, <2>4
<1>7. ASSUME NEW o \in Conns, AgentClose(o) PROVE Has(up'[c], Msg("started", s))
  <2>1. /\ down[o] # <<>> /\ down[o] \in Seq(DownMsg)
        /\ ptys' = [ptys EXCEPT ![o] = @ \ {Head(down[o]).s}]
        /\ up' = Push(up, o, "exit", Head(down[o]).s) /\ link' = link /\ status' = status
    BY <1>7 DEF AgentClose, TypeOK
  <2>2. Head(down[o]) \in DownMsg
    BY <2>1, HeadElement
  <2>3. Head(down[o]).s \in Sessions
    BY <2>2 DEF DownMsg
  <2>4. s \in ptys[c]
    BY <1>0, <2>1
  <2> QED BY <1>5, <2>1, <2>3, <2>4
<1>8. ASSUME NEW o \in Conns, NEW x \in Sessions, AgentOutput(o, x) \/ AgentShellExit(o, x)
      PROVE  Has(up'[c], Msg("started", s))
  <2>1. /\ s \in ptys[c] /\ link' = link /\ status' = status
        /\ up' = Push(up, o, "stdout", x) \/ up' = Push(up, o, "exit", x)
    BY <1>0, <1>8 DEF AgentOutput, AgentShellExit
  <2> QED BY <1>5, <2>1
<1>9. ASSUME NEW o \in Conns, ServerStarted(o) \/ ServerReadStatus(o)
      PROVE  Has(up'[c], Msg("started", s))
  <2> DEFINE h == Head(up[o])
  <2>1. /\ up[o] # <<>> /\ up' = [up EXCEPT ![o] = Tail(@)] /\ link' = link /\ ptys' = ptys
    BY <1>9 DEF ServerStarted, ServerReadStatus
  <2>2. status[s] = "starting" /\ (o = c => h # Msg("started", s))
    <3>1. CASE ServerReadStatus(o)
      BY <3>1 DEF ServerReadStatus, Msg
    <3>2. CASE ServerStarted(o)
      <4>1. h \in UpMsg
        BY <1>0, <2>1, HeadElement
      <4>2. h.s \in Sessions
        BY <4>1 DEF UpMsg
      <4>3. status' = IF Owns(o, h.s) THEN [status EXCEPT ![h.s] = "running"] ELSE status
        BY <3>2 DEF ServerStarted
      <4> HIDE DEF h
      <4>4. status[s] = "starting" /\ ~(h.s = s /\ Owns(o, s))
        BY <1>0, <4>2, <4>3
      <4>5. o = c /\ h = Msg("started", s) => h.s = s /\ Owns(o, s)
        BY <2>1 DEF RoutingInv, OnlyOnOwner, Msg
      <4> QED BY <4>4, <4>5
    <3> QED BY <1>9, <3>1, <3>2
  <2>3. up'[c] = IF c = o THEN Tail(up[c]) ELSE up[c]
    BY <1>0, <2>1
  <2>4. Has(up[c], Msg("started", s))
    BY <1>1, <2>1, <2>2
  <2> HIDE DEF h
  <2>5. CASE c = o
    BY <1>0, <2>1, <2>2, <2>3, <2>4, <2>5, HasTail DEF h
  <2>6. CASE c # o
    BY <2>3, <2>4, <2>6
  <2> QED BY <2>5, <2>6
<1>10. ASSUME NEW o \in Conns, ServerWriteStatus(o) PROVE Has(up'[c], Msg("started", s))
  <2>1. AfterStdout(rd[o]) # "starting" /\ AfterExit(rd[o]) # "starting"
    BY DEF AfterStdout, AfterExit
  <2>2. status[s] = "starting" /\ link' = link /\ ptys' = ptys /\ up' = up
    BY <1>0, <1>10, <2>1 DEF ServerWriteStatus
  <2> QED BY <1>1, <2>2
<1>11. ASSUME NEW o \in Conns, AgentConnect(o) PROVE Has(up'[c], Msg("started", s))
  <2>1. ptys' = ptys /\ status' = status /\ (o = c => ~alive[c])
    BY <1>11 DEF AgentConnect
  <2>2. o # c
    BY <2>1 DEF LinksInv, LinkInv
  <2> QED BY <1>0, <1>1, <1>11, <2>1, <2>2 DEF AgentConnect
<1>12. ASSUME NEW o \in Conns, AgentEnds(o) \/ ServerSeesBreak(o)
       PROVE  Has(up'[c], Msg("started", s))
  <2>1. o # c
    BY <1>0, <1>12 DEF AgentEnds, ServerSeesBreak
  <2> QED BY <1>0, <1>1, <1>12, <2>1 DEF AgentEnds, ServerSeesBreak
<1>13. ~ServerRestart
  BY DEF ServerRestart
<1>14. CASE UNCHANGED lifeVars /\ \A o \in Conns : link'[o] = "up" => link[o] = "up"
  BY <1>1, <1>14 DEF lifeVars
<1> HIDE DEF dbVars, memVars, connVars, agentVars, reqVars
<1> QED BY <1>2, <1>3, <1>4, <1>6, <1>7, <1>8, <1>9, <1>10, <1>11, <1>12, <1>13, <1>14, LifeSteps

\* What a step does to a handler: it takes it past its attachment or its listing,
\* or leaves it among those that serve or among those that no longer list; and a
\* listed row stays listed until it is marked.
Off == {"gone", "hello", "unmark", "offline", "detach"}

LEMMA HandlerStep ==
    ASSUME TypeOK, LinksInv, [Next]_vars, NEW c \in Conns
    PROVE  \/ ServerRestart
           \/ /\ link'[c] = "up" => link[c] = "up" \/ pc'[c] = "hello"
              /\ pc'[c] \in Serving => pc[c] \in Serving \/ ServerAttach(c)
              /\ pc'[c] \in Off => pc[c] \in Off \/ CleanUpList(c)
              /\ pc[c] = "list" => pc'[c] = "list" \/ ServerSyncList(c)
              /\ \A s \in todo[c] : s \in todo'[c] \/ status'[s] = "lost"
              /\ cur'[c] = cur[c] \/ ServerReadStatus(c) \/ ServerWriteStatus(c)
<1> DEFINE Goal ==
        /\ link'[c] = "up" => link[c] = "up" \/ pc'[c] = "hello"
        /\ pc'[c] \in Serving => pc[c] \in Serving \/ ServerAttach(c)
        /\ pc'[c] \in Off => pc[c] \in Off \/ CleanUpList(c)
        /\ pc[c] = "list" => pc'[c] = "list" \/ ServerSyncList(c)
        /\ \A s \in todo[c] : s \in todo'[c] \/ status'[s] = "lost"
        /\ cur'[c] = cur[c] \/ ServerReadStatus(c) \/ ServerWriteStatus(c)
<1>0. /\ pc \in [Conns -> PCs] /\ todo \in [Conns -> SUBSET Sessions] /\ status \in [Sessions -> Status]
      /\ cur \in [Conns -> {<<>>} \union {<<m>> : m \in UpMsg}] /\ link \in [Conns -> {"up", "down"}]
      /\ pc[c] \notin {"sync", "unmark"} => todo[c] = {}
  BY DEF TypeOK, LinksInv, HandInv
<1>1. ASSUME pc'[c] = pc[c], todo'[c] = todo[c], cur'[c] = cur[c], link'[c] = "up" => link[c] = "up"
      PROVE  Goal
  BY <1>1
<1>2. ASSUME NEW o \in Conns, Handshake(o) PROVE Goal
  BY <1>0, <1>2
  DEF Handshake, ServerHello, ServerNoHello, ServerAttach, agentVars, Serving, Off
<1>3. ASSUME NEW o \in Conns, Synchronise(o) PROVE Goal
  BY <1>0, <1>3
  DEF Synchronise, ServerSyncList, ServerSyncMark, ServerSyncDone, MarkListed, agentVars, Serving, Off
<1>4. ASSUME NEW o \in Conns, Receive(o) PROVE Goal
  <2>1. CASE o # c
    BY <1>0, <1>1, <1>4, <2>1
    DEF Receive, ServerStarted, ServerReadStatus, ServerWriteStatus, connVars, agentVars
  <2>2. CASE o = c
    BY <1>0, <1>4, <2>2
    DEF Receive, ServerStarted, ServerReadStatus, ServerWriteStatus, connVars, agentVars, Serving, Off
  <2> QED BY <2>1, <2>2
<1>5. ASSUME NEW o \in Conns, Disconnect(o) PROVE Goal
  BY <1>0, <1>5
  DEF Disconnect, ServerSeesBreak, CleanUpList, CleanUpMark, CleanUpMarked, CleanUpOffline,
      CleanUpDetach, MarkListed, agentVars, Serving, Off
<1>6. ASSUME NEW o \in Conns, AgentConnect(o) PROVE Goal
  BY <1>0, <1>6 DEF AgentConnect, Serving, Off
<1>7. ASSUME NEW o \in Conns, AgentLoop(o) \/ AgentShells(o) PROVE Goal
  BY <1>0, <1>1, <1>7
  DEF AgentLoop, AgentStart, AgentClose, AgentSeesBreak, AgentEnds, AgentShells, AgentOutput,
      AgentShellExit, connVars
<1>8. ASSUME NEW o \in Conns, AgentCrash(o) \/ LinkBreaks(o) PROVE Goal
  BY <1>0, <1>1, <1>8 DEF AgentCrash, AgentEnds, LinkBreaks, connVars
<1>9. CASE User
  BY <1>1, <1>9 DEF User, CreateCheck, CloseMark, WebSubscribe, connVars, agentVars
<1>10. ASSUME NEW s \in Sessions, CreateRequest(s) \/ CloseSend(s) PROVE Goal
  BY <1>1, <1>10
  DEF CreateRequest, CreateInsert, CreateBind, CreateSend, CreateSendFails, CreateMarkLost,
      CloseSend, connVars, agentVars
<1>11. CASE UNCHANGED vars
  BY <1>1, <1>11 DEF vars, connVars, agentVars
<1> HIDE DEF Goal
<1>12. CASE Connections
  BY <1>12, <1>2, <1>3, <1>4, <1>5, <1>6, <1>7 DEF Connections, Handler, Goal
<1>13. Goal \/ ServerRestart
  BY <1>8, <1>9, <1>10, <1>11, <1>12 DEF Next, Requests, Faults, Goal
<1> QED BY <1>13 DEF Goal

\* A connection that nobody else's listing threatens was so before, or has just
\* attached, or the last listing of its device's other handlers has just been made.
LEMMA ClearStep ==
    ASSUME TypeOK, LinksInv, [Next]_vars, NEW c \in Conns, Clear(c)'
    PROVE  \/ ServerAttach(c)
           \/ \E o \in Conns : o # c /\ ConnDevice[o] = ConnDevice[c] /\ CleanUpList(o)
           \/ Clear(c)
<1>1. /\ link'[c] = "up" /\ pc'[c] \in Serving
      /\ \A o \in Conns : ConnDevice[o] = ConnDevice[c] /\ o # c => pc'[o] \in Off
  BY DEF Clear, Off
<1>2. ~ServerRestart
  BY <1>1 DEF ServerRestart
<1>3. link[c] = "up" /\ (pc[c] \in Serving \/ ServerAttach(c))
  BY <1>1, <1>2, HandlerStep DEF Serving
<1>4. \A o \in Conns : ConnDevice[o] = ConnDevice[c] /\ o # c => pc[o] \in Off \/ CleanUpList(o)
  BY <1>1, <1>2, HandlerStep
<1> QED BY <1>3, <1>4 DEF Clear, Off

\* A request ends with its mark or its send, or with the server; a row gets its
\* owner when it is inserted.
LEMMA DoneStep ==
    ASSUME TypeOK, [Next]_vars, NEW s \in Sessions
    PROVE  /\ creq'[s] = "done" =>
                  creq[s] = "done" \/ CreateMarkLost(s) \/ CreateSend(s) \/ ServerRestart
           /\ owner'[s] = owner[s] \/ CreateInsert(s)
<1> USE DEF dbVars, memVars, connVars, agentVars, reqVars
<1>0. creq \in [Sessions -> CReqs] /\ owner \in [Sessions -> Devices \union {NoDevice}]
  BY DEF TypeOK
<1>1. ASSUME NEW x \in Sessions,
             \/ \E d \in Devices : CreateCheck(x, d)
             \/ CreateBind(x) \/ CreateSendFails(x) \/ CloseMark(x) \/ CloseSend(x)
      PROVE  (creq'[s] = "done" => creq[s] = "done") /\ owner'[s] = owner[s]
  BY <1>0, <1>1 DEF CreateCheck, CreateBind, CreateSendFails, CloseMark, CloseSend
<1>2. ASSUME NEW x \in Sessions, CreateInsert(x)
      PROVE  (creq'[s] = "done" => creq[s] = "done") /\ (owner'[s] = owner[s] \/ x = s)
  BY <1>0, <1>2 DEF CreateInsert
<1>3. ASSUME NEW x \in Sessions, CreateMarkLost(x) \/ CreateSend(x)
      PROVE  (creq'[s] = "done" => creq[s] = "done" \/ x = s) /\ owner'[s] = owner[s]
  BY <1>0, <1>3 DEF CreateMarkLost, CreateSend
<1>4. ASSUME NEW c \in Conns, NEW x \in Sessions,
             MarkListed(c, x) \/ AgentOutput(c, x) \/ AgentShellExit(c, x)
      PROVE  creq' = creq /\ owner' = owner
  BY <1>4 DEF MarkListed, AgentOutput, AgentShellExit
<1>5. ASSUME NEW c \in Conns,
             \/ ServerStarted(c) \/ ServerReadStatus(c) \/ ServerWriteStatus(c)
             \/ AgentConnect(c) \/ AgentStart(c) \/ AgentClose(c) \/ AgentEnds(c)
             \/ ServerSeesBreak(c)
      PROVE  creq' = creq /\ owner' = owner
  BY <1>5 DEF ServerStarted, ServerReadStatus, ServerWriteStatus, AgentConnect, AgentStart,
              AgentClose, AgentEnds, ServerSeesBreak
<1>6. ASSUME ServerRestart PROVE owner' = owner
  BY <1>6 DEF ServerRestart
<1>7. CASE UNCHANGED lifeVars
  BY <1>7 DEF lifeVars
<1> HIDE DEF dbVars, memVars, connVars, agentVars, reqVars
<1> QED BY <1>1, <1>2, <1>3, <1>4, <1>5, <1>6, <1>7, LifeSteps

\* Every step of anyone keeps: a row without a shell is not active, or is going to
\* be written.
LEMMA EndedKept ==
    ASSUME TypeOK, RoutingInv, LinksInv, [Next]_vars, NEW c \in Conns, NEW s \in Sessions,
           ReportInv(c, s), EndedInv(c, s)
    PROVE  EndedInv(c, s)'
<1> SUFFICES ASSUME Bare(c, s)', Clear(c)', owner'[s] = ConnDevice[c], creq'[s] = "done",
                    ~ExitFinal(up'[c], s), cur'[c] # <<Msg("exit", s)>>, pc'[c] # "list",
                    \A o \in Conns : ConnDevice[o] = ConnDevice[c] => s \notin todo'[o],
                    status'[s] \in Active
             PROVE  FALSE
  BY DEF EndedInv, Owns, Holds, ExitFinal, ExitEnds
<1>0. /\ up[c] \in Seq(UpMsg) /\ "exit" \notin Report /\ status \in [Sessions -> Status]
      /\ pc'[c] \in Serving /\ link'[c] = "up" /\ "lost" \notin Active
  BY DEF TypeOK, Report, Clear, Active
<1>1. ~ServerRestart /\ ~CreateInsert(s) /\ ~CreateMarkLost(s)
  BY <1>0 DEF ServerRestart, CreateInsert, CreateMarkLost, TypeOK
<1>2. owner[s] = ConnDevice[c]
  BY <1>1, DoneStep
<1>3. ASSUME NEW o \in Conns, ConnDevice[o] = ConnDevice[c], CleanUpList(o) \/ ServerSyncList(o)
      PROVE  FALSE
  <2>1. todo'[o] = ActiveOf(ConnDevice[c]) /\ status' = status
    BY <1>3 DEF CleanUpList, ServerSyncList, TypeOK, dbVars
  <2>2. s \in ActiveOf(ConnDevice[c])
    BY <1>2, <2>1 DEF ActiveOf
  <2> QED BY <1>3, <2>1, <2>2
<1>4. Clear(c)
  <2>1. ~ServerAttach(c)
    BY DEF ServerAttach, TypeOK
  <2> QED BY <1>3, <2>1, ClearStep
<1>5. creq[s] = "done"
  <2>1. SUFFICES ASSUME CreateSend(s) PROVE FALSE
    BY <1>1, DoneStep
  <2>2. SendOK(s) /\ down' = Push(down, Peer(s), "start", s)
    BY <2>1 DEF CreateSend
  <2>3. Peer(s) \in Conns /\ pc[Peer(s)] \in Serving /\ ConnDevice[Peer(s)] = owner[s]
    BY <2>2, ConnAssumption DEF SendOK, Peer, TypeOK, RoutingInv, RowInv, NoDeadPeer
  <2>4. Peer(s) = c /\ link[c] = "up"
    BY <1>2, <1>4, <2>3 DEF Clear, Serving
  <2>5. down'[c] = Append(down[c], Msg("start", s)) /\ Msg("start", s) \in DownMsg
    BY <2>2, <2>4, SendShape
  <2>6. down[c] \in Seq(DownMsg)
    BY DEF TypeOK
  <2>7. Has(down'[c], Msg("start", s))
    BY <2>5, <2>6, HasAppend
  <2> QED BY <2>7 DEF Bare, Has
<1>6. /\ Bare(c, s)
      /\ \/ \E m \in UpMsg : /\ up'[c] = Append(up[c], m)
                              /\ m # Msg("exit", s) /\ \A k \in Report : m # Msg(k, s)
         \/ up'[c] = up[c]
         \/ /\ up[c] # <<>> /\ up'[c] = Tail(up[c])
            /\ ServerStarted(c) \/ ServerReadStatus(c)
  <2>1. pc'[c] # "hello"
    BY <1>0 DEF Serving
  <2>2. \A m \in UpMsg : up'[c] = Append(up[c], m) => m # Msg("exit", s)
    BY <1>0, EndsAppend DEF ExitFinal
  <2> QED BY <2>1, <2>2, BareStep
<1>7. ~ExitFinal(up[c], s)
  <2>1. SUFFICES ASSUME ExitFinal(up[c], s) PROVE FALSE
    OBVIOUS
  <2>2. ASSUME NEW m \in UpMsg, up'[c] = Append(up[c], m), \A k \in Report : m # Msg(k, s) PROVE FALSE
    BY <1>0, <2>1, <2>2, EndsAppend DEF ExitFinal, Tells
  <2>3. ASSUME up[c] # <<>>, up'[c] = Tail(up[c]), ServerStarted(c) \/ ServerReadStatus(c) PROVE FALSE
    <3>1. Head(up[c]) = Msg("exit", s)
      BY <1>0, <2>1, <2>3, EndsTail DEF ExitFinal
    <3>2. Head(up[c]).t = "exit" /\ Head(up[c]).s = s
      BY <3>1 DEF Msg
    <3>3. cur'[c] = <<Head(up[c])>>
      BY <1>2, <2>3, <3>2 DEF ServerStarted, ServerReadStatus, Owns, TypeOK
    <3> QED BY <3>1, <3>3
  <2> QED BY <1>6, <2>1, <2>2, <2>3
<1>8. status[s] \in Active
  <2>1. SUFFICES ASSUME status[s] \notin Active PROVE FALSE
    OBVIOUS
  <2>2. PICK o \in Conns : /\ Owns(o, s) /\ pc[o] \in {"read", "write"}
                           /\ Has(up[o], Msg("started", s)) \/ Holds(o, Msg("stdout", s))
    BY <1>1, <2>1, RunStep
  <2>3. o = c
    BY <1>2, <1>4, <2>2 DEF Clear, Owns
  <2>4. Reported(c, s)
    BY <2>2, <2>3 DEF Reported, Report
  <2> QED BY <1>6, <1>7, <2>4 DEF ReportInv
<1>9. pc[c] # "list"
  BY <1>1, <1>3, HandlerStep
<1>10. ASSUME NEW o \in Conns, ConnDevice[o] = ConnDevice[c] PROVE s \notin todo[o]
  BY <1>0, <1>1, <1>10, HandlerStep
<1>11. ~Holds(c, Msg("exit", s))
  <2>1. SUFFICES ASSUME cur[c] = <<Msg("exit", s)>> PROVE FALSE
    BY DEF Holds
  <2>2. pc[c] = "write"
    BY <2>1 DEF LinksInv, HandInv
  <2>3. ServerWriteStatus(c)
    BY <1>1, <2>1, <2>2, HandlerStep DEF ServerReadStatus
  <2>4. cur[c][1].t = "exit" /\ cur[c][1].s = s
    BY <2>1 DEF Msg
  <2>5. status'[s] = AfterExit(rd[c])
    BY <1>0, <2>3, <2>4 DEF ServerWriteStatus
  <2> QED BY <2>5 DEF AfterExit, Active
<1>12. Owns(c, s)
  BY <1>2 DEF Owns
<1> QED BY <1>4, <1>5, <1>6, <1>7, <1>8, <1>9, <1>10, <1>11, <1>12 DEF EndedInv

-----------------------------------------------------------------------------
(* Rows and shells *)

\* For every set of devices, connections and sessions: the correction of a row
\* that is wrong is on its way, as a message, a request, a listing or a handler
\* that holds it.  For a row that says starting or running without a shell this
\* holds of every live connection that no other handler of the device is going
\* to list; for a shell whose row does not say running, of a connection that is
\* attached and whose device has no other handler past its hello.  A shell whose
\* connection an older handler has detached is left out: nothing corrects its row.
THEOREM SettleCorrect == Spec => []SettleInv
<1>1. ASSUME Init PROVE SettleInv
  <2>1. ASSUME NEW c \in Conns
        PROVE  /\ link[c] = "down" /\ ~alive[c] /\ ptys[c] = {} /\ up[c] = <<>> /\ down[c] = <<>>
               /\ pc[c] = "gone" /\ cur[c] = <<>> /\ todo[c] = {}
    BY <1>1, <2>1 DEF Init
  <2>2. LinksInv
    BY <2>1 DEF LinksInv, LinkInv, HandInv
  <2>3. NewsInv
    <3>1. ASSUME NEW c \in Conns, NEW s \in Sessions
          PROVE  /\ s \notin ptys[c] /\ ~Has(down[c], Msg("start", s))
                 /\ ~Has(up[c], Msg("started", s)) /\ ~Has(up[c], Msg("stdout", s))
      BY <2>1, NoneOnEmpty
    <3>2. ASSUME NEW c \in Conns, NEW m PROVE ~Holds(c, m)
      BY <2>1 DEF Holds
    <3> QED BY <3>1, <3>2 DEF NewsInv, NewInv, RouteInv
  <2>4. ShellsInv /\ EndsInv
    BY <2>1 DEF ShellsInv, EndsInv, ShellInv, StartInv, ReportInv, EndedInv, Sole, Bare
  <2> QED BY <2>2, <2>3, <2>4 DEF SettleInv
<1>2. TypeOK /\ TypeOK' /\ RoutingInv /\ SettleInv /\ [Next]_vars => SettleInv'
  <2> SUFFICES ASSUME TypeOK, TypeOK', RoutingInv, LinksInv, NewsInv, ShellsInv, EndsInv, [Next]_vars
               PROVE  LinksInv' /\ NewsInv' /\ ShellsInv' /\ EndsInv'
    BY DEF SettleInv
  <2>1. LinksInv'
    BY LinksKept
  <2>2. NewsInv'
    BY NewsKept DEF NewsInv
  <2>3. ASSUME NEW c \in Conns, NEW s \in Sessions
        PROVE  ShellInv(c, s)'
    <3>1. CASE ~(Sole(c)' /\ Owns(c, s)')
      BY <3>1 DEF ShellInv
    <3>2. CASE Sole(c)' /\ Owns(c, s)' /\ Sole(c)
      BY <3>2, ShellsKept
    <3>3. CASE Sole(c)' /\ Owns(c, s)' /\ ServerAttach(c)
      BY <3>3, AttachShells
    <3> QED BY <3>1, <3>2, <3>3, SoleKept
  <2>4. ASSUME NEW c \in Conns, NEW s \in Sessions
        PROVE  StartInv(c, s)' /\ ReportInv(c, s)' /\ EndedInv(c, s)'
    <3>1. NewInv(c, s) /\ StartInv(c, s) /\ ReportInv(c, s) /\ EndedInv(c, s)
      BY DEF NewsInv, ShellsInv, EndsInv
    <3> QED BY <2>1, <3>1, StartKept, ReportKept, EndedKept
  <2>5. ShellsInv' /\ EndsInv'
    BY <2>3, <2>4 DEF ShellsInv, EndsInv
  <2> QED BY <2>1, <2>2, <2>5
<1> QED BY <1>1, <1>2, TypeCorrect, RoutingCorrect, PTL DEF Spec

\* Once everything in progress about a session has settled on the device's only
\* connection, its row does not say starting, says running only if the shell
\* exists, and says running if the shell exists and the connection is attached:
\* for every set of devices, connections and sessions, also where old and new
\* connections overlapped before, agents crashed and the server restarted.
THEOREM SettledCorrect == Spec => []SettledAgrees
<1>1. ASSUME TypeOK, RoutingInv, SettleInv, NEW c \in Conns, NEW s \in Sessions, Settled(c, s)
      PROVE  /\ status[s] # "starting"
             /\ status[s] = "running" => s \in ptys[c]
             /\ s \in ptys[c] /\ agents[ConnDevice[c]] = c => status[s] = "running"
  <2>1. /\ Owns(c, s) /\ pc[c] = "read" /\ link[c] = "up" /\ creq[s] = "done" /\ clreq[s] = "idle"
        /\ \A o \in Conns : ConnDevice[o] = ConnDevice[c] /\ o # c => pc[o] = "gone"
    BY <1>1 DEF Settled, Owns, Lone
  <2>2. \A k : ~Has(up[c], Msg(k, s)) /\ ~Has(down[c], Msg(k, s))
    BY <1>1 DEF Settled, Has, Msg
  <2>3. ~ExitFinal(up[c], s)
    BY <1>1 DEF Settled, ExitFinal, ExitEnds, Msg
  <2>4. cur[c] = <<>> /\ \A o \in Conns : ConnDevice[o] = ConnDevice[c] => todo[o] = {}
    BY <1>1, <2>1 DEF SettleInv, LinksInv, HandInv
  <2>5. ~Holds(c, Msg("exit", s))
    BY <2>4 DEF Holds
  <2>6. s \in ptys[c] /\ agents[ConnDevice[c]] = c => status[s] = "running"
    <3>1. agents[ConnDevice[c]] = c => Sole(c)
      BY <2>1 DEF Sole
    <3> QED BY <1>1, <2>1, <2>2, <3>1 DEF SettleInv, ShellsInv, ShellInv
  <2>7. s \in ptys[c] => status[s] # "starting"
    BY <1>1, <2>1, <2>2 DEF SettleInv, ShellsInv, StartInv
  <2>8. s \notin ptys[c] => status[s] \notin Active
    <3>1. Clear(c)
      BY <2>1 DEF Clear, Serving
    <3>2. s \notin ptys[c] => Bare(c, s)
      BY <2>1, <2>2 DEF Bare
    <3>3. EndedInv(c, s)
      BY <1>1 DEF SettleInv, EndsInv
    <3> QED BY <2>1, <2>3, <2>4, <2>5, <3>1, <3>2, <3>3 DEF EndedInv
  <2> QED BY <2>6, <2>7, <2>8 DEF Active
<1>2. TypeOK /\ RoutingInv /\ SettleInv => SettledAgrees
  BY <1>1 DEF SettledAgrees
<1> QED BY <1>2, TypeCorrect, RoutingCorrect, SettleCorrect, PTL
-----------------------------------------------------------------------------
(* The life of a session: SessionControl implements SessionLife.             *)

\* No start message stands twice in a queue.
Single(q) == \A i, j \in 1..Len(q) : q[i].t = "start" /\ q[i] = q[j] => i = j

\* A row that exists has an owner, and a create request past its insert has a row.
RowLife(s) ==
    /\ status[s] = "none" <=> owner[s] = NoDevice
    /\ creq[s] = "checked" => target[s] # NoDevice
    /\ creq[s] \notin {"idle", "checked"} => owner[s] # NoDevice

\* A start of s is on the way to one agent, and a shell of s is at one.
PlaceLife(s) ==
    \A c, o \in Conns :
        /\ Has(down[c], Msg("start", s)) /\ Has(down[o], Msg("start", s)) => c = o
        /\ s \in ptys[c] /\ s \in ptys[o] => c = o

\* Once the shell was spawned no start is left that could spawn another one, and
\* nobody speaks of a shell that was not spawned.
BegunLife(c, s) ==
    /\ s \in begun => creq[s] = "done" /\ ~Has(down[c], Msg("start", s))
    /\ s \in ptys[c] => s \in begun
    /\ Has(up[c], Msg("started", s)) => s \in begun
    /\ Has(up[c], Msg("stdout", s)) => s \in begun
    /\ Holds(c, Msg("stdout", s)) => s \in begun

\* A handler has read a status of a row that exists.
HandLife(c) == Single(down[c]) /\ (cur[c] # <<>> => rd[c] # "none")

LifeInv ==
    /\ \A s \in Sessions : RowLife(s) /\ PlaceLife(s)
    /\ \A c \in Conns : HandLife(c)
    /\ \A c \in Conns, s \in Sessions : BegunLife(c, s)

\* Append keeps a queue single unless it repeats a start.
LEMMA SingleAppend ==
    ASSUME NEW q \in Seq(DownMsg), Single(q), NEW x \in DownMsg, x.t = "start" => ~Has(q, x)
    PROVE  Single(Append(q, x))
<1> DEFINE a == Append(q, x)
<1>1. /\ Len(a) = Len(q) + 1 /\ Len(q) \in Nat
      /\ \A i \in 1..Len(q) : a[i] = q[i]
      /\ a[Len(q) + 1] = x
  OBVIOUS
<1> HIDE DEF a
<1>2. \A i \in 1..Len(a) : i \in 1..Len(q) \/ i = Len(q) + 1
  BY <1>1
<1>3. ASSUME NEW i \in 1..Len(a), NEW j \in 1..Len(a), a[i].t = "start", a[i] = a[j]
      PROVE  i = j
  <2>1. CASE i \in 1..Len(q) /\ j \in 1..Len(q)
    BY <1>1, <1>3, <2>1 DEF Single
  <2>2. CASE i \in 1..Len(q) /\ j = Len(q) + 1
    BY <1>1, <1>3, <2>2 DEF Has
  <2>3. CASE i = Len(q) + 1 /\ j \in 1..Len(q)
    BY <1>1, <1>3, <2>3 DEF Has
  <2> QED BY <1>2, <2>1, <2>2, <2>3
<1> QED BY <1>3 DEF a, Single

\* A start that was taken off a single queue is not in the rest.
LEMMA SingleTail ==
    ASSUME NEW q \in Seq(DownMsg), q # <<>>, Single(q)
    PROVE  Single(Tail(q)) /\ (Head(q).t = "start" => ~Has(Tail(q), Head(q)))
<1> DEFINE u == Tail(q)
<1>1. /\ Len(q) \in Nat /\ Len(u) = Len(q) - 1 /\ Head(q) = q[1] /\ 1 \in 1..Len(q)
      /\ \A i \in 1..Len(u) : i + 1 \in 1..Len(q) /\ u[i] = q[i + 1]
  BY TailIs
<1> HIDE DEF u
<1>2. \A i, j \in 1..Len(u) : i + 1 = j + 1 => i = j
  BY <1>1
<1>3. Single(u)
  BY <1>1, <1>2 DEF Single
<1>4. \A i \in 1..Len(u) : i + 1 # 1
  BY <1>1
<1>5. ASSUME Head(q).t = "start" PROVE ~Has(u, Head(q))
  BY <1>1, <1>4, <1>5 DEF Single, Has
<1> QED BY <1>3, <1>5 DEF u

\* A row that somebody names exists.
LEMMA RowIs ==
    ASSUME TypeOK, LifeInv, NEW c \in Conns, NEW s \in Sessions, Owns(c, s)
    PROVE  status[s] # "none"
BY ConnAssumption DEF LifeInv, RowLife, Owns

\* What a step does to a row: an insert, or another status for a row that exists,
\* which is running only if the shell was spawned.
LEMMA RowStep ==
    ASSUME TypeOK, SettleInv, LifeInv, [Next]_vars
    PROVE  \/ UNCHANGED <<status, owner>>
           \/ \E s \in Sessions : CreateInsert(s)
           \/ /\ UNCHANGED <<owner, ptys, begun>>
              /\ \E s \in Sessions, st \in {"running", "lost", "exited", "closed"} :
                     /\ status[s] # "none" /\ (st = "running" => s \in begun)
                     /\ status' = [status EXCEPT ![s] = st]
<1> USE DEF dbVars, memVars, connVars, agentVars, reqVars
<1> DEFINE Written == /\ UNCHANGED <<owner, ptys, begun>>
                      /\ \E s \in Sessions, st \in {"running", "lost", "exited", "closed"} :
                             /\ status[s] # "none" /\ (st = "running" => s \in begun)
                             /\ status' = [status EXCEPT ![s] = st]
<1>1. ASSUME NEW s \in Sessions, CreateMarkLost(s) PROVE Written
  <2>1. status[s] # "none"
    BY <1>1 DEF CreateMarkLost, LifeInv, RowLife
  <2> QED BY <1>1, <2>1 DEF CreateMarkLost
<1>2. ASSUME NEW s \in Sessions, CloseMark(s) PROVE Written
  BY <1>2 DEF CloseMark
<1>3. ASSUME NEW c \in Conns, NEW s \in Sessions, MarkListed(c, s) PROVE Written
  <2>1. Owns(c, s)
    BY <1>3 DEF MarkListed, SettleInv, LinksInv, HandInv
  <2> QED BY <1>3, <2>1, RowIs DEF MarkListed
<1>4. ASSUME NEW c \in Conns, ServerStarted(c) PROVE Written \/ UNCHANGED <<status, owner>>
  <2> DEFINE m == Head(up[c])
  <2>1. up[c] # <<>> /\ up[c] \in Seq(UpMsg) /\ m.t = "started"
    BY <1>4 DEF ServerStarted, TypeOK
  <2>2. m \in UpMsg /\ Has(up[c], m)
    BY <2>1, HeadElement, HasTail
  <2>3. m = Msg("started", m.s) /\ m.s \in Sessions
    BY <2>1, <2>2, MsgIs DEF UpMsg
  <2>4. m.s \in begun
    <3>1. Has(up[c], Msg("started", m.s))
      BY <2>2, <2>3
    <3> HIDE DEF m
    <3> QED BY <2>3, <3>1 DEF LifeInv, BegunLife
  <2>5. UNCHANGED <<owner, ptys, begun>>
    BY <1>4 DEF ServerStarted
  <2>6. CASE Owns(c, m.s)
    <3>1. status' = [status EXCEPT ![m.s] = "running"]
      BY <1>4, <2>6 DEF ServerStarted
    <3>2. status[m.s] # "none"
      BY <2>3, <2>6, RowIs
    <3> QED BY <2>3, <2>4, <2>5, <3>1, <3>2
  <2>7. CASE ~Owns(c, m.s)
    BY <1>4, <2>7 DEF ServerStarted
  <2> QED BY <2>6, <2>7
<1>5. ASSUME NEW c \in Conns, ServerWriteStatus(c) PROVE Written
  <2> DEFINE m == cur[c][1]
             st == IF m.t = "stdout" THEN AfterStdout(rd[c]) ELSE AfterExit(rd[c])
  <2>1. cur[c] # <<>> /\ m.t \in {"stdout", "exit"} /\ Owns(c, m.s)
    BY <1>5 DEF ServerWriteStatus, SettleInv, LinksInv, HandInv
  <2>2. m \in UpMsg /\ cur[c] = <<m>>
    BY <2>1 DEF TypeOK
  <2>3. m = Msg(m.t, m.s) /\ m.s \in Sessions
    BY <2>2, MsgIs DEF UpMsg
  <2>4. rd[c] \in Status /\ rd[c] # "none"
    BY <2>1 DEF TypeOK, LifeInv, HandLife
  <2>5. UNCHANGED <<owner, ptys, begun>> /\ status' = [status EXCEPT ![m.s] = st]
    BY <1>5 DEF ServerWriteStatus
  <2>6. st \in {"running", "lost", "exited", "closed"} /\ (st = "running" => m.t = "stdout")
    BY <2>4 DEF Status, Active, AfterStdout, AfterExit
  <2>7. m.t = "stdout" => m.s \in begun
    <3>1. m.t = "stdout" => Holds(c, Msg("stdout", m.s))
      BY <2>2, <2>3 DEF Holds
    <3> HIDE DEF m
    <3> QED BY <2>3, <3>1 DEF LifeInv, BegunLife
  <2>8. status[m.s] # "none"
    BY <2>1, <2>3, RowIs
  <2> HIDE DEF m, st
  <2> QED BY <2>3, <2>5, <2>6, <2>7, <2>8
<1>6. ASSUME NEW x \in Sessions, NEW d \in Devices, CreateCheck(x, d)
      PROVE  UNCHANGED <<status, owner>>
  BY <1>6 DEF CreateCheck
<1>7. ASSUME NEW x \in Sessions,
             CreateBind(x) \/ CreateSend(x) \/ CreateSendFails(x) \/ CloseSend(x)
      PROVE  UNCHANGED <<status, owner>>
  BY <1>7 DEF CreateBind, CreateSend, CreateSendFails, CloseSend
<1>8. ASSUME NEW c \in Conns, NEW x \in Sessions, AgentOutput(c, x) \/ AgentShellExit(c, x)
      PROVE  UNCHANGED <<status, owner>>
  BY <1>8 DEF AgentOutput, AgentShellExit
<1>9. ASSUME NEW c \in Conns,
             \/ ServerReadStatus(c) \/ AgentConnect(c) \/ ServerSeesBreak(c)
             \/ AgentStart(c) \/ AgentClose(c) \/ AgentEnds(c)
      PROVE  UNCHANGED <<status, owner>>
  BY <1>9 DEF ServerReadStatus, AgentConnect, AgentStart, AgentClose, AgentEnds, ServerSeesBreak
<1>10. ASSUME ServerRestart PROVE UNCHANGED <<status, owner>>
  BY <1>10 DEF ServerRestart
<1>11. CASE UNCHANGED lifeVars
  BY <1>11 DEF lifeVars
<1> HIDE DEF dbVars, memVars, connVars, agentVars, reqVars
<1> QED
  BY <1>1, <1>2, <1>3, <1>4, <1>5, <1>6, <1>7, <1>8, <1>9, <1>10, <1>11, LifeSteps

\* An insert makes a row where none was, for the device that the request names.
LEMMA InsertIs ==
    ASSUME TypeOK, RoutingInv, LifeInv, NEW s \in Sessions, CreateInsert(s)
    PROVE  /\ status[s] = "none" /\ target[s] \in Devices
           /\ status' = [status EXCEPT ![s] = "starting"]
           /\ owner' = [owner EXCEPT ![s] = target[s]]
           /\ UNCHANGED <<ptys, begun>>
<1>1. creq[s] = "checked" /\ owner[s] = NoDevice /\ target[s] # NoDevice
  BY DEF CreateInsert, RoutingInv, RowInv, LifeInv, RowLife
<1> QED BY <1>1 DEF CreateInsert, TypeOK, LifeInv, RowLife, agentVars

\* The start that an agent takes was the only one of its session, and no agent
\* had a shell of it before.
LEMMA StartOnce ==
    ASSUME TypeOK, RoutingInv, SettleInv, LifeInv, NEW c \in Conns, AgentStart(c)
    PROVE  \E s \in Sessions :
               /\ Owns(c, s) /\ s \notin begun /\ creq[s] = "done"
               /\ \A o \in Conns : s \notin ptys[o] /\ ~Has(down'[o], Msg("start", s))
               /\ ptys' = [ptys EXCEPT ![c] = @ \union {s}] /\ begun' = begun \union {s}
               /\ UNCHANGED <<status, owner, creq>>
<1>1. PICK s \in Sessions :
          /\ Has(down[c], Msg("start", s)) /\ Head(down[c]) = Msg("start", s)
          /\ down[c] # <<>> /\ down' = [down EXCEPT ![c] = Tail(@)]
          /\ ptys' = [ptys EXCEPT ![c] = @ \union {s}] /\ begun' = begun \union {s}
          /\ UNCHANGED <<status, owner, creq>>
  BY StartIs
<1>2. s \notin begun
  BY <1>1 DEF LifeInv, BegunLife
<1>3. \A o \in Conns : s \notin ptys[o]
  BY <1>2 DEF LifeInv, BegunLife
<1>4. creq[s] = "done"
  BY <1>1 DEF SettleInv, NewsInv, NewInv
<1>5. Owns(c, s)
  BY <1>1 DEF RoutingInv, OnlyOnOwner, Has, Msg
<1>6. ASSUME NEW o \in Conns PROVE ~Has(down'[o], Msg("start", s))
  <2>1. CASE o = c
    <3>1. down[c] \in Seq(DownMsg) /\ Single(down[c]) /\ down'[c] = Tail(down[c])
      BY <1>1 DEF TypeOK, LifeInv, HandLife
    <3>2. Head(down[c]).t = "start"
      BY <1>1 DEF Msg
    <3> QED BY <1>1, <2>1, <3>1, <3>2, SingleTail
  <2>2. CASE o # c
    <3>1. down'[o] = down[o]
      BY <1>1, <2>2 DEF TypeOK
    <3>2. ~Has(down[o], Msg("start", s))
      BY <1>1, <2>2 DEF LifeInv, PlaceLife
    <3> QED BY <3>1, <3>2
  <2> QED BY <2>1, <2>2
<1> QED BY <1>1, <1>2, <1>3, <1>4, <1>5, <1>6

LEMMA LifeInit == Init => LifeInv
<1> SUFFICES ASSUME Init PROVE LifeInv
  OBVIOUS
<1>1. \A c \in Conns : ptys[c] = {} /\ up[c] = <<>> /\ down[c] = <<>> /\ cur[c] = <<>>
  BY DEF Init
<1>2. \A s \in Sessions : RowLife(s)
  BY DEF Init, RowLife
<1>3. \A s \in Sessions : PlaceLife(s)
  BY <1>1, NoneOnEmpty DEF PlaceLife
<1>4. \A c \in Conns : HandLife(c)
  BY <1>1 DEF HandLife, Single
<1>5. ASSUME NEW c \in Conns, NEW s \in Sessions PROVE BegunLife(c, s)
  <2>1. s \notin begun
    BY DEF Init
  <2>2. /\ ~Has(up[c], Msg("started", s)) /\ ~Has(up[c], Msg("stdout", s))
    BY <1>1, NoneOnEmpty
  <2>3. ~Holds(c, Msg("stdout", s))
    BY <1>1 DEF Holds
  <2> QED BY <1>1, <2>1, <2>2, <2>3 DEF BegunLife
<1> QED BY <1>2, <1>3, <1>4, <1>5 DEF LifeInv

\* Rows keep their owners, and create requests have theirs.
LEMMA RowKept ==
    ASSUME TypeOK, TypeOK', RoutingInv, SettleInv, LifeInv, [Next]_vars, NEW s \in Sessions
    PROVE  RowLife(s)'
<1>1. RowLife(s)
  BY DEF LifeInv
<1>2. /\ creq'[s] = "checked" => (creq[s] = "checked" /\ target'[s] = target[s])
                                 \/ target'[s] \in Devices
      /\ creq'[s] \notin {"idle", "checked"} => creq[s] \notin {"idle", "checked"} \/ CreateInsert(s)
  BY ReqStep
<1>3. /\ status'[s] = "none" <=> owner'[s] = NoDevice
      /\ owner[s] # NoDevice => owner'[s] # NoDevice
      /\ CreateInsert(s) => owner'[s] # NoDevice
  <2>1. CASE UNCHANGED <<status, owner>> /\ ~CreateInsert(s)
    BY <1>1, <2>1 DEF RowLife
  <2>2. ASSUME NEW x \in Sessions, CreateInsert(x)
        PROVE  /\ status'[s] = "none" <=> owner'[s] = NoDevice
               /\ owner[s] # NoDevice => owner'[s] # NoDevice
               /\ x = s => owner'[s] # NoDevice
    <3>1. /\ target[x] \in Devices /\ status' = [status EXCEPT ![x] = "starting"]
          /\ owner' = [owner EXCEPT ![x] = target[x]]
      BY <2>2, InsertIs
    <3> QED BY <1>1, <3>1, ConnAssumption DEF TypeOK, RowLife
  <2>3. ASSUME UNCHANGED owner, NEW x \in Sessions,
               NEW st \in {"running", "lost", "exited", "closed"},
               status[x] # "none", status' = [status EXCEPT ![x] = st]
        PROVE  status'[s] = "none" <=> owner'[s] = NoDevice
    BY <1>1, <2>3 DEF TypeOK, RowLife
  <2>4. CASE CreateInsert(s)
    BY <2>2, <2>4
  <2>5. CASE ~CreateInsert(s)
    BY <2>1, <2>2, <2>3, <2>5, RowStep
  <2> QED BY <2>4, <2>5
<1> QED BY <1>1, <1>2, <1>3, ConnAssumption DEF RowLife

\* Starts and shells of a session stay in one place.
LEMMA PlaceKept ==
    ASSUME TypeOK, TypeOK', RoutingInv, SettleInv, LifeInv, [Next]_vars, NEW s \in Sessions
    PROVE  PlaceLife(s)'
<1>1. ASSUME NEW c \in Conns, NEW o \in Conns,
             Has(down'[c], Msg("start", s)), Has(down'[o], Msg("start", s))
      PROVE  c = o
  <2>1. /\ Has(down[c], Msg("start", s)) \/ (CreateSend(s) /\ c = Peer(s))
        /\ Has(down[o], Msg("start", s)) \/ (CreateSend(s) /\ o = Peer(s))
    BY <1>1, StartStep DEF Has
  <2>2. CreateSend(s) => ~Has(down[c], Msg("start", s)) /\ ~Has(down[o], Msg("start", s))
    BY DEF CreateSend, SettleInv, NewsInv, NewInv
  <2> QED BY <2>1, <2>2 DEF LifeInv, PlaceLife
<1>2. ASSUME NEW c \in Conns, NEW o \in Conns, s \in ptys'[c], s \in ptys'[o]
      PROVE  c = o
  <2>1. CASE UNCHANGED ptys
    BY <1>2, <2>1 DEF LifeInv, PlaceLife
  <2>2. ASSUME NEW a \in Conns, AgentStart(a) PROVE c = o
    <3>1. PICK x \in Sessions : /\ \A b \in Conns : x \notin ptys[b]
                                /\ ptys' = [ptys EXCEPT ![a] = @ \union {x}]
      BY <2>2, StartOnce
    <3>2. CASE x = s
      BY <1>2, <3>1, <3>2 DEF TypeOK
    <3>3. CASE x # s
      <4>1. s \in ptys[c] /\ s \in ptys[o]
        BY <1>2, <3>1, <3>3 DEF TypeOK
      <4> QED BY <4>1 DEF LifeInv, PlaceLife
    <3> QED BY <3>2, <3>3
  <2>3. ASSUME NEW a \in Conns, NEW gone \in SUBSET Sessions, ptys' = [ptys EXCEPT ![a] = @ \ gone]
        PROVE  c = o
    <3>1. s \in ptys[c] /\ s \in ptys[o]
      BY <1>2, <2>3 DEF TypeOK
    <3> QED BY <3>1 DEF LifeInv, PlaceLife
  <2> QED BY <2>1, <2>2, <2>3, ShellStep
<1> QED BY <1>1, <1>2 DEF PlaceLife, Has

LEMMA HandKept ==
    ASSUME TypeOK, TypeOK', RoutingInv, SettleInv, LifeInv, [Next]_vars, NEW c \in Conns
    PROVE  HandLife(c)'
<1>1. down[c] \in Seq(DownMsg) /\ Single(down[c])
  BY DEF TypeOK, LifeInv, HandLife
<1>2. Single(down'[c])
  <2>1. CASE down'[c] = <<>>
    BY <2>1 DEF Single
  <2>2. CASE down[c] # <<>> /\ down'[c] = Tail(down[c])
    BY <1>1, <2>2, SingleTail
  <2>3. ASSUME NEW s \in Sessions, down'[c] = Append(down[c], Msg("close", s))
        PROVE  Single(down'[c])
    <3>1. Msg("close", s) \in DownMsg /\ Msg("close", s).t # "start"
      BY DEF DownMsg, Msg
    <3> QED BY <1>1, <2>3, <3>1, SingleAppend
  <2>4. ASSUME NEW s \in Sessions, CreateSend(s), down'[c] = Append(down[c], Msg("start", s))
        PROVE  Single(down'[c])
    <3>1. Msg("start", s) \in DownMsg
      BY DEF DownMsg, Msg
    <3>2. ~Has(down[c], Msg("start", s))
      BY <2>4 DEF CreateSend, SettleInv, NewsInv, NewInv
    <3> QED BY <1>1, <2>4, <3>1, <3>2, SingleAppend
  <2>5. CASE down'[c] = down[c]
    BY <1>1, <2>5
  <2> QED BY <2>1, <2>2, <2>3, <2>4, <2>5, DownStep
<1>3. cur'[c] # <<>> => rd'[c] # "none"
  <2>1. CASE cur'[c] = cur[c] /\ rd'[c] = rd[c]
    BY <2>1 DEF LifeInv, HandLife
  <2>2. ASSUME NEW m \in UpMsg, Owns(c, m.s), rd'[c] = status[m.s]
        PROVE  rd'[c] # "none"
    <3>1. m.s \in Sessions
      BY DEF UpMsg
    <3> QED BY <2>2, <3>1, RowIs
  <2> QED BY <2>1, <2>2, HandStep
<1> QED BY <1>2, <1>3 DEF HandLife, Single

LEMMA BegunKept ==
    ASSUME TypeOK, TypeOK', RoutingInv, SettleInv, LifeInv, [Next]_vars,
           NEW c \in Conns, NEW s \in Sessions
    PROVE  BegunLife(c, s)'
<1>1. BegunLife(c, s)
  BY DEF LifeInv
<1>2. begun \subseteq begun' /\ (s \in ptys'[c] => s \in begun')
  <2>1. CASE UNCHANGED <<ptys, begun>>
    BY <1>1, <2>1 DEF BegunLife
  <2>2. ASSUME NEW a \in Conns, AgentStart(a)
        PROVE  begun \subseteq begun' /\ (s \in ptys'[c] => s \in begun')
    <3>1. PICK x \in Sessions : /\ ptys' = [ptys EXCEPT ![a] = @ \union {x}]
                                /\ begun' = begun \union {x}
      BY <2>2, StartOnce
    <3> QED BY <1>1, <3>1 DEF TypeOK, BegunLife
  <2>3. ASSUME begun' = begun, NEW a \in Conns, NEW gone \in SUBSET Sessions,
               ptys' = [ptys EXCEPT ![a] = @ \ gone]
        PROVE  s \in ptys'[c] => s \in begun'
    BY <1>1, <2>3 DEF TypeOK, BegunLife
  <2> QED BY <2>1, <2>2, <2>3, ShellStep
<1>3. s \in begun' => creq'[s] = "done" /\ ~Has(down'[c], Msg("start", s))
  <2>1. CASE s \in begun
    <3>1. creq[s] = "done" /\ ~Has(down[c], Msg("start", s))
      BY <1>1, <2>1 DEF BegunLife
    <3>2. creq'[s] = "done" /\ ~CreateSend(s)
      BY <3>1, ReqStep DEF CreateSend
    <3> QED BY <3>1, <3>2, StartStep DEF Has
  <2>2. CASE s \in begun' /\ s \notin begun
    <3>1. PICK a \in Conns : AgentStart(a)
      BY <2>2, ShellStep
    <3>2. PICK x \in Sessions : /\ creq[x] = "done"
                                /\ \A o \in Conns : ~Has(down'[o], Msg("start", x))
                                /\ begun' = begun \union {x} /\ UNCHANGED creq
      BY <3>1, StartOnce
    <3> QED BY <2>2, <3>2
  <2> QED BY <2>1, <2>2
<1>4. ASSUME NEW k \in {"started", "stdout"}, Has(up'[c], Msg(k, s))
      PROVE  s \in begun'
  <2>1. Has(up[c], Msg(k, s)) \/ s \in ptys[c] \/ s \in ptys'[c]
    BY <1>4, UpStep DEF Has
  <2>2. Has(up[c], Msg(k, s)) \/ s \in ptys[c] => s \in begun
    BY <1>1 DEF BegunLife
  <2> QED BY <1>2, <2>1, <2>2
<1>5. ASSUME cur'[c] = <<Msg("stdout", s)>> PROVE s \in begun'
  <2>1. CASE cur'[c] = cur[c]
    BY <1>1, <1>2, <1>5, <2>1 DEF BegunLife, Holds
  <2>2. ASSUME NEW m \in UpMsg, Has(up[c], m), cur'[c] = <<m>>
        PROVE  s \in begun'
    <3>1. m = Msg("stdout", s)
      BY <1>5, <2>2
    <3> QED BY <1>1, <1>2, <2>2, <3>1 DEF BegunLife
  <2>3. cur'[c] # <<>>
    BY <1>5
  <2> QED BY <2>1, <2>2, <2>3, HandStep
<1>6. /\ Has(up'[c], Msg("started", s)) => s \in begun'
      /\ Has(up'[c], Msg("stdout", s)) => s \in begun'
  BY <1>4
<1> QED BY <1>2, <1>3, <1>5, <1>6 DEF BegunLife, Holds, Has

LEMMA LifeKept ==
    TypeOK /\ TypeOK' /\ RoutingInv /\ SettleInv /\ LifeInv /\ [Next]_vars => LifeInv'
BY RowKept, PlaceKept, HandKept, BegunKept DEF LifeInv

LEMMA InitLives == Init => Life!Init
BY DEF Init, Life!Init, ShellsOf

\* The spawn of a shell is a Spawn.
LEMMA StartLives ==
    ASSUME TypeOK, RoutingInv, SettleInv, LifeInv, NEW c \in Conns, AgentStart(c)
    PROVE  \E s \in Sessions : Life!Spawn(s, c)
<1>1. PICK s \in Sessions :
          /\ Owns(c, s) /\ s \notin begun
          /\ \A o \in Conns : s \notin ptys[o]
          /\ ptys' = [ptys EXCEPT ![c] = @ \union {s}] /\ begun' = begun \union {s}
          /\ UNCHANGED <<status, owner>>
  BY StartOnce
<1>2. ASSUME NEW x \in Sessions
      PROVE  ShellsOf(x)' = IF x = s THEN {c} ELSE ShellsOf(x)
  BY <1>1 DEF ShellsOf, TypeOK
<1>3. [x \in Sessions |-> ShellsOf(x)]' = [[x \in Sessions |-> ShellsOf(x)] EXCEPT ![s] = {c}]
  BY <1>2
<1> QED BY <1>1, <1>3 DEF Life!Spawn, Owns

\* An agent that loses shells ends them: nobody else has one of these sessions.
LEMMA EndLives ==
    ASSUME TypeOK, LifeInv, NEW c \in Conns, NEW gone \in SUBSET Sessions, gone \subseteq ptys[c],
           ptys' = [ptys EXCEPT ![c] = @ \ gone], UNCHANGED <<status, owner, begun>>
    PROVE  Life!End
<1>1. ASSUME NEW x \in Sessions
      PROVE  ShellsOf(x)' = IF x \in gone THEN {} ELSE ShellsOf(x)
  <2>1. x \in gone => \A o \in Conns : x \in ptys[o] => o = c
    BY DEF LifeInv, PlaceLife
  <2> QED BY <2>1 DEF ShellsOf, TypeOK
<1>2. [x \in Sessions |-> ShellsOf(x)]' =
          [x \in Sessions |-> IF x \in gone THEN {} ELSE [y \in Sessions |-> ShellsOf(y)][x]]
  BY <1>1
<1> QED BY <1>2 DEF Life!End

LEMMA StepLives ==
    ASSUME TypeOK, TypeOK', RoutingInv, SettleInv, LifeInv, [Next]_vars
    PROVE  [Life!Next]_(Life!lvars)
<1>1. UNCHANGED ptys => UNCHANGED [s \in Sessions |-> ShellsOf(s)]
  BY DEF ShellsOf
<1>2. CASE UNCHANGED <<status, owner, ptys, begun>>
  BY <1>1, <1>2 DEF Life!lvars
<1>3. ASSUME NEW s \in Sessions, CreateInsert(s) PROVE Life!Insert(s)
  BY <1>1, <1>3, InsertIs DEF Life!Insert
<1>4. ASSUME NEW s \in Sessions, NEW st \in {"running", "lost", "exited", "closed"},
             UNCHANGED <<owner, ptys, begun>>, status[s] # "none", st = "running" => s \in begun,
             status' = [status EXCEPT ![s] = st]
      PROVE  Life!Write(s)
  BY <1>1, <1>4 DEF Life!Write
<1>5. ASSUME NEW c \in Conns, AgentStart(c) PROVE Life!Next
  BY <1>5, StartLives DEF Life!Next
<1>6. ASSUME UNCHANGED <<status, owner, begun>>, NEW c \in Conns, NEW gone \in SUBSET Sessions,
             gone \subseteq ptys[c], ptys' = [ptys EXCEPT ![c] = @ \ gone]
      PROVE  Life!Next
  BY <1>6, EndLives DEF Life!Next
<1>7. (\E s \in Sessions : Life!Insert(s) \/ Life!Write(s)) => Life!Next
  BY DEF Life!Next
<1>8. CASE UNCHANGED <<status, owner>>
  BY <1>2, <1>5, <1>6, <1>8, ShellStep
<1>9. CASE \E s \in Sessions : CreateInsert(s)
  BY <1>3, <1>7, <1>9
<1>10. CASE ~UNCHANGED <<status, owner>> /\ ~\E s \in Sessions : CreateInsert(s)
  BY <1>4, <1>7, <1>10, RowStep
<1> QED BY <1>8, <1>9, <1>10

\* For every number of devices, sessions and connections, whatever overlaps,
\* crashes and restarts: the handlers, the Hub and the agents implement
\* SessionLife.  One shell is spawned for a session at most, on the machine of
\* its owner; and a row never says running of a session whose start was lost,
\* and never starting again.
THEOREM LifeCorrect == Spec => ImplementsLife
<1>1. Spec => []LifeInv
  BY LifeInit, LifeKept, TypeCorrect, RoutingCorrect, SettleCorrect, PTL DEF Spec
<1>2. TypeOK /\ TypeOK' /\ RoutingInv /\ SettleInv /\ LifeInv /\ [Next]_vars
          => [Life!Next]_(Life!lvars)
  BY StepLives
<1> QED
  BY <1>1, <1>2, InitLives, TypeCorrect, RoutingCorrect, SettleCorrect, PTL
  DEF Spec, ImplementsLife, Life!Spec

-----------------------------------------------------------------------------
(* A session that is over stays so. *)

\* For every number of devices, sessions and connections, whatever overlaps,
\* crashes and restarts: nothing brings back a session whose row is over and of
\* which no shell, start or report is left.
THEOREM EndedCorrect == Spec => EndedStays
<1>1. ASSUME TypeOK, TypeOK', SettleInv, SettleInv', [Next]_vars, NEW s \in Sessions, Ended(s)
      PROVE  Ended(s)'
  <2>1. \A q, k : Says(q, k, s) <=> Has(q, Msg(k, s))
    BY DEF Says, Has, Msg
  <2>2. /\ creq[s] = "done" /\ status[s] \notin Active
        /\ \A c \in Conns : /\ s \notin ptys[c]
                            /\ alive[c] => ~Has(down[c], Msg("start", s))
                            /\ pc[c] # "gone" => /\ ~Has(up[c], Msg("started", s))
                                                 /\ ~Has(up[c], Msg("stdout", s))
                            /\ ~Holds(c, Msg("stdout", s))
    BY <1>1, <2>1 DEF Ended, Holds, Msg
  <2>3. ~CreateInsert(s) /\ ~CreateSend(s)
    BY <2>2 DEF CreateInsert, CreateSend
  <2>4. creq'[s] = "done"
    BY <1>1, <2>2, ReqStep
  <2>5. status'[s] \notin Active
    BY <1>1, <2>2, <2>3, RunStep DEF SettleInv
  <2>6. ASSUME NEW c \in Conns
        PROVE  /\ s \notin ptys'[c]
               /\ alive'[c] => ~Has(down'[c], Msg("start", s))
               /\ pc'[c] # "gone" => ~Has(up'[c], Msg("started", s)) /\ ~Has(up'[c], Msg("stdout", s))
               /\ ~(cur'[c] = <<Msg("stdout", s)>>)
    <3>1. s \notin ptys'[c]
      <4>1. ASSUME NEW o \in Conns, AgentStart(o) PROVE s \notin ptys'[c]
        <5>1. PICK x \in Sessions : /\ Has(down[o], Msg("start", x))
                                    /\ ptys' = [ptys EXCEPT ![o] = @ \union {x}]
          BY <1>1, <4>1, StartIs
        <5>2. alive[o]
          BY <4>1 DEF AgentStart
        <5> QED BY <1>1, <2>2, <5>1, <5>2 DEF TypeOK
      <4>2. ASSUME NEW o \in Conns, NEW gone, ptys' = [ptys EXCEPT ![o] = @ \ gone]
            PROVE  s \notin ptys'[c]
        BY <1>1, <2>2, <4>2 DEF TypeOK
      <4> QED BY <1>1, <2>2, <4>1, <4>2, ShellStep
    <3>2. alive'[c] => ~Has(down'[c], Msg("start", s))
      <4>1. Has(down'[c], Msg("start", s)) => Has(down[c], Msg("start", s))
        BY <1>1, <2>3, StartStep DEF Has
      <4> QED BY <1>1, <2>2, <4>1, PeerStep, NoneOnEmpty
    <3>3. ASSUME NEW k \in {"started", "stdout"}, pc'[c] # "gone"
          PROVE  ~Has(up'[c], Msg(k, s))
      <4>1. Has(up'[c], Msg(k, s)) => Has(up[c], Msg(k, s))
        BY <1>1, <2>2, <3>1, UpStep DEF Has
      <4>2. pc[c] # "gone" => ~Has(up[c], Msg(k, s))
        BY <2>2
      <4> QED BY <1>1, <3>3, <4>1, <4>2, PeerStep, NoneOnEmpty
    <3>4. ~(cur'[c] = <<Msg("stdout", s)>>)
      <4>1. SUFFICES ASSUME cur'[c] = <<Msg("stdout", s)>> PROVE FALSE
        OBVIOUS
      <4>2. pc'[c] = "write"
        BY <1>1, <4>1 DEF SettleInv, LinksInv, HandInv
      <4>3. pc[c] # "gone"
        BY <1>1, <4>2, PeerStep
      <4>4. ~Has(up[c], Msg("stdout", s)) /\ cur[c] # <<Msg("stdout", s)>>
        BY <2>2, <4>3 DEF Holds
      <4>5. \A m : <<m>> = <<Msg("stdout", s)>> => m = Msg("stdout", s)
        OBVIOUS
      <4>6. <<Msg("stdout", s)>> # <<>>
        OBVIOUS
      <4> QED BY <1>1, <4>1, <4>4, <4>5, <4>6, HandStep
    <3> QED BY <3>1, <3>2, <3>3, <3>4
  <2> QED BY <2>4, <2>5, <2>6 DEF Ended, Msg, Says, Has
<1>2. /\ TypeOK /\ TypeOK' /\ SettleInv /\ SettleInv' /\ [Next]_vars
         => [\A s \in Sessions : Ended(s) => Ended(s)']_vars
  BY <1>1
<1> QED BY <1>2, TypeCorrect, SettleCorrect, PTL DEF Spec, EndedStays
=============================================================================
