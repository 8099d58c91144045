------------------------- MODULE FileTransferProofs -------------------------
(***************************************************************************)
(* FileTransfer for any number of operations and any sizes.                *)
(***************************************************************************)
EXTENDS FileTransfer, FiniteSetTheorems, TLAPS

Places   == {"idle", "open", "body", "chunk", "close", "read", "list", "done"}
Asked    == {"open", "chunk", "close", "read", "list"}
Downs    == [o : Ops, t : Asked, n : Nat, offset : Nat]
Ups      == [o : Ops, t : {"ok", "error"}, n : Nat, eof : BOOLEAN, file : Versions]

TypeInv == TypeOK /\ answer \in [Ops -> Ups \union {NoAnswer}]

-----------------------------------------------------------------------------
(* The inductive invariant *)

\* The path of upload o was free, or has changed, since it began, or it may be replaced.
Allowed(o) == req[o].overwrite \/ o \in raced

\* A request on its way to the agent: the operation waits for its answer, or has
\* given up; what an upload sends is part of its body, and more than its first
\* request is sent only if the first was accepted.
DownOf(m) ==
    /\ at[m.o] \in {m.t, "done"} /\ answer[m.o] = NoAnswer /\ m.o \notin committed
    /\ m.t \in {"open", "chunk", "close"} <=> req[m.o].t = "upload"
    /\ m.t = "chunk" => m.offset + m.n <= req[m.o].avail
    /\ m.t = "close" => m.n = req[m.o].size /\ (result[m.o] = "failed" => Truncated(m.o))
    /\ m.t \in {"chunk", "close"} => Allowed(m.o)
    /\ m.t = "read" => m.n = Chunk /\ m.offset = off[m.o]

\* What is left of version v after n bytes.
LeftOf(v, n) == IF n < v.len THEN v.len - n ELSE 0

\* A reply, on its way back or taken, tells what it answers.
ReplyOf(m) ==
    /\ m.t = "ok" /\ at[m.o] = "open" => Allowed(m.o)
    /\ at[m.o] = "close" => (m.t = "ok" <=> m.o \in committed)
    /\ m.t = "ok" /\ at[m.o] = "read" =>
          m.n = Least(Chunk, LeftOf(m.file, off[m.o])) /\ (m.eof <=> m.n < Chunk)

UpOf(m) == at[m.o] \notin {"idle", "body"} /\ answer[m.o] = NoAnswer /\ ReplyOf(m)

\* An operation has one message on its way at most.
Single ==
    /\ \A i, j \in 1..Len(down) : down[i].o = down[j].o => i = j
    /\ \A i, j \in 1..Len(up) : up[i].o = up[j].o => i = j
    /\ \A i \in 1..Len(down), j \in 1..Len(up) : down[i].o # up[j].o

\* The messages in a queue.
Within(q) == {q[i] : i \in 1..Len(q)}

QueueInv ==
    /\ Single
    /\ \A m \in Within(down) : DownOf(m)
    /\ \A m \in Within(up) : UpOf(m)

PlaceOf(o) ==
    /\ at[o] # "idle" => req[o] \in Requests
    /\ at[o] \in {"open", "body", "chunk", "close"} => req[o].t = "upload"
    /\ at[o] = "read" => req[o].t = "download"
    /\ at[o] = "list" => req[o].t = "list"
    /\ at[o] \in {"body", "chunk", "close"} => Allowed(o)
    /\ at[o] \notin {"idle", "done"} /\ file = NoFile => o \in raced
    /\ answer[o] # NoAnswer => at[o] \in Asked /\ answer[o].o = o /\ ReplyOf(answer[o])
    /\ o \in pend => at[o] \in Asked /\ answer[o] = NoAnswer

\* What has become the file, and what was reported.
CommittedOf(o) ==
    /\ o \in committed => at[o] \in {"close", "done"} /\ result[o] # "failed" /\ ~Truncated(o)
    /\ result[o] # "none" => at[o] = "done"
    /\ req[o].t = "upload" /\ result[o] = "ok" => o \in committed

\* What a download has read.
SeenOf(o) ==
    /\ IsFiniteSet(seen[o])
    /\ at[o] = "idle" => off[o] = 0 /\ seen[o] = {}
    /\ req[o].t = "download" =>
          /\ seen[o] = {} => off[o] = 0 /\ result[o] # "ok"
          /\ \A v \in seen[o] : seen[o] = {v} =>
                off[o] <= v.len /\ (result[o] = "ok" => off[o] = v.len)

\* What the agent has written of an upload is part of its body.
UploadOf(o) ==
    uploads[o] # -1 => at[o] # "idle" /\ req[o].t = "upload" /\ uploads[o] <= req[o].avail

OpInv == \A o \in Ops : PlaceOf(o) /\ CommittedOf(o) /\ SeenOf(o) /\ UploadOf(o)

\* The file of an upload is the whole of its body.
FileInv ==
    file.by \in Ops =>
        /\ at[file.by] # "idle" /\ req[file.by].t = "upload"
        /\ req[file.by].avail = req[file.by].size /\ file.len = req[file.by].size

IInv == TypeInv /\ QueueInv /\ OpInv /\ FileInv

-----------------------------------------------------------------------------
(* Constants, types and queues *)

LEMMA Constants ==
    /\ "none" \notin Ops /\ "device" \notin Ops
    /\ Chunk \in Nat \ {0}
    /\ NoAnswer.t = "none" /\ NoAnswer \notin Ups /\ NoRequest.t = "none"
    /\ NoFile \in Versions /\ NoFile.by = "none" /\ NoFile.len = 0
    /\ [by |-> "device", len |-> Chunk] \in Versions
<1>1. "none" \notin Ops /\ "device" \notin Ops /\ Chunk \in Nat \ {0}
  BY TransferAssumption DEF TransferAssumption
<1>2. NoAnswer.t = "none" /\ NoRequest.t = "none" /\ NoFile.by = "none" /\ NoFile.len = 0
  BY DEF NoAnswer, NoRequest, NoFile
<1>3. NoAnswer \notin Ups
  BY <1>2 DEF Ups
<1>4. NoFile \in Versions /\ [by |-> "device", len |-> Chunk] \in Versions
  BY <1>1 DEF NoFile, Versions
<1> QED
  BY <1>1, <1>2, <1>3, <1>4

LEMMA RequestFields ==
    ASSUME NEW r \in Requests
    PROVE  /\ r.t \in {"upload", "download", "list"}
           /\ r.t = "upload" => /\ r.size \in Nat /\ r.avail \in Nat /\ r.avail <= r.size
                                /\ r.overwrite \in BOOLEAN
BY TransferAssumption DEF TransferAssumption, UploadRequest, ReadRequest

LEMMA TypeParts ==
    TypeInv <=>
        /\ req \in [Ops -> Requests \union {NoRequest}]
        /\ at \in [Ops -> Places] /\ off \in [Ops -> Nat]
        /\ answer \in [Ops -> Ups \union {NoAnswer}]
        /\ result \in [Ops -> {"none", "ok", "failed", "unknown"}]
        /\ pend \subseteq Ops /\ temps \subseteq Ops /\ orphans \subseteq Ops
        /\ conn \in {"up", "down"}
        /\ down \in Seq(Downs) /\ up \in Seq(Ups)
        /\ uploads \in [Ops -> Nat \union {-1}]
        /\ file \in Versions
        /\ committed \subseteq Ops /\ raced \subseteq Ops
        /\ seen \in [Ops -> SUBSET Versions]
BY Zenon DEF TypeInv, TypeOK, Places, Asked, Downs, Ups

LEMMA Pushed ==
    ASSUME NEW S, NEW q \in Seq(S), NEW m \in S
    PROVE  /\ Append(q, m) \in Seq(S) /\ Len(Append(q, m)) = Len(q) + 1 /\ Len(q) \in Nat
           /\ \A i \in 1..Len(q) : Append(q, m)[i] = q[i]
           /\ Append(q, m)[Len(q) + 1] = m
           /\ Within(Append(q, m)) = Within(q) \union {m}
<1>1. /\ Append(q, m) \in Seq(S) /\ Len(Append(q, m)) = Len(q) + 1 /\ Len(q) \in Nat
      /\ \A i \in 1..Len(q) : Append(q, m)[i] = q[i]
      /\ Append(q, m)[Len(q) + 1] = m
  OBVIOUS
<1>2. 1..(Len(q) + 1) = 1..Len(q) \union {Len(q) + 1}
  BY <1>1
<1> QED
  BY <1>1, <1>2 DEF Within

LEMMA Popped ==
    ASSUME NEW S, NEW q \in Seq(S), q # <<>>
    PROVE  /\ Tail(q) \in Seq(S) /\ Head(q) = q[1] /\ 1 \in 1..Len(q)
           /\ Head(q) \in S /\ Head(q) \in Within(q)
           /\ \A i \in 1..Len(Tail(q)) : i + 1 \in 1..Len(q) /\ i + 1 # 1 /\ Tail(q)[i] = q[i + 1]
           /\ Within(Tail(q)) \subseteq Within(q)
<1>1. /\ Tail(q) \in Seq(S) /\ Head(q) = q[1] /\ 1 \in 1..Len(q) /\ q[1] \in S
      /\ \A i \in 1..Len(Tail(q)) : i + 1 \in 1..Len(q) /\ i + 1 # 1 /\ Tail(q)[i] = q[i + 1]
  OBVIOUS
<1> QED
  BY <1>1 DEF Within

LEMMA WithinType == ASSUME NEW S, NEW q \in Seq(S) PROVE Within(q) \subseteq S
BY DEF Within

-----------------------------------------------------------------------------
(* Steps of the server *)

OpOf(o) == PlaceOf(o) /\ CommittedOf(o) /\ SeenOf(o) /\ UploadOf(o)

\* A step of operation o in the server.
Only(o) ==
    /\ \A p \in Ops \ {o} : /\ req'[p] = req[p] /\ at'[p] = at[p] /\ off'[p] = off[p]
                            /\ answer'[p] = answer[p] /\ result'[p] = result[p]
                            /\ seen'[p] = seen[p] /\ (p \in pend' <=> p \in pend)
    /\ at[o] # "idle" => at'[o] # "idle" /\ req'[o] = req[o]
    /\ raced \subseteq raced' /\ file' = file /\ committed' = committed
    /\ uploads' = uploads /\ up' = up

LEMMA OthersOps ==
    ASSUME OpInv, NEW o \in Ops, Only(o), NEW p \in Ops \ {o}
    PROVE  OpOf(p)'
<1>1. /\ req'[p] = req[p] /\ at'[p] = at[p] /\ off'[p] = off[p]
      /\ answer'[p] = answer[p] /\ result'[p] = result[p] /\ seen'[p] = seen[p]
      /\ p \in pend' <=> p \in pend
      /\ raced \subseteq raced' /\ file' = file /\ committed' = committed /\ uploads' = uploads
  BY DEF Only
<1>2. PlaceOf(p) /\ CommittedOf(p) /\ SeenOf(p) /\ UploadOf(p)
  BY DEF OpInv
<1>3. PlaceOf(p)'
  <2>1. answer[p] # NoAnswer => answer[p].o = p
    BY <1>2 DEF PlaceOf
  <2>2. answer[p] # NoAnswer => ReplyOf(answer[p])'
    BY <1>1, <1>2, <2>1 DEF PlaceOf, ReplyOf, Allowed, LeftOf
  <2>3. Allowed(p) => Allowed(p)'
    BY <1>1 DEF Allowed
  <2> QED
    BY <1>1, <1>2, <2>2, <2>3, Zenon DEF PlaceOf, ReplyOf
<1>4. CommittedOf(p)'
  BY <1>1, <1>2 DEF CommittedOf, Truncated
<1>5. SeenOf(p)'
  BY <1>1, <1>2 DEF SeenOf
<1>6. UploadOf(p)'
  BY <1>1, <1>2 DEF UploadOf
<1> QED
  BY <1>3, <1>4, <1>5, <1>6 DEF OpOf

LEMMA OthersMessages ==
    ASSUME NEW o \in Ops, Only(o), NEW m, m.o \in Ops \ {o}
    PROVE  /\ DownOf(m) => DownOf(m)'
           /\ UpOf(m) => UpOf(m)'
<1> DEFINE p == m.o
<1>1. /\ req'[p] = req[p] /\ at'[p] = at[p] /\ off'[p] = off[p]
      /\ answer'[p] = answer[p] /\ result'[p] = result[p]
      /\ raced \subseteq raced' /\ committed' = committed
  BY DEF Only
<1>2. DownOf(m) => DownOf(m)'
  BY <1>1 DEF DownOf, Truncated, Allowed
<1>3. UpOf(m) => UpOf(m)'
  BY <1>1 DEF UpOf, ReplyOf, Allowed, LeftOf
<1> QED
  BY <1>2, <1>3

\* No message of o is on its way.
Quiet(o) == (\A m \in Within(down) : m.o # o) /\ (\A m \in Within(up) : m.o # o)

\* A step of o that sends nothing, or one message when none of o is on its way.
LEMMA ServerQueue ==
    ASSUME TypeInv, QueueInv, NEW o \in Ops, Only(o),
           \A m \in Within(down) : m.o = o => DownOf(m)',
           \A m \in Within(up) : m.o = o => UpOf(m)',
           \/ down' = down
           \/ \E m \in Downs : m.o = o /\ down' = Append(down, m) /\ DownOf(m)' /\ Quiet(o)
    PROVE  QueueInv'
<1>1. down \in Seq(Downs) /\ up \in Seq(Ups) /\ up' = up
  BY TypeParts DEF Only
<1>2. Within(down) \subseteq Downs /\ Within(up) \subseteq Ups
  BY <1>1, WithinType
<1>3. /\ \A m \in Within(down) : m.o \in Ops /\ DownOf(m)
      /\ \A m \in Within(up) : m.o \in Ops /\ UpOf(m)
  BY <1>2 DEF QueueInv, Downs, Ups
<1>4. /\ \A m \in Within(down) : DownOf(m)'
      /\ \A m \in Within(up) : UpOf(m)'
  BY <1>3, OthersMessages
<1>5. CASE down' = down
  BY <1>1, <1>4, <1>5, Zenon DEF QueueInv, Single
<1>6. CASE \E m \in Downs : m.o = o /\ down' = Append(down, m) /\ DownOf(m)' /\ Quiet(o)
  <2>1. PICK m \in Downs : m.o = o /\ down' = Append(down, m) /\ DownOf(m)' /\ Quiet(o)
    BY <1>6
  <2>2. /\ Len(down') = Len(down) + 1 /\ Len(down) \in Nat
        /\ \A i \in 1..Len(down) : down'[i] = down[i] /\ down[i].o # o
        /\ down'[Len(down) + 1] = m
        /\ Within(down') = Within(down) \union {m}
        /\ \A i \in 1..Len(up) : up[i].o # o
    BY <1>1, <2>1, Pushed DEF Quiet, Within
  <2>3. ASSUME NEW i \in 1..Len(down')
        PROVE  i \in 1..Len(down) \/ i = Len(down) + 1
    BY <2>2
  <2>4. /\ \A i, j \in 1..Len(down) : down[i].o = down[j].o => i = j
        /\ \A i, j \in 1..Len(up) : up[i].o = up[j].o => i = j
        /\ \A i \in 1..Len(down), j \in 1..Len(up) : down[i].o # up[j].o
    BY DEF QueueInv, Single
  <2>5. ASSUME NEW i \in 1..Len(down'), NEW j \in 1..Len(down'), down'[i].o = down'[j].o
        PROVE  i = j
    <3>1. CASE i \in 1..Len(down) /\ j \in 1..Len(down)
      BY <2>2, <2>4, <2>5, <3>1
    <3>2. CASE i = Len(down) + 1 /\ j \in 1..Len(down)
      BY <2>1, <2>2, <2>5, <3>2
    <3>3. CASE j = Len(down) + 1 /\ i \in 1..Len(down)
      BY <2>1, <2>2, <2>5, <3>3
    <3> QED
      BY <2>3, <3>1, <3>2, <3>3
  <2>6. ASSUME NEW i \in 1..Len(down'), NEW j \in 1..Len(up)
        PROVE  down'[i].o # up[j].o
    BY <2>1, <2>2, <2>3, <2>4
  <2>7. Single'
    BY <1>1, <2>4, <2>5, <2>6 DEF Single
  <2>8. \A x \in Within(down') : DownOf(x)'
    BY <1>4, <2>1, <2>2
  <2>9. \A x \in Within(up') : UpOf(x)'
    BY <1>1, <1>4
  <2> QED
    BY <2>7, <2>8, <2>9, Zenon DEF QueueInv, Within
<1> QED
  BY <1>5, <1>6

LEMMA ServerKeeps ==
    ASSUME IInv, NEW o \in Ops, Only(o), TypeInv', OpOf(o)',
           \A m \in Within(down) : m.o = o => DownOf(m)',
           \A m \in Within(up) : m.o = o => UpOf(m)',
           \/ down' = down
           \/ \E m \in Downs : m.o = o /\ down' = Append(down, m) /\ DownOf(m)' /\ Quiet(o)
    PROVE  IInv'
<1>1. QueueInv'
  BY ServerQueue DEF IInv
<1>2. ASSUME NEW p \in Ops
      PROVE  OpOf(p)'
  BY OthersOps DEF IInv
<1>3. OpInv'
  BY <1>2 DEF OpInv, OpOf
<1>4. FileInv'
  BY DEF IInv, FileInv, Only
<1> QED
  BY <1>1, <1>3, <1>4 DEF IInv

LEMMA ServerTypes ==
    ASSUME TypeInv,
           req' \in [Ops -> Requests \union {NoRequest}],
           at' \in [Ops -> Places], off' \in [Ops -> Nat],
           answer' \in [Ops -> Ups \union {NoAnswer}],
           result' \in [Ops -> {"none", "ok", "failed", "unknown"}],
           pend' \subseteq Ops, down' \in Seq(Downs), up' \in Seq(Ups),
           seen' \in [Ops -> SUBSET Versions], raced' \subseteq Ops,
           UNCHANGED <<conn, uploads, temps, orphans, file, committed>>
    PROVE  TypeInv'
<1>1. /\ temps' \subseteq Ops /\ orphans' \subseteq Ops /\ conn' \in {"up", "down"}
      /\ uploads' \in [Ops -> Nat \union {-1}] /\ file' \in Versions /\ committed' \subseteq Ops
  BY TypeParts
<1> QED
  BY <1>1, Zenon DEF TypeInv, TypeOK, Places, Asked, Downs, Ups

LEMMA Present ==
    ASSUME IInv, NEW o \in Ops
    PROVE  /\ at[o] \in Places /\ off[o] \in Nat /\ answer[o] \in Ups \union {NoAnswer}
           /\ req[o] \in Requests \union {NoRequest}
           /\ PlaceOf(o) /\ CommittedOf(o) /\ SeenOf(o) /\ UploadOf(o)
           /\ TypeInv /\ QueueInv
           /\ Within(down) \subseteq Downs /\ Within(up) \subseteq Ups
BY TypeParts, WithinType DEF IInv, OpInv

\* Nothing of an operation is on its way before it asks, between two questions,
\* and when it has an answer.
LEMMA QuietAt ==
    ASSUME IInv, NEW o \in Ops, at[o] \in {"idle", "body"} \/ answer[o] # NoAnswer
    PROVE  Quiet(o)
<1>1. /\ \A m \in Within(down) : DownOf(m) /\ m.t \in Asked
      /\ \A m \in Within(up) : UpOf(m)
  BY Present DEF QueueInv, Downs
<1> QED
  BY <1>1 DEF Quiet, DownOf, UpOf, Asked

LEMMA QuietKeeps ==
    ASSUME IInv, NEW o \in Ops, Only(o), TypeInv', OpOf(o)', Quiet(o),
           down' = down \/ \E m \in Downs : m.o = o /\ down' = Append(down, m) /\ DownOf(m)'
    PROVE  IInv'
BY ServerKeeps DEF Quiet

\* The operation is over.
LEMMA Returned ==
    ASSUME IInv, NEW o \in Ops, Only(o), at[o] \notin {"idle", "done"},
           at'[o] = "done", answer'[o] = NoAnswer, o \notin pend', seen'[o] = seen[o], off'[o] = off[o],
           result'[o] = "failed" => o \notin committed,
           result'[o] = "ok" => /\ req[o].t = "upload" => o \in committed
                                /\ req[o].t # "download"
    PROVE  OpOf(o)'
<1>1. /\ req'[o] = req[o] /\ file' = file /\ committed' = committed /\ uploads' = uploads
  BY DEF Only
<1>2. PlaceOf(o) /\ CommittedOf(o) /\ SeenOf(o) /\ UploadOf(o)
  BY Present
<1>3. PlaceOf(o)'
  BY <1>1, <1>2 DEF PlaceOf, Asked
<1>4. CommittedOf(o)'
  BY <1>1, <1>2 DEF CommittedOf, Truncated
<1>5. SeenOf(o)'
  BY <1>1, <1>2 DEF SeenOf
<1>6. UploadOf(o)'
  BY <1>1, <1>2 DEF UploadOf
<1> QED
  BY <1>3, <1>4, <1>5, <1>6 DEF OpOf

LEMMA ReturnFields ==
    ASSUME TypeInv, NEW o \in Ops, NEW res \in {"ok", "failed", "unknown"}, Return(o, res)
    PROVE  /\ at' \in [Ops -> Places] /\ at'[o] = "done"
           /\ result' \in [Ops -> {"none", "ok", "failed", "unknown"}] /\ result'[o] = res
           /\ \A p \in Ops \ {o} : at'[p] = at[p] /\ result'[p] = result[p]
BY TypeParts DEF Return, Places

LEMMA AskFields ==
    ASSUME TypeInv, NEW o \in Ops, NEW wait \in Asked, NEW msg \in Downs, Ask(o, wait, msg)
    PROVE  /\ at' \in [Ops -> Places]
           /\ result' \in [Ops -> {"none", "ok", "failed", "unknown"}]
           /\ \A p \in Ops \ {o} : at'[p] = at[p] /\ result'[p] = result[p]
           /\ pend' \subseteq Ops /\ down' \in Seq(Downs)
           /\ \A p \in Ops \ {o} : p \in pend' <=> p \in pend
           /\ \/ at'[o] = wait /\ result' = result /\ (down' = down \/ down' = Append(down, msg))
              \/ /\ at'[o] = "done" /\ result'[o] = Unanswered(o, wait) /\ down' = down
                 /\ pend' = pend
<1>1. /\ at \in [Ops -> Places] /\ pend \subseteq Ops /\ down \in Seq(Downs)
      /\ result \in [Ops -> {"none", "ok", "failed", "unknown"}]
  BY TypeParts
<1>2. wait \in Places
  BY DEF Asked, Places
<1>3. Append(down, msg) \in Seq(Downs)
  BY <1>1, Pushed
<1>4. Unanswered(o, wait) \in {"ok", "failed", "unknown"}
  BY DEF Unanswered
<1>5. CASE /\ conn = "up" /\ down' = Append(down, msg) /\ at' = [at EXCEPT ![o] = wait]
           /\ pend' = pend \union {o} /\ UNCHANGED result
  BY <1>1, <1>2, <1>3, <1>5
<1>6. CASE /\ conn = "down" /\ at' = [at EXCEPT ![o] = wait]
           /\ pend' = pend \union {o} /\ UNCHANGED <<down, result>>
  BY <1>1, <1>2, <1>6
<1>7. CASE conn = "down" /\ Return(o, Unanswered(o, wait)) /\ UNCHANGED <<down, pend>>
  BY <1>1, <1>4, <1>7, ReturnFields
<1> QED
  BY <1>5, <1>6, <1>7 DEF Ask

LEMMA MessageFields ==
    ASSUME NEW o \in Ops, NEW t \in Asked, NEW n \in Nat, NEW offset \in Nat
    PROVE  /\ Message(o, t, n, offset) \in Downs
           /\ Message(o, t, n, offset).o = o /\ Message(o, t, n, offset).t = t
           /\ Message(o, t, n, offset).n = n /\ Message(o, t, n, offset).offset = offset
BY DEF Message, Downs

LEMMA AnsweredFields ==
    ASSUME IInv, NEW o \in Ops, NEW place \in Asked, NEW ok \in BOOLEAN, Answered(o, place, ok)
    PROVE  /\ at[o] = place /\ answer[o] \in Ups /\ answer[o].t = IF ok THEN "ok" ELSE "error"
           /\ answer[o].n \in Nat /\ answer[o].file \in Versions /\ answer[o].o = o
           /\ answer' \in [Ops -> Ups \union {NoAnswer}] /\ answer'[o] = NoAnswer
           /\ \A p \in Ops \ {o} : answer'[p] = answer[p]
           /\ ReplyOf(answer[o]) /\ Quiet(o) /\ o \notin pend
<1>1. answer \in [Ops -> Ups \union {NoAnswer}] /\ PlaceOf(o)
  BY Present, TypeParts
<1>2. at[o] = place /\ answer[o].t = IF ok THEN "ok" ELSE "error"
  BY DEF Answered
<1>3. answer[o] # NoAnswer /\ answer[o] \in Ups
  BY <1>1, <1>2, Constants
<1>4. answer'[o] = NoAnswer /\ answer' \in [Ops -> Ups \union {NoAnswer}]
      /\ \A p \in Ops \ {o} : answer'[p] = answer[p]
  BY <1>1 DEF Answered
<1>5. answer[o].n \in Nat /\ answer[o].file \in Versions
  BY <1>3 DEF Ups
<1>6. answer[o].o = o /\ ReplyOf(answer[o]) /\ o \notin pend
  BY <1>1, <1>3 DEF PlaceOf
<1> QED
  BY <1>2, <1>3, <1>4, <1>5, <1>6, QuietAt

LEMMA BeginKeeps ==
    ASSUME IInv, NEW o \in Ops, Begin(o)
    PROVE  IInv'
<1>1. PICK r \in Requests :
          /\ req' = [req EXCEPT ![o] = r]
          /\ \/ r.t = "upload"   /\ Ask(o, "open", Message(o, "open", r.size, 0))
             \/ r.t = "download" /\ Ask(o, "read", Message(o, "read", Chunk, 0))
             \/ r.t = "list"     /\ Ask(o, "list", Message(o, "list", 0, 0))
  BY DEF Begin
<1>2. /\ at[o] = "idle" /\ raced' = (IF file = NoFile THEN raced \union {o} ELSE raced)
      /\ off' = off /\ answer' = answer /\ up' = up /\ seen' = seen /\ file' = file
      /\ committed' = committed /\ uploads' = uploads
      /\ UNCHANGED <<conn, uploads, temps, orphans, file, committed>>
  BY DEF Begin
<1>3. /\ PlaceOf(o) /\ CommittedOf(o) /\ SeenOf(o) /\ UploadOf(o) /\ TypeInv
      /\ off[o] = 0 /\ answer[o] = NoAnswer /\ o \notin committed /\ result[o] = "none"
      /\ seen[o] = {} /\ uploads[o] = -1 /\ o \notin pend
  BY <1>2, Present DEF PlaceOf, CommittedOf, SeenOf, UploadOf, Asked
<1>4. Quiet(o)
  BY <1>2, QuietAt
<1>5. /\ r.t = "upload" => r.size \in Nat
      /\ r.t \in {"upload", "download", "list"} /\ 0 \in Nat /\ Chunk \in Nat
  BY RequestFields, Constants
<1>6. PICK wait \in {"open", "read", "list"}, m \in Downs :
          /\ Ask(o, wait, m)
          /\ m.o = o /\ m.t = wait
          /\ wait = "open" <=> r.t = "upload"
          /\ wait = "read" <=> r.t = "download"
          /\ wait = "read" => m.n = Chunk /\ m.offset = 0
  <2>1. CASE r.t = "upload" /\ Ask(o, "open", Message(o, "open", r.size, 0))
    <3>1. "open" \in Asked
      BY DEF Asked
    <3> QED
      BY <1>5, <2>1, <3>1, MessageFields
  <2>2. CASE r.t = "download" /\ Ask(o, "read", Message(o, "read", Chunk, 0))
    <3>1. "read" \in Asked
      BY DEF Asked
    <3> QED
      BY <1>5, <2>2, <3>1, MessageFields
  <2>3. CASE r.t = "list" /\ Ask(o, "list", Message(o, "list", 0, 0))
    <3>1. "list" \in Asked
      BY DEF Asked
    <3> QED
      BY <1>5, <2>3, <3>1, MessageFields
  <2> QED
    BY <1>1, <2>1, <2>2, <2>3
<1>7. wait \in Asked
  BY DEF Asked
<1>8. /\ at' \in [Ops -> Places]
      /\ result' \in [Ops -> {"none", "ok", "failed", "unknown"}]
      /\ \A p \in Ops \ {o} : at'[p] = at[p] /\ result'[p] = result[p]
      /\ pend' \subseteq Ops /\ down' \in Seq(Downs)
      /\ \A p \in Ops \ {o} : p \in pend' <=> p \in pend
      /\ \/ at'[o] = wait /\ result' = result /\ (down' = down \/ down' = Append(down, m))
         \/ /\ at'[o] = "done" /\ result'[o] = Unanswered(o, wait) /\ down' = down
            /\ pend' = pend
  BY <1>3, <1>6, <1>7, AskFields
<1>9. Unanswered(o, wait) = "unknown"
  BY DEF Unanswered
<1>10. /\ req' \in [Ops -> Requests \union {NoRequest}] /\ req'[o] = r
       /\ \A p \in Ops \ {o} : req'[p] = req[p]
  BY <1>1, <1>3, TypeParts
<1>11. raced' \subseteq Ops /\ raced \subseteq raced' /\ (file = NoFile => o \in raced')
  BY <1>2, <1>3, TypeParts
<1>12. TypeInv'
  <2>1. /\ off' \in [Ops -> Nat] /\ answer' \in [Ops -> Ups \union {NoAnswer}]
        /\ up' \in Seq(Ups) /\ seen' \in [Ops -> SUBSET Versions]
    BY <1>2, <1>3, TypeParts
  <2> QED
    BY <1>2, <1>3, <1>8, <1>10, <1>11, <2>1, ServerTypes
<1>13. Only(o)
  BY <1>2, <1>8, <1>10, <1>11 DEF Only
<1>14. OpOf(o)'
  <2>1. PlaceOf(o)'
    BY <1>2, <1>3, <1>6, <1>8, <1>5, <1>7, <1>10, <1>11 DEF PlaceOf
  <2>2. CommittedOf(o)'
    BY <1>2, <1>3, <1>8, <1>9 DEF CommittedOf
  <2>3. SeenOf(o)'
    BY <1>2, <1>3, <1>6, <1>8, <1>9 DEF SeenOf
  <2>4. UploadOf(o)'
    BY <1>2, <1>3 DEF UploadOf
  <2> QED
    BY <2>1, <2>2, <2>3, <2>4 DEF OpOf
<1>15. at'[o] = wait => DownOf(m)'
  BY <1>2, <1>3, <1>6, <1>8, <1>10 DEF DownOf
<1> QED
  BY <1>4, <1>6, <1>8, <1>12, <1>13, <1>14, <1>15, QuietKeeps

LEMMA TimesOutKeeps ==
    ASSUME IInv, NEW o \in Ops, TimesOut(o)
    PROVE  IInv'
<1>1. /\ Waiting(o) /\ pend' = pend \ {o} /\ answer' = [answer EXCEPT ![o] = NoAnswer]
      /\ Return(o, Unanswered(o, at[o]))
      /\ req' = req /\ off' = off /\ down' = down /\ up' = up /\ seen' = seen /\ raced' = raced
      /\ UNCHANGED <<conn, uploads, temps, orphans, file, committed>>
  BY DEF TimesOut, agentVars
<1>2. at[o] \in Asked /\ Unanswered(o, at[o]) \in {"failed", "unknown"}
  BY <1>1 DEF Waiting, Unanswered, Asked
<1>3. TypeInv /\ PlaceOf(o) /\ CommittedOf(o) /\ UploadOf(o)
  BY Present
<1>4. /\ at' \in [Ops -> Places] /\ at'[o] = "done"
      /\ result' \in [Ops -> {"none", "ok", "failed", "unknown"}]
      /\ result'[o] = Unanswered(o, at[o])
      /\ \A p \in Ops \ {o} : at'[p] = at[p] /\ result'[p] = result[p]
  BY <1>1, <1>2, <1>3, ReturnFields
<1>5. /\ answer' \in [Ops -> Ups \union {NoAnswer}] /\ answer'[o] = NoAnswer
      /\ \A p \in Ops \ {o} : answer'[p] = answer[p]
  BY <1>1, <1>3, TypeParts
<1>6. TypeInv'
  <2>1. /\ req \in [Ops -> Requests \union {NoRequest}] /\ off \in [Ops -> Nat]
        /\ pend \subseteq Ops /\ down \in Seq(Downs) /\ up \in Seq(Ups)
        /\ seen \in [Ops -> SUBSET Versions] /\ raced \subseteq Ops
    BY <1>3, TypeParts
  <2> QED
    BY <1>1, <1>3, <1>4, <1>5, <2>1, ServerTypes
<1>7. Only(o)
  BY <1>1, <1>4, <1>5 DEF Only
\* A close that was not answered may have been carried out, but not that of a
\* body that was too short.
<1>8. result'[o] = "failed" => at[o] = "close" /\ Truncated(o)
  BY <1>4 DEF Unanswered
<1>9. OpOf(o)'
  <2>1. result'[o] = "failed" => o \notin committed
    BY <1>3, <1>8 DEF CommittedOf
  <2>2. result'[o] # "ok" /\ at[o] \notin {"idle", "done"}
    BY <1>2, <1>4 DEF Asked
  <2> QED
    BY <1>1, <1>4, <1>5, <1>7, <2>1, <2>2, Returned
<1>10. ASSUME NEW m \in Within(down), m.o = o
       PROVE  DownOf(m)'
  <2>1. DownOf(m)
    BY Present DEF QueueInv
  <2>2. /\ req'[m.o] = req[m.o] /\ at'[m.o] = "done" /\ answer'[m.o] = NoAnswer
        /\ off'[m.o] = off[m.o] /\ committed' = committed /\ raced' = raced
        /\ result'[m.o] = "failed" => Truncated(m.o)
    BY <1>1, <1>4, <1>5, <1>8, <1>10
  <2> QED
    BY <2>1, <2>2 DEF DownOf, Truncated, Allowed
<1>11. ASSUME NEW m \in Within(up), m.o = o
       PROVE  UpOf(m)'
  <2>1. at'[m.o] = "done" /\ answer'[m.o] = NoAnswer
    BY <1>4, <1>5, <1>11
  <2> QED
    BY <2>1 DEF UpOf, ReplyOf
<1> QED
  BY <1>1, <1>6, <1>7, <1>9, <1>10, <1>11, ServerKeeps

\* The actions in which an operation ends with its answer, or while it has the body.
LEMMA EndKeeps ==
    ASSUME IInv, NEW o \in Ops, NEW res \in {"ok", "failed"}, Return(o, res),
           at[o] \in Asked \union {"body"},
           answer' \in [Ops -> Ups \union {NoAnswer}], answer'[o] = NoAnswer,
           \A p \in Ops \ {o} : answer'[p] = answer[p],
           UNCHANGED <<req, off, pend, conn, down, up, agentVars, seen>>,
           Quiet(o), o \notin pend,
           res = "failed" => o \notin committed,
           res = "ok" => (req[o].t = "upload" => o \in committed) /\ req[o].t # "download"
    PROVE  IInv'
<1>1. /\ req' = req /\ off' = off /\ pend' = pend /\ down' = down /\ up' = up /\ seen' = seen
      /\ raced' = raced /\ UNCHANGED <<conn, uploads, temps, orphans, file, committed>>
  BY DEF agentVars
<1>2. TypeInv
  BY Present
<1>3. /\ at' \in [Ops -> Places] /\ at'[o] = "done"
      /\ result' \in [Ops -> {"none", "ok", "failed", "unknown"}] /\ result'[o] = res
      /\ \A p \in Ops \ {o} : at'[p] = at[p] /\ result'[p] = result[p]
  BY <1>2, ReturnFields
<1>4. TypeInv'
  <2>1. /\ req \in [Ops -> Requests \union {NoRequest}] /\ off \in [Ops -> Nat]
        /\ pend \subseteq Ops /\ down \in Seq(Downs) /\ up \in Seq(Ups)
        /\ seen \in [Ops -> SUBSET Versions] /\ raced \subseteq Ops
    BY <1>2, TypeParts
  <2> QED
    BY <1>1, <1>2, <1>3, <2>1, ServerTypes
<1>5. Only(o)
  BY <1>1, <1>3 DEF Only
<1>6. OpOf(o)'
  <2>1. at[o] \notin {"idle", "done"}
    BY DEF Asked
  <2> QED
    BY <1>1, <1>3, <1>5, <2>1, Returned
<1> QED
  BY <1>1, <1>4, <1>5, <1>6, QuietKeeps

LEMMA AnswerErrorKeeps ==
    ASSUME IInv, NEW o \in Ops, AnswerError(o)
    PROVE  IInv'
<1>1. /\ Waiting(o) /\ Answered(o, at[o], FALSE) /\ Return(o, "failed")
      /\ UNCHANGED <<req, off, pend, conn, down, up, agentVars, seen>>
  BY DEF AnswerError
<1>2. at[o] \in Asked
  BY <1>1 DEF Waiting, Asked
<1>3. /\ answer' \in [Ops -> Ups \union {NoAnswer}] /\ answer'[o] = NoAnswer
      /\ \A p \in Ops \ {o} : answer'[p] = answer[p]
      /\ ReplyOf(answer[o]) /\ Quiet(o) /\ o \notin pend /\ answer[o].o = o /\ answer[o].t = "error"
  BY <1>1, <1>2, AnsweredFields
<1>4. o \notin committed
  BY <1>2, <1>3, Present DEF ReplyOf, CommittedOf, Asked
<1> QED
  BY <1>1, <1>2, <1>3, <1>4, EndKeeps

LEMMA BodyFailsKeeps ==
    ASSUME IInv, NEW o \in Ops, BodyFails(o)
    PROVE  IInv'
<1>1. /\ at[o] = "body" /\ Return(o, "failed") /\ answer' = answer
      /\ UNCHANGED <<req, off, pend, conn, down, up, agentVars, seen>>
  BY DEF BodyFails
<1>2. answer \in [Ops -> Ups \union {NoAnswer}] /\ PlaceOf(o) /\ CommittedOf(o)
  BY Present, TypeParts
<1>3. answer[o] = NoAnswer /\ o \notin committed /\ o \notin pend
  BY <1>1, <1>2 DEF PlaceOf, CommittedOf, Asked
<1>4. Quiet(o)
  BY <1>1, QuietAt
<1> QED
  BY <1>1, <1>2, <1>3, <1>4, EndKeeps

LEMMA UploadEndsKeeps ==
    ASSUME IInv, NEW o \in Ops, UploadEnds(o)
    PROVE  IInv'
<1>1. /\ Answered(o, "close", TRUE) /\ Return(o, IF Truncated(o) THEN "failed" ELSE "ok")
      /\ UNCHANGED <<req, off, pend, conn, down, up, agentVars, seen>>
  BY DEF UploadEnds
<1>2. "close" \in Asked
  BY DEF Asked
<1>3. /\ answer' \in [Ops -> Ups \union {NoAnswer}] /\ answer'[o] = NoAnswer
      /\ \A p \in Ops \ {o} : answer'[p] = answer[p]
      /\ ReplyOf(answer[o]) /\ Quiet(o) /\ o \notin pend /\ answer[o].o = o /\ answer[o].t = "ok"
      /\ at[o] = "close"
  BY <1>1, <1>2, AnsweredFields
<1>4. o \in committed
  BY <1>3 DEF ReplyOf
<1>5. ~Truncated(o) /\ req[o].t = "upload"
  BY <1>3, <1>4, Present DEF CommittedOf, PlaceOf
<1>6. Return(o, "ok")
  BY <1>1, <1>5
<1> QED
  BY <1>1, <1>2, <1>3, <1>4, <1>5, <1>6, EndKeeps

LEMMA DownloadStopsKeeps ==
    ASSUME IInv, NEW o \in Ops, DownloadStops(o)
    PROVE  IInv'
<1>1. /\ Answered(o, "read", TRUE) /\ Return(o, "failed")
      /\ UNCHANGED <<req, off, pend, conn, down, up, agentVars, seen>>
  BY DEF DownloadStops
<1>2. "read" \in Asked
  BY DEF Asked
<1>3. /\ answer' \in [Ops -> Ups \union {NoAnswer}] /\ answer'[o] = NoAnswer
      /\ \A p \in Ops \ {o} : answer'[p] = answer[p]
      /\ Quiet(o) /\ o \notin pend /\ at[o] = "read"
  BY <1>1, <1>2, AnsweredFields
<1>4. o \notin committed
  BY <1>3, Present DEF CommittedOf
<1> QED
  BY <1>1, <1>2, <1>3, <1>4, EndKeeps

LEMMA ListEndsKeeps ==
    ASSUME IInv, NEW o \in Ops, ListEnds(o)
    PROVE  IInv'
<1>1. /\ Answered(o, "list", TRUE) /\ Return(o, "ok")
      /\ UNCHANGED <<req, off, pend, conn, down, up, agentVars, seen>>
  BY DEF ListEnds
<1>2. "list" \in Asked
  BY DEF Asked
<1>3. /\ answer' \in [Ops -> Ups \union {NoAnswer}] /\ answer'[o] = NoAnswer
      /\ \A p \in Ops \ {o} : answer'[p] = answer[p]
      /\ Quiet(o) /\ o \notin pend /\ at[o] = "list"
  BY <1>1, <1>2, AnsweredFields
<1>4. req[o].t = "list"
  BY <1>3, Present DEF PlaceOf
<1> QED
  BY <1>1, <1>2, <1>3, <1>4, EndKeeps

LEMMA UploadContinuesKeeps ==
    ASSUME IInv, NEW o \in Ops, UploadContinues(o)
    PROVE  IInv'
<1>1. PICK place \in {"open", "chunk"} : Answered(o, place, TRUE)
  BY DEF UploadContinues
<1>2. /\ off' = [off EXCEPT ![o] = @ + answer[o].n] /\ at' = [at EXCEPT ![o] = "body"]
      /\ req' = req /\ result' = result /\ pend' = pend /\ down' = down /\ up' = up
      /\ seen' = seen /\ raced' = raced
      /\ UNCHANGED <<conn, uploads, temps, orphans, file, committed>>
  BY DEF UploadContinues, agentVars
<1>3. place \in Asked
  BY DEF Asked
<1>4. /\ answer' \in [Ops -> Ups \union {NoAnswer}] /\ answer'[o] = NoAnswer
      /\ \A p \in Ops \ {o} : answer'[p] = answer[p]
      /\ ReplyOf(answer[o]) /\ Quiet(o) /\ o \notin pend /\ answer[o].o = o /\ answer[o].t = "ok"
      /\ answer[o].n \in Nat /\ at[o] = place
  BY <1>1, <1>3, AnsweredFields
<1>5. /\ TypeInv /\ PlaceOf(o) /\ CommittedOf(o) /\ SeenOf(o) /\ UploadOf(o) /\ off[o] \in Nat
  BY Present
<1>6. /\ at' \in [Ops -> Places] /\ at'[o] = "body" /\ off' \in [Ops -> Nat]
      /\ \A p \in Ops \ {o} : at'[p] = at[p] /\ off'[p] = off[p]
  BY <1>2, <1>4, <1>5, TypeParts DEF Places
<1>7. TypeInv'
  <2>1. /\ req \in [Ops -> Requests \union {NoRequest}]
        /\ result \in [Ops -> {"none", "ok", "failed", "unknown"}]
        /\ pend \subseteq Ops /\ down \in Seq(Downs) /\ up \in Seq(Ups)
        /\ seen \in [Ops -> SUBSET Versions] /\ raced \subseteq Ops
    BY <1>5, TypeParts
  <2> QED
    BY <1>2, <1>4, <1>5, <1>6, <2>1, ServerTypes
<1>8. Only(o)
  BY <1>2, <1>4, <1>6 DEF Only
<1>9. Allowed(o) /\ req[o].t = "upload"
  BY <1>4, <1>5 DEF ReplyOf, PlaceOf
<1>10. OpOf(o)'
  <2>1. PlaceOf(o)'
    BY <1>2, <1>4, <1>5, <1>6, <1>9 DEF PlaceOf, Allowed, Asked
  <2>2. CommittedOf(o)'
    BY <1>2, <1>4, <1>5, <1>6 DEF CommittedOf, Truncated
  <2>3. SeenOf(o)'
    BY <1>2, <1>5, <1>6, <1>9 DEF SeenOf
  <2>4. UploadOf(o)'
    BY <1>2, <1>5, <1>6 DEF UploadOf
  <2> QED
    BY <2>1, <2>2, <2>3, <2>4 DEF OpOf
<1> QED
  BY <1>2, <1>4, <1>7, <1>8, <1>10, QuietKeeps

LEMMA ReadBodyKeeps ==
    ASSUME IInv, NEW o \in Ops, ReadBody(o)
    PROVE  IInv'
<1>1. /\ at[o] = "body" /\ req' = req /\ off' = off /\ answer' = answer /\ up' = up /\ seen' = seen
      /\ raced' = raced /\ UNCHANGED <<conn, uploads, temps, orphans, file, committed>>
  BY DEF ReadBody, agentVars
<1>2. /\ TypeInv /\ PlaceOf(o) /\ CommittedOf(o) /\ SeenOf(o) /\ UploadOf(o) /\ off[o] \in Nat
  BY Present
<1>3. /\ req[o] \in Requests /\ req[o].t = "upload" /\ Allowed(o) /\ answer[o] = NoAnswer
      /\ o \notin committed /\ result[o] = "none" /\ o \notin pend
  BY <1>1, <1>2 DEF PlaceOf, CommittedOf, Asked
<1>4. req[o].size \in Nat /\ req[o].avail \in Nat /\ Chunk \in Nat
  BY <1>3, RequestFields, Constants
<1>5. PICK wait \in {"chunk", "close"}, m \in Downs :
          /\ Ask(o, wait, m) /\ m.o = o /\ m.t = wait
          /\ wait = "chunk" => m.offset + m.n <= req[o].avail
          /\ wait = "close" => m.n = req[o].size
  <2> DEFINE n == Least(Chunk, req[o].avail - off[o])
  <2>1. n \in Int /\ n <= req[o].avail - off[o]
    BY <1>2, <1>4 DEF Least
  <2>2. \/ n > 0 /\ Ask(o, "chunk", Message(o, "chunk", n, off[o]))
        \/ Ask(o, "close", Message(o, "close", Total(o), 0))
    BY DEF ReadBody
  <2>3. "chunk" \in Asked /\ "close" \in Asked
    BY DEF Asked
  <2> HIDE DEF n
  <2>4. CASE n > 0 /\ Ask(o, "chunk", Message(o, "chunk", n, off[o]))
    <3>1. n \in Nat /\ off[o] + n <= req[o].avail
      BY <1>2, <1>4, <2>1, <2>4
    <3> QED
      BY <1>2, <2>3, <2>4, <3>1, MessageFields
  <2>5. CASE Ask(o, "close", Message(o, "close", Total(o), 0))
    <3>1. Total(o) \in Nat /\ 0 \in Nat /\ Total(o) = req[o].size
      BY <1>4 DEF Total
    <3> QED
      BY <2>3, <2>5, <3>1, MessageFields
  <2> QED
    BY <2>2, <2>4, <2>5
<1>6. wait \in Asked
  BY DEF Asked
<1>7. /\ at' \in [Ops -> Places]
      /\ result' \in [Ops -> {"none", "ok", "failed", "unknown"}]
      /\ \A p \in Ops \ {o} : at'[p] = at[p] /\ result'[p] = result[p]
      /\ pend' \subseteq Ops /\ down' \in Seq(Downs)
      /\ \A p \in Ops \ {o} : p \in pend' <=> p \in pend
      /\ \/ at'[o] = wait /\ result' = result /\ (down' = down \/ down' = Append(down, m))
         \/ /\ at'[o] = "done" /\ result'[o] = Unanswered(o, wait) /\ down' = down
            /\ pend' = pend
  BY <1>2, <1>5, <1>6, AskFields
<1>8. Unanswered(o, wait) \in {"failed", "unknown"}
  BY DEF Unanswered
<1>9. TypeInv'
  <2>1. /\ req \in [Ops -> Requests \union {NoRequest}] /\ off \in [Ops -> Nat]
        /\ answer \in [Ops -> Ups \union {NoAnswer}] /\ up \in Seq(Ups)
        /\ seen \in [Ops -> SUBSET Versions] /\ raced \subseteq Ops
    BY <1>2, TypeParts
  <2> QED
    BY <1>1, <1>2, <1>7, <2>1, ServerTypes
<1>10. Only(o)
  BY <1>1, <1>7 DEF Only
<1>11. OpOf(o)'
  <2>1. PlaceOf(o)'
    BY <1>1, <1>2, <1>3, <1>5, <1>6, <1>7 DEF PlaceOf, Allowed
  <2>2. CommittedOf(o)'
    BY <1>1, <1>2, <1>3, <1>7, <1>8 DEF CommittedOf, Truncated
  <2>3. SeenOf(o)'
    BY <1>1, <1>2, <1>3, <1>7 DEF SeenOf
  <2>4. UploadOf(o)'
    BY <1>1, <1>2, <1>7 DEF UploadOf
  <2> QED
    BY <2>1, <2>2, <2>3, <2>4 DEF OpOf
<1>12. at'[o] = wait => DownOf(m)'
  BY <1>1, <1>3, <1>5, <1>7 DEF DownOf, Truncated, Allowed
<1>13. Quiet(o)
  BY <1>1, QuietAt
<1> QED
  BY <1>5, <1>7, <1>9, <1>10, <1>11, <1>12, <1>13, QuietKeeps

\* What one more part means for a download that has read one version.
LEMMA PartSeen ==
    ASSUME IInv, NEW o \in Ops, req[o].t = "download", NEW a \in Ups,
           a.n = Least(Chunk, LeftOf(a.file, off[o])), a.eof <=> a.n < Chunk,
           NEW S, S = seen[o] \union {a.file}
    PROVE  /\ IsFiniteSet(S) /\ S # {}
           /\ \A v \in S : S = {v} => /\ off[o] + a.n <= v.len
                                      /\ a.eof => off[o] + a.n = v.len
<1>1. SeenOf(o) /\ off[o] \in Nat /\ Chunk \in Nat
  BY Present, Constants
<1>2. IsFiniteSet(S) /\ S # {}
  BY <1>1, FS_AddElement DEF SeenOf
<1>3. ASSUME NEW v \in S, S = {v}
      PROVE  off[o] + a.n <= v.len /\ (a.eof => off[o] + a.n = v.len)
  <2>1. a.file = v /\ (seen[o] = {} \/ seen[o] = {v})
    BY <1>3
  <2>2. v.len \in Nat
    BY <2>1 DEF Ups, Versions
  <2>3. off[o] <= v.len
    <3>1. CASE seen[o] = {}
      BY <1>1, <2>2, <3>1 DEF SeenOf
    <3>2. CASE seen[o] = {v}
      BY <1>1, <3>2 DEF SeenOf
    <3> QED
      BY <2>1, <3>1, <3>2
  <2>4. LeftOf(a.file, off[o]) = v.len - off[o]
    BY <1>1, <2>1, <2>2, <2>3 DEF LeftOf
  <2>5. a.n = IF Chunk < v.len - off[o] THEN Chunk ELSE v.len - off[o]
    BY <2>4 DEF Least
  <2> QED
    BY <1>1, <2>2, <2>3, <2>5
<1> QED
  BY <1>2, <1>3

LEMMA DownloadContinuesKeeps ==
    ASSUME IInv, NEW o \in Ops, DownloadContinues(o)
    PROVE  IInv'
<1> DEFINE a == answer[o]
<1>1. /\ Answered(o, "read", TRUE)
      /\ off' = [off EXCEPT ![o] = @ + a.n]
      /\ seen' = [seen EXCEPT ![o] = @ \union {a.file}]
      /\ req' = req /\ up' = up /\ raced' = raced
      /\ UNCHANGED <<conn, uploads, temps, orphans, file, committed>>
  BY DEF DownloadContinues, agentVars
<1>2. "read" \in Asked
  BY DEF Asked
<1>3. /\ answer' \in [Ops -> Ups \union {NoAnswer}] /\ answer'[o] = NoAnswer
      /\ \A p \in Ops \ {o} : answer'[p] = answer[p]
      /\ ReplyOf(a) /\ Quiet(o) /\ o \notin pend /\ a.o = o /\ a.t = "ok"
      /\ a \in Ups /\ a.n \in Nat /\ a.file \in Versions /\ at[o] = "read"
  BY <1>1, <1>2, AnsweredFields
<1>4. /\ TypeInv /\ PlaceOf(o) /\ CommittedOf(o) /\ SeenOf(o) /\ UploadOf(o) /\ off[o] \in Nat
      /\ Chunk \in Nat
  BY Present, Constants
<1>5. /\ req[o].t = "download" /\ o \notin committed /\ result[o] = "none"
      /\ a.n = Least(Chunk, LeftOf(a.file, off[o])) /\ (a.eof <=> a.n < Chunk)
  BY <1>3, <1>4 DEF PlaceOf, CommittedOf, ReplyOf
<1>6. /\ off' \in [Ops -> Nat] /\ off'[o] = off[o] + a.n
      /\ seen' \in [Ops -> SUBSET Versions] /\ seen'[o] = seen[o] \union {a.file}
      /\ \A p \in Ops \ {o} : off'[p] = off[p] /\ seen'[p] = seen[p]
  BY <1>1, <1>3, <1>4, TypeParts
<1>7. PICK S : S = seen[o] \union {a.file}
  OBVIOUS
<1>8. /\ IsFiniteSet(S) /\ S # {}
      /\ \A v \in S : S = {v} => /\ off[o] + a.n <= v.len
                                 /\ a.eof => off[o] + a.n = v.len
  BY <1>3, <1>5, <1>7, PartSeen
<1>9. PICK m \in Downs : m = Message(o, "read", Chunk, off[o] + a.n)
  BY <1>2, <1>3, <1>4, MessageFields
<1>10. /\ m.o = o /\ m.t = "read" /\ m.n = Chunk /\ m.offset = off[o] + a.n
  BY <1>2, <1>3, <1>4, <1>9, MessageFields
<1>11. /\ at' \in [Ops -> Places]
       /\ result' \in [Ops -> {"none", "ok", "failed", "unknown"}]
       /\ \A p \in Ops \ {o} : at'[p] = at[p] /\ result'[p] = result[p]
       /\ pend' \subseteq Ops /\ down' \in Seq(Downs)
       /\ \A p \in Ops \ {o} : p \in pend' <=> p \in pend
       /\ \/ at'[o] = "read" /\ result' = result /\ (down' = down \/ down' = Append(down, m))
          \/ /\ at'[o] = "done" /\ down' = down /\ pend' = pend
             /\ result'[o] = "unknown" \/ (result'[o] = "ok" /\ a.eof)
  <2>1. CASE a.eof
    <3>1. Return(o, "ok") /\ down' = down /\ pend' = pend
      BY <2>1 DEF DownloadContinues
    <3> QED
      BY <1>4, <2>1, <3>1, ReturnFields, TypeParts
  <2>2. CASE ~a.eof
    <3>1. Ask(o, "read", m)
      BY <1>6, <1>9, <2>2 DEF DownloadContinues
    <3>2. Unanswered(o, "read") = "unknown"
      BY DEF Unanswered
    <3> QED
      BY <1>2, <1>4, <3>1, <3>2, AskFields
  <2> QED
    BY <2>1, <2>2
<1> HIDE DEF a
<1>12. TypeInv'
  <2>1. req \in [Ops -> Requests \union {NoRequest}] /\ up \in Seq(Ups) /\ raced \subseteq Ops
    BY <1>4, TypeParts
  <2> QED
    BY <1>1, <1>3, <1>4, <1>6, <1>11, <2>1, ServerTypes
<1>13. Only(o)
  BY <1>1, <1>3, <1>6, <1>11 DEF Only
<1>14. OpOf(o)'
  <2>1. PlaceOf(o)'
    BY <1>1, <1>2, <1>3, <1>4, <1>5, <1>11 DEF PlaceOf
  <2>2. CommittedOf(o)'
    BY <1>1, <1>4, <1>5, <1>11 DEF CommittedOf, Truncated
  <2>3. SeenOf(o)'
    BY <1>1, <1>5, <1>6, <1>7, <1>8, <1>11 DEF SeenOf
  <2>4. UploadOf(o)'
    BY <1>1, <1>3, <1>4, <1>11 DEF UploadOf
  <2> QED
    BY <2>1, <2>2, <2>3, <2>4 DEF OpOf
<1>15. at'[o] = "read" => DownOf(m)'
  BY <1>1, <1>3, <1>5, <1>6, <1>10, <1>11 DEF DownOf
<1> QED
  BY <1>3, <1>10, <1>11, <1>12, <1>13, <1>14, <1>15, QuietKeeps

LEMMA ReplyArrivesKeeps ==
    ASSUME IInv, ReplyArrives
    PROVE  IInv'
<1>1. /\ up # <<>> /\ up' = Tail(up) /\ req' = req /\ at' = at /\ off' = off /\ result' = result
      /\ down' = down /\ seen' = seen /\ UNCHANGED agentVars /\ conn' = conn
  BY DEF ReplyArrives
<1>2. /\ TypeInv /\ up \in Seq(Ups) /\ down \in Seq(Downs) /\ pend \subseteq Ops
      /\ answer \in [Ops -> Ups \union {NoAnswer}]
  BY TypeParts DEF IInv
<1>3. PICK r \in Ups : r = Head(up)
  BY <1>1, <1>2, Popped
<1>4. /\ Tail(up) \in Seq(Ups) /\ r = up[1] /\ 1 \in 1..Len(up) /\ r \in Within(up)
      /\ \A i \in 1..Len(Tail(up)) : i + 1 \in 1..Len(up) /\ i + 1 # 1 /\ Tail(up)[i] = up[i + 1]
      /\ Within(Tail(up)) \subseteq Within(up)
  BY <1>1, <1>2, <1>3, Popped
<1>5. r.o \in Ops /\ UpOf(r)
  BY <1>3, <1>4 DEF Ups, IInv, QueueInv
<1>6. /\ \A i, j \in 1..Len(up) : up[i].o = up[j].o => i = j
      /\ \A i, j \in 1..Len(down) : down[i].o = down[j].o => i = j
      /\ \A i \in 1..Len(down), j \in 1..Len(up) : down[i].o # up[j].o
  BY DEF IInv, QueueInv, Single
<1>7. /\ \A m \in Within(Tail(up)) : m.o # r.o
      /\ \A m \in Within(down) : m.o # r.o
  BY <1>4, <1>6 DEF Within
<1>8. /\ pend' \subseteq pend /\ r.o \notin pend'
      /\ \A p \in Ops \ {r.o} : p \in pend' <=> p \in pend
      /\ answer' \in [Ops -> Ups \union {NoAnswer}]
      /\ \A p \in Ops \ {r.o} : answer'[p] = answer[p]
      /\ r.o \in pend => answer'[r.o] = r
      /\ r.o \notin pend => answer' = answer
  <2>1. CASE r.o \in pend
    <3>1. pend' = pend \ {r.o} /\ answer' = [answer EXCEPT ![r.o] = r]
      BY <1>3, <2>1 DEF ReplyArrives
    <3> QED
      BY <1>2, <1>5, <2>1, <3>1
  <2>2. CASE r.o \notin pend
    <3>1. pend' = pend /\ answer' = answer
      BY <1>3, <2>2 DEF ReplyArrives
    <3> QED
      BY <1>2, <2>2, <3>1
  <2> QED
    BY <2>1, <2>2
<1>9. /\ raced' = raced /\ file' = file /\ committed' = committed /\ uploads' = uploads
      /\ temps' = temps /\ orphans' = orphans
  BY <1>1 DEF agentVars
<1>10. TypeInv'
  <2>1. /\ req \in [Ops -> Requests \union {NoRequest}] /\ at \in [Ops -> Places]
        /\ off \in [Ops -> Nat] /\ result \in [Ops -> {"none", "ok", "failed", "unknown"}]
        /\ seen \in [Ops -> SUBSET Versions] /\ raced \subseteq Ops
    BY <1>2, TypeParts
  <2>2. pend' \subseteq Ops
    BY <1>2, <1>8
  <2> QED
    BY <1>1, <1>2, <1>4, <1>8, <1>9, <2>1, <2>2, ServerTypes
<1>11. Single'
  <2>1. ASSUME NEW i \in 1..Len(up'), NEW j \in 1..Len(up'), up'[i].o = up'[j].o
        PROVE  i = j
    BY <1>1, <1>4, <1>6, <2>1
  <2>2. \A i \in 1..Len(down), j \in 1..Len(up') : down[i].o # up'[j].o
    BY <1>1, <1>4, <1>6
  <2> QED
    BY <1>1, <1>6, <2>1, <2>2 DEF Single
<1>12. ASSUME NEW m, m.o \in Ops \ {r.o}
       PROVE  (DownOf(m) => DownOf(m)') /\ (UpOf(m) => UpOf(m)')
  BY <1>1, <1>8, <1>9, <1>12 DEF DownOf, UpOf, ReplyOf, LeftOf, Allowed, Truncated
<1>13. QueueInv'
  <2>1. /\ \A m \in Within(down) : m.o \in Ops /\ DownOf(m)
        /\ \A m \in Within(up) : m.o \in Ops /\ UpOf(m)
    <3>1. Within(down) \subseteq Downs /\ Within(up) \subseteq Ups
      BY <1>2, WithinType
    <3> QED
      BY <3>1 DEF IInv, QueueInv, Downs, Ups
  <2>2. /\ \A m \in Within(down) : DownOf(m)'
        /\ \A m \in Within(Tail(up)) : UpOf(m)'
    BY <1>4, <1>7, <1>12, <2>1
  <2>3. Within(down') = Within(down) /\ Within(up') = Within(Tail(up))
    BY <1>1
  <2> QED
    BY <1>11, <2>2, <2>3, Zenon DEF QueueInv, Within
<1>14. ASSUME NEW p \in Ops
       PROVE  PlaceOf(p)'
  <2>1. PlaceOf(p)
    BY <1>14 DEF IInv, OpInv
  <2>2. \A x : ReplyOf(x) => ReplyOf(x)'
    BY <1>1, <1>9 DEF ReplyOf, LeftOf, Allowed
  <2>3. CASE p # r.o \/ r.o \notin pend
    <3>1. answer'[p] = answer[p] /\ (p \in pend' => p \in pend)
      BY <1>8, <1>14, <2>3
    <3>2. answer'[p] # NoAnswer => ReplyOf(answer[p])'
      BY <2>1, <2>2, <3>1 DEF PlaceOf
    <3> QED
      BY <1>1, <1>9, <2>1, <3>1, <3>2, Zenon DEF PlaceOf, Allowed
  <2>4. CASE p = r.o /\ r.o \in pend
    <3>1. answer'[p] = r /\ p \notin pend' /\ at[p] \in Asked
      BY <1>8, <2>1, <2>4 DEF PlaceOf
    <3>2. ReplyOf(r)'
      BY <1>5, <2>2 DEF UpOf
    <3>3. ReplyOf(answer[p])'
      BY <3>1, <3>2, Zenon DEF ReplyOf
    <3> QED
      BY <1>1, <1>9, <2>1, <2>4, <3>1, <3>3, Zenon DEF PlaceOf, Allowed
  <2> QED
    BY <2>3, <2>4
<1>15. ASSUME NEW p \in Ops
       PROVE  (CommittedOf(p) /\ SeenOf(p) /\ UploadOf(p))'
  BY <1>1, <1>9 DEF IInv, OpInv, CommittedOf, SeenOf, UploadOf, Truncated
<1>16. OpInv'
  BY <1>14, <1>15 DEF OpInv
<1>17. FileInv'
  BY <1>1, <1>9 DEF IInv, FileInv
<1> QED
  BY <1>10, <1>13, <1>16, <1>17 DEF IInv

-----------------------------------------------------------------------------
(* Steps of the agent *)

\* The agent takes request m and answers it.
LEMMA AgentKeeps ==
    ASSUME IInv, down # <<>>, NEW m \in Downs, m = Head(down), NEW r \in Ups, r.o = m.o,
           down' = Tail(down), up' = Append(up, r),
           UNCHANGED <<serverVars, conn, seen, orphans>>,
           temps' \subseteq Ops, uploads' \in [Ops -> Nat \union {-1}], file' \in Versions,
           committed' \subseteq Ops, raced' \subseteq Ops, raced \subseteq raced',
           \A p \in Ops \ {m.o} : /\ uploads'[p] = uploads[p]
                                  /\ p \in committed' <=> p \in committed,
           file' = NoFile => file = NoFile,
           ReplyOf(r)', CommittedOf(m.o)', UploadOf(m.o)', FileInv'
    PROVE  IInv'
<1>1. /\ req' = req /\ at' = at /\ off' = off /\ answer' = answer /\ result' = result
      /\ pend' = pend /\ conn' = conn /\ seen' = seen /\ orphans' = orphans
  BY DEF serverVars
<1>2. /\ TypeInv /\ up \in Seq(Ups) /\ down \in Seq(Downs)
      /\ Within(down) \subseteq Downs /\ Within(up) \subseteq Ups
  BY TypeParts, WithinType DEF IInv
<1>3. /\ Tail(down) \in Seq(Downs) /\ m = down[1] /\ 1 \in 1..Len(down) /\ m \in Within(down)
      /\ \A i \in 1..Len(Tail(down)) :
            i + 1 \in 1..Len(down) /\ i + 1 # 1 /\ Tail(down)[i] = down[i + 1]
      /\ Within(Tail(down)) \subseteq Within(down)
  BY <1>2, Popped
<1>4. /\ Append(up, r) \in Seq(Ups) /\ Len(Append(up, r)) = Len(up) + 1 /\ Len(up) \in Nat
      /\ \A i \in 1..Len(up) : Append(up, r)[i] = up[i]
      /\ Append(up, r)[Len(up) + 1] = r
      /\ Within(Append(up, r)) = Within(up) \union {r}
  BY <1>2, Pushed
<1>5. m.o \in Ops /\ m.t \in Asked /\ DownOf(m)
  BY <1>3 DEF Downs, IInv, QueueInv
<1>6. /\ \A i, j \in 1..Len(down) : down[i].o = down[j].o => i = j
      /\ \A i, j \in 1..Len(up) : up[i].o = up[j].o => i = j
      /\ \A i \in 1..Len(down), j \in 1..Len(up) : down[i].o # up[j].o
  BY DEF IInv, QueueInv, Single
<1>7. /\ \A x \in Within(Tail(down)) : x.o # m.o
      /\ \A x \in Within(up) : x.o # m.o
  BY <1>3, <1>6 DEF Within
<1>8. TypeInv'
  <2>1. /\ req \in [Ops -> Requests \union {NoRequest}] /\ at \in [Ops -> Places]
        /\ off \in [Ops -> Nat] /\ result \in [Ops -> {"none", "ok", "failed", "unknown"}]
        /\ answer \in [Ops -> Ups \union {NoAnswer}] /\ conn \in {"up", "down"}
        /\ seen \in [Ops -> SUBSET Versions] /\ pend \subseteq Ops /\ orphans \subseteq Ops
    BY <1>2, TypeParts
  <2>2. down' \in Seq(Downs) /\ up' \in Seq(Ups)
    BY <1>3, <1>4
  <2> QED
    BY <1>1, <2>1, <2>2, Zenon DEF TypeInv, TypeOK, Places, Asked, Downs, Ups
<1>9. Single'
  <2>1. \A i, j \in 1..Len(down') : down'[i].o = down'[j].o => i = j
    <3>1. ASSUME NEW i \in 1..Len(down'), NEW j \in 1..Len(down'), down'[i].o = down'[j].o
          PROVE  i = j
      BY <1>3, <1>6, <3>1
    <3> QED
      BY <3>1
  <2>2. ASSUME NEW j \in 1..Len(up')
        PROVE  \/ j \in 1..Len(up) /\ up'[j] = up[j] /\ up[j].o # m.o
               \/ j = Len(up) + 1 /\ up'[j] = r
    BY <1>3, <1>4, <1>6
  <2>3. ASSUME NEW i \in 1..Len(up'), NEW j \in 1..Len(up'), up'[i].o = up'[j].o
        PROVE  i = j
    BY <1>6, <2>2, <2>3
  <2>4. ASSUME NEW i \in 1..Len(down'), NEW j \in 1..Len(up')
        PROVE  down'[i].o # up'[j].o
    <3>1. i + 1 \in 1..Len(down) /\ down'[i] = down[i + 1] /\ down[i + 1].o # m.o
      BY <1>3, <1>6
    <3> QED
      BY <1>6, <2>2, <3>1
  <2> QED
    BY <2>1, <2>3, <2>4 DEF Single
<1>10. ASSUME NEW x, x.o \in Ops \ {m.o}
       PROVE  (DownOf(x) => DownOf(x)') /\ (UpOf(x) => UpOf(x)')
  BY <1>1, <1>10 DEF DownOf, UpOf, ReplyOf, LeftOf, Allowed, Truncated
<1>11. UpOf(r)'
  BY <1>1, <1>5 DEF UpOf, DownOf, Asked
<1>12. QueueInv'
  <2>1. /\ \A x \in Within(Tail(down)) : x.o \in Ops /\ DownOf(x)
        /\ \A x \in Within(up) : x.o \in Ops /\ UpOf(x)
    BY <1>2, <1>3 DEF IInv, QueueInv, Downs, Ups
  <2>2. /\ \A x \in Within(Tail(down)) : DownOf(x)'
        /\ \A x \in Within(up) : UpOf(x)'
    BY <1>7, <1>10, <2>1
  <2>3. /\ Within(down') = Within(Tail(down))
        /\ \A x \in Within(up') : x \in Within(up) \/ x = r
    BY <1>4
  <2>4. \A x \in Within(up') : UpOf(x)'
    <3>1. ASSUME NEW x \in Within(up')
          PROVE  UpOf(x)'
      <4>1. PICK y : y = x
        OBVIOUS
      <4>2. UpOf(y)'
        BY <1>11, <2>2, <2>3, <4>1
      <4> QED
        BY <4>1, <4>2
    <3> QED
      BY <3>1
  <2> QED
    BY <1>9, <2>2, <2>3, <2>4, Zenon DEF QueueInv, Within
<1>13. ASSUME NEW p \in Ops
       PROVE  PlaceOf(p)'
  <2>1. PlaceOf(p)
    BY <1>13 DEF IInv, OpInv
  <2>2. Allowed(p) => Allowed(p)'
    BY <1>1 DEF Allowed
  <2>3. answer[p] # NoAnswer => ReplyOf(answer[p])'
    <3>1. answer[p] # NoAnswer => p # m.o /\ answer[p].o = p /\ ReplyOf(answer[p])
      BY <1>5, <2>1 DEF DownOf, PlaceOf
    <3> QED
      BY <1>1, <2>2, <3>1 DEF ReplyOf, LeftOf
  <2> QED
    BY <1>1, <2>1, <2>2, <2>3, Zenon DEF PlaceOf, ReplyOf
<1>14. ASSUME NEW p \in Ops
       PROVE  (CommittedOf(p) /\ SeenOf(p) /\ UploadOf(p))'
  <2>1. CommittedOf(p) /\ SeenOf(p) /\ UploadOf(p)
    BY <1>14 DEF IInv, OpInv
  <2>2. SeenOf(p)'
    BY <1>1, <2>1 DEF SeenOf
  <2>3. CASE p = m.o
    BY <2>2, <2>3
  <2>4. CASE p # m.o
    BY <1>1, <2>1, <2>2, <2>4 DEF CommittedOf, UploadOf, Truncated
  <2> QED
    BY <2>3, <2>4
<1> QED
  BY <1>8, <1>12, <1>13, <1>14 DEF IInv, OpInv

\* What the agent takes from the connection, and what it may tell.
LEMMA Taken ==
    ASSUME IInv, NEW t, Handles(t)
    PROVE  /\ down # <<>> /\ Head(down) \in Downs /\ Head(down).t = t /\ Head(down).o \in Ops
           /\ DownOf(Head(down)) /\ OpOf(Head(down).o)
           /\ req[Head(down).o] \in Requests
           /\ down' = Tail(down) /\ UNCHANGED <<serverVars, conn, seen>>
<1>1. down # <<>> /\ Head(down).t = t /\ down' = Tail(down) /\ UNCHANGED <<serverVars, conn, seen>>
  BY DEF Handles
<1>2. down \in Seq(Downs)
  BY TypeParts DEF IInv
<1>3. Head(down) \in Downs /\ Head(down) \in Within(down)
  BY <1>1, <1>2, Popped
<1>4. DownOf(Head(down)) /\ Head(down).o \in Ops /\ Head(down).t \in Asked
  BY <1>3 DEF IInv, QueueInv, Downs
<1>5. OpOf(Head(down).o)
  BY <1>4, Present DEF OpOf
<1>6. req[Head(down).o] \in Requests
  BY <1>4, <1>5 DEF OpOf, PlaceOf, DownOf, Asked
<1> QED
  BY <1>1, <1>3, <1>4, <1>5, <1>6

LEMMA ReplyFields ==
    ASSUME NEW o \in Ops, NEW t \in {"ok", "error"}, NEW n \in Nat, NEW eof \in BOOLEAN,
           NEW v \in Versions, Reply(o, t, n, eof, v)
    PROVE  \E r \in Ups : /\ r.o = o /\ r.t = t /\ r.n = n /\ r.eof = eof /\ r.file = v
                          /\ up' = Append(up, r)
<1> DEFINE r == [o |-> o, t |-> t, n |-> n, eof |-> eof, file |-> v]
<1>1. r \in Ups /\ r.o = o /\ r.t = t /\ r.n = n /\ r.eof = eof /\ r.file = v
  BY DEF Ups
<1>2. up' = Append(up, r)
  BY DEF Reply
<1> QED
  BY <1>1, <1>2

LEMMA OkFields ==
    ASSUME NEW o \in Ops, NEW n \in Nat, ReplyOk(o, n)
    PROVE  \E r \in Ups : r.o = o /\ r.t = "ok" /\ up' = Append(up, r)
<1>1. NoFile \in Versions /\ Reply(o, "ok", n, FALSE, NoFile)
  BY Constants DEF ReplyOk
<1> DEFINE r == [o |-> o, t |-> "ok", n |-> n, eof |-> FALSE, file |-> NoFile]
<1>2. r \in Ups /\ r.o = o /\ r.t = "ok"
  BY <1>1 DEF Ups
<1>3. up' = Append(up, r)
  BY <1>1 DEF Reply
<1> QED
  BY <1>2, <1>3

LEMMA ErrorFields ==
    ASSUME NEW o \in Ops, ReplyError(o)
    PROVE  \E r \in Ups : r.o = o /\ r.t = "error" /\ up' = Append(up, r)
<1>1. NoFile \in Versions /\ Reply(o, "error", 0, FALSE, NoFile)
  BY Constants DEF ReplyError
<1> DEFINE r == [o |-> o, t |-> "error", n |-> 0, eof |-> FALSE, file |-> NoFile]
<1>2. r \in Ups /\ r.o = o /\ r.t = "error"
  BY <1>1 DEF Ups
<1>3. up' = Append(up, r)
  BY <1>1 DEF Reply
<1> QED
  BY <1>2, <1>3

\* The upload leaves the map.
LEMMA DroppedFields ==
    ASSUME TypeInv, NEW o \in Ops, Dropped(o)
    PROVE  /\ uploads' \in [Ops -> Nat \union {-1}] /\ uploads'[o] = -1 /\ temps' \subseteq Ops
           /\ \A p \in Ops \ {o} : uploads'[p] = uploads[p]
BY TypeParts DEF Dropped

\* The agent answers a request and the file stays as it is.
LEMMA AgentAnswers ==
    ASSUME IInv, NEW t, Handles(t), NEW r \in Ups, r.o = Head(down).o, up' = Append(up, r),
           UNCHANGED <<orphans, file, committed, raced>>,
           temps' \subseteq Ops, uploads' \in [Ops -> Nat \union {-1}],
           \A p \in Ops \ {r.o} : uploads'[p] = uploads[p],
           ReplyOf(r), uploads'[r.o] # -1 => /\ at[r.o] # "idle" /\ req[r.o].t = "upload"
                                             /\ uploads'[r.o] <= req[r.o].avail
    PROVE  IInv'
<1>1. PICK m \in Downs : m = Head(down)
  BY Taken
<1>2. /\ down # <<>> /\ down' = Tail(down) /\ UNCHANGED <<serverVars, conn, seen>>
      /\ m.o \in Ops /\ OpOf(m.o) /\ r.o = m.o
  BY <1>1, Taken
<1>3. /\ req' = req /\ at' = at /\ off' = off /\ answer' = answer /\ result' = result
      /\ file' = file /\ committed' = committed /\ raced' = raced
  BY <1>2 DEF serverVars
<1>4. file \in Versions /\ committed \subseteq Ops /\ raced \subseteq Ops
  BY TypeParts DEF IInv
<1>5. ReplyOf(r)'
  BY <1>3 DEF ReplyOf, LeftOf, Allowed
<1>6. CommittedOf(m.o)' /\ UploadOf(m.o)'
  BY <1>2, <1>3 DEF OpOf, CommittedOf, UploadOf, Truncated
<1>7. FileInv'
  BY <1>3 DEF IInv, FileInv
<1> QED
  BY <1>1, <1>2, <1>3, <1>4, <1>5, <1>6, <1>7, AgentKeeps

LEMMA AgentOpensKeeps ==
    ASSUME IInv, AgentOpens
    PROVE  IInv'
<1>1. /\ Handles("open") /\ UNCHANGED <<orphans, file, committed, raced>>
  BY DEF AgentOpens
<1>2. PICK o \in Ops : o = Head(down).o
  BY <1>1, Taken
<1>3. /\ at[o] \in {"open", "done"} /\ req[o].t = "upload" /\ req[o] \in Requests
      /\ OpOf(o) /\ at[o] # "idle"
  BY <1>1, <1>2, Taken DEF DownOf
<1>4. TypeInv /\ uploads \in [Ops -> Nat \union {-1}] /\ temps \subseteq Ops
  BY TypeParts DEF IInv
<1>5. CASE /\ MayOpen(o) /\ uploads' = [uploads EXCEPT ![o] = 0]
           /\ temps' = temps \union {o} /\ ReplyOk(o, 0)
  <2>1. PICK r \in Ups : r.o = o /\ r.t = "ok" /\ up' = Append(up, r)
    BY <1>5, OkFields
  <2>2. /\ uploads' \in [Ops -> Nat \union {-1}] /\ uploads'[o] = 0 /\ temps' \subseteq Ops
        /\ \A p \in Ops \ {o} : uploads'[p] = uploads[p]
    BY <1>4, <1>5
  <2>3. ReplyOf(r)
    BY <1>3, <1>5, <2>1 DEF ReplyOf, MayOpen, Allowed, OpOf, PlaceOf
  <2>4. 0 <= req[o].avail
    BY <1>3, RequestFields
  <2> QED
    BY <1>1, <1>2, <1>3, <2>1, <2>2, <2>3, <2>4, AgentAnswers
<1>6. CASE UNCHANGED <<uploads, temps>> /\ ReplyError(o)
  <2>1. PICK r \in Ups : r.o = o /\ r.t = "error" /\ up' = Append(up, r)
    BY <1>6, ErrorFields
  <2>2. ReplyOf(r)
    BY <1>3, <2>1 DEF ReplyOf
  <2>3. uploads[o] # -1 => uploads[o] <= req[o].avail
    BY <1>3 DEF OpOf, UploadOf
  <2> QED
    BY <1>1, <1>2, <1>3, <1>4, <1>6, <2>1, <2>2, <2>3, AgentAnswers
<1> QED
  BY <1>2, <1>5, <1>6 DEF AgentOpens

LEMMA AgentWritesKeeps ==
    ASSUME IInv, AgentWrites
    PROVE  IInv'
<1>1. /\ Handles("chunk") /\ UNCHANGED <<orphans, file, committed, raced>>
  BY DEF AgentWrites
<1>2. PICK m \in Downs : m = Head(down)
  BY <1>1, Taken
<1>3. PICK o \in Ops : o = m.o
  BY <1>1, <1>2, Taken
<1>4. /\ at[o] \in {"chunk", "done"} /\ req[o].t = "upload" /\ req[o] \in Requests
      /\ OpOf(o) /\ at[o] # "idle" /\ m.offset + m.n <= req[o].avail
      /\ m.n \in Nat /\ m.offset \in Nat
  BY <1>1, <1>2, <1>3, Taken DEF DownOf, Downs
<1>5. TypeInv /\ uploads \in [Ops -> Nat \union {-1}] /\ temps \subseteq Ops
  BY TypeParts DEF IInv
<1>6. CASE /\ uploads[o] = m.offset /\ uploads' = [uploads EXCEPT ![o] = @ + m.n]
           /\ ReplyOk(o, m.n) /\ temps' = temps
  <2>1. PICK r \in Ups : r.o = o /\ r.t = "ok" /\ up' = Append(up, r)
    BY <1>4, <1>6, OkFields
  <2>2. /\ uploads' \in [Ops -> Nat \union {-1}] /\ uploads'[o] = m.offset + m.n
        /\ temps' \subseteq Ops /\ \A p \in Ops \ {o} : uploads'[p] = uploads[p]
    BY <1>4, <1>5, <1>6
  <2>3. ReplyOf(r)
    BY <1>4, <2>1 DEF ReplyOf
  <2> QED
    BY <1>1, <1>2, <1>3, <1>4, <2>1, <2>2, <2>3, AgentAnswers
<1>7. CASE Dropped(o) /\ ReplyError(o)
  <2>1. PICK r \in Ups : r.o = o /\ r.t = "error" /\ up' = Append(up, r)
    BY <1>7, ErrorFields
  <2>2. ReplyOf(r)
    BY <1>4, <2>1 DEF ReplyOf
  <2> QED
    BY <1>1, <1>2, <1>3, <1>4, <1>5, <1>7, <2>1, <2>2, DroppedFields, AgentAnswers
<1> QED
  BY <1>2, <1>3, <1>6, <1>7 DEF AgentWrites

LEMMA AgentClosesKeeps ==
    ASSUME IInv, AgentCloses
    PROVE  IInv'
<1>1. Handles("close") /\ UNCHANGED orphans
  BY DEF AgentCloses
<1>2. PICK m \in Downs : m = Head(down)
  BY <1>1, Taken
<1>3. PICK o \in Ops : o = m.o
  BY <1>1, <1>2, Taken
<1>4. /\ at[o] \in {"close", "done"} /\ req[o].t = "upload" /\ req[o] \in Requests
      /\ OpOf(o) /\ at[o] # "idle" /\ m.n = req[o].size /\ m.n \in Nat
      /\ result[o] = "failed" => Truncated(o)
      /\ o \notin committed /\ down # <<>> /\ down' = Tail(down)
      /\ UNCHANGED <<serverVars, conn, seen>>
  BY <1>1, <1>2, <1>3, Taken DEF DownOf, Downs
<1>5. TypeInv /\ committed \subseteq Ops /\ raced \subseteq Ops
  BY TypeParts DEF IInv
<1>6. Dropped(o)
  BY <1>2, <1>3 DEF AgentCloses
<1>7. /\ uploads' \in [Ops -> Nat \union {-1}] /\ uploads'[o] = -1 /\ temps' \subseteq Ops
      /\ \A p \in Ops \ {o} : uploads'[p] = uploads[p]
  BY <1>5, <1>6, DroppedFields
<1>8. CASE /\ uploads[o] = m.n /\ file' = [by |-> o, len |-> m.n]
           /\ committed' = committed \union {o} /\ raced' = raced \union Running
           /\ ReplyOk(o, 0)
  <2>1. PICK r \in Ups : r.o = o /\ r.t = "ok" /\ up' = Append(up, r)
    BY <1>8, OkFields
  <2>2. /\ file' \in Versions /\ file'.by = o /\ file'.len = m.n /\ file' # NoFile
    BY <1>4, <1>8, Constants DEF Versions
  <2>3. /\ committed' \subseteq Ops /\ o \in committed' /\ raced' \subseteq Ops
        /\ raced \subseteq raced' /\ \A p \in Ops \ {o} : p \in committed' <=> p \in committed
    BY <1>5, <1>8 DEF Running
  <2>4. req' = req /\ at' = at /\ off' = off /\ answer' = answer /\ result' = result
    BY <1>4 DEF serverVars
  <2>5. req[o].avail = req[o].size
    <3>1. uploads[o] # -1 /\ uploads[o] = req[o].size
      BY <1>4, <1>8
    <3>2. req[o].size <= req[o].avail
      BY <1>4, <3>1 DEF OpOf, UploadOf
    <3> QED
      BY <1>4, <3>2, RequestFields
  <2>6. ~Truncated(o)
    BY <1>4, <2>5, RequestFields DEF Truncated
  <2>7. ReplyOf(r)'
    BY <1>4, <2>1, <2>3, <2>4 DEF ReplyOf
  <2>8. CommittedOf(o)'
    BY <1>4, <2>3, <2>4, <2>6 DEF CommittedOf, Truncated, OpOf
  <2>9. UploadOf(o)'
    BY <1>7 DEF UploadOf
  <2>10. FileInv'
    BY <1>4, <2>2, <2>4, <2>5 DEF FileInv
  <2> QED
    BY <1>1, <1>2, <1>3, <1>4, <1>7, <2>1, <2>2, <2>3, <2>7, <2>8, <2>9, <2>10, AgentKeeps
<1>9. CASE UNCHANGED <<file, committed, raced>> /\ ReplyError(o)
  <2>1. PICK r \in Ups : r.o = o /\ r.t = "error" /\ up' = Append(up, r)
    BY <1>9, ErrorFields
  <2>2. ReplyOf(r)
    BY <1>4, <2>1 DEF ReplyOf
  <2> QED
    BY <1>1, <1>2, <1>3, <1>7, <1>9, <2>1, <2>2, AgentAnswers
<1> QED
  BY <1>2, <1>3, <1>8, <1>9 DEF AgentCloses

LEMMA AgentReadsKeeps ==
    ASSUME IInv, AgentReads
    PROVE  IInv'
<1>1. /\ Handles("read") /\ UNCHANGED <<uploads, temps, orphans, file, committed, raced>>
  BY DEF AgentReads, agentVars
<1>2. PICK m \in Downs : m = Head(down)
  BY <1>1, Taken
<1>3. PICK o \in Ops : o = m.o
  BY <1>1, <1>2, Taken
<1>4. /\ at[o] \in {"read", "done"} /\ OpOf(o) /\ m.n = Chunk /\ m.offset = off[o]
  BY <1>1, <1>2, <1>3, Taken DEF DownOf
<1>5. /\ TypeInv /\ uploads \in [Ops -> Nat \union {-1}] /\ temps \subseteq Ops
      /\ file \in Versions /\ off[o] \in Nat /\ Chunk \in Nat
  BY TypeParts, Constants DEF IInv
<1>6. uploads[o] # -1 => /\ at[o] # "idle" /\ req[o].t = "upload" /\ uploads[o] <= req[o].avail
  BY <1>4 DEF OpOf, UploadOf
<1>7. CASE file = NoFile /\ ReplyError(o)
  <2>1. PICK r \in Ups : r.o = o /\ r.t = "error" /\ up' = Append(up, r)
    BY <1>7, ErrorFields
  <2>2. ReplyOf(r)
    BY <1>4, <2>1 DEF ReplyOf
  <2> QED
    BY <1>1, <1>2, <1>3, <1>5, <1>6, <2>1, <2>2, AgentAnswers
<1>8. CASE file # NoFile
  <2> DEFINE n == Least(Chunk, LeftOf(file, off[o]))
  <2>1. n \in Nat
    BY <1>5 DEF Least, LeftOf, Versions
  <2>2. Reply(o, "ok", n, AtEof(n, m), file)
    BY <1>2, <1>3, <1>4, <1>8 DEF AgentReads, LeftOf
  <2> DEFINE r == [o |-> o, t |-> "ok", n |-> n, eof |-> AtEof(n, m), file |-> file]
  <2> HIDE DEF n
  <2>3. AtEof(n, m) \in BOOLEAN /\ (AtEof(n, m) <=> n < Chunk)
    BY <1>4 DEF AtEof
  <2>4. r \in Ups
    BY <1>5, <2>1, <2>3 DEF Ups
  <2>5. /\ r.o = o /\ r.t = "ok" /\ r.n = n /\ r.file = file /\ r.eof = AtEof(n, m)
        /\ up' = Append(up, r)
    BY <2>2 DEF Reply
  <2>6. ReplyOf(r)
    <3>1. r.n = Least(Chunk, LeftOf(r.file, off[r.o]))
      BY <2>5 DEF n
    <3>2. r.eof <=> r.n < Chunk
      BY <2>3, <2>5
    <3> HIDE DEF r
    <3> QED
      BY <1>4, <2>5, <3>1, <3>2 DEF ReplyOf
  <2> HIDE DEF r
  <2> QED
    BY <1>1, <1>2, <1>3, <1>5, <1>6, <2>4, <2>5, <2>6, AgentAnswers
<1> QED
  BY <1>2, <1>3, <1>7, <1>8 DEF AgentReads

LEMMA AgentListsKeeps ==
    ASSUME IInv, AgentLists
    PROVE  IInv'
<1>1. /\ Handles("list") /\ UNCHANGED <<uploads, temps, orphans, file, committed, raced>>
  BY DEF AgentLists, agentVars
<1>2. PICK o \in Ops : o = Head(down).o
  BY <1>1, Taken
<1>3. at[o] \in {"list", "done"} /\ OpOf(o)
  BY <1>1, <1>2, Taken DEF DownOf
<1>4. TypeInv /\ uploads \in [Ops -> Nat \union {-1}] /\ temps \subseteq Ops
  BY TypeParts DEF IInv
<1>5. uploads[o] # -1 => /\ at[o] # "idle" /\ req[o].t = "upload" /\ uploads[o] <= req[o].avail
  BY <1>3 DEF OpOf, UploadOf
<1>6. PICK r \in Ups : r.o = o /\ r.t \in {"ok", "error"} /\ up' = Append(up, r)
  BY <1>2, OkFields, ErrorFields DEF AgentLists
<1>7. ReplyOf(r)
  BY <1>3, <1>6 DEF ReplyOf
<1> QED
  BY <1>1, <1>2, <1>4, <1>5, <1>6, <1>7, AgentAnswers

-----------------------------------------------------------------------------
(* Steps of the device and of its connection *)

\* Nothing is sent or answered; the connection may lose what is on its way.
LEMMA OutsideKeeps ==
    ASSUME IInv, UNCHANGED <<serverVars, seen, committed>>,
           (down' = down /\ up' = up) \/ (down' = <<>> /\ up' = <<>>),
           conn' \in {"up", "down"}, temps' \subseteq Ops, orphans' \subseteq Ops,
           uploads' \in [Ops -> Nat \union {-1}],
           \A p \in Ops : uploads'[p] = uploads[p] \/ uploads'[p] = -1,
           raced \subseteq raced', raced' \subseteq Ops,
           \/ file' = file
           \/ file' \in Versions /\ file'.by \notin Ops /\ Running \subseteq raced'
    PROVE  IInv'
<1>1. /\ req' = req /\ at' = at /\ off' = off /\ answer' = answer /\ result' = result
      /\ pend' = pend /\ seen' = seen /\ committed' = committed
  BY DEF serverVars
<1>2. /\ TypeInv /\ file \in Versions /\ down \in Seq(Downs) /\ up \in Seq(Ups)
  BY TypeParts DEF IInv
<1>3. TypeInv'
  <2>1. /\ req \in [Ops -> Requests \union {NoRequest}] /\ at \in [Ops -> Places]
        /\ off \in [Ops -> Nat] /\ result \in [Ops -> {"none", "ok", "failed", "unknown"}]
        /\ answer \in [Ops -> Ups \union {NoAnswer}] /\ committed \subseteq Ops
        /\ seen \in [Ops -> SUBSET Versions] /\ pend \subseteq Ops
    BY <1>2, TypeParts
  <2>2. down' \in Seq(Downs) /\ up' \in Seq(Ups)
    <3>1. <<>> \in Seq(Downs) /\ <<>> \in Seq(Ups)
      OBVIOUS
    <3> QED
      BY <1>2, <3>1
  <2>3. file' \in Versions /\ conn' \in {"up", "down"}
    BY <1>2
  <2> QED
    BY <1>1, <2>1, <2>2, <2>3, Zenon DEF TypeInv, TypeOK, Places, Asked, Downs, Ups
<1>4. ASSUME NEW m
      PROVE  (DownOf(m) => DownOf(m)') /\ (UpOf(m) => UpOf(m)')
  BY <1>1 DEF DownOf, UpOf, ReplyOf, LeftOf, Allowed, Truncated
<1>5. QueueInv'
  <2>1. Single /\ (\A m \in Within(down) : DownOf(m)) /\ (\A m \in Within(up) : UpOf(m))
    BY DEF IInv, QueueInv
  <2>2. CASE down' = down /\ up' = up
    <3>1. Single'
      BY <2>1, <2>2 DEF Single
    <3>2. \A m \in Within(down) : DownOf(m)'
      BY <1>4, <2>1
    <3>3. \A m \in Within(up) : UpOf(m)'
      BY <1>4, <2>1
    <3> QED
      BY <2>2, <3>1, <3>2, <3>3, Zenon DEF QueueInv, Within
  <2>3. CASE down' = <<>> /\ up' = <<>>
    <3>1. Single'
      BY <2>3 DEF Single
    <3>2. Within(down') = {} /\ Within(up') = {}
      BY <2>3 DEF Within
    <3> QED
      BY <3>1, <3>2, Zenon DEF QueueInv, Within
  <2> QED
    BY <2>2, <2>3
<1>6. ASSUME NEW p \in Ops
      PROVE  PlaceOf(p)'
  <2>1. PlaceOf(p)
    BY <1>6 DEF IInv, OpInv
  <2>2. Allowed(p) => Allowed(p)'
    BY <1>1 DEF Allowed
  <2>3. answer[p] # NoAnswer => ReplyOf(answer[p])'
    BY <1>1, <2>1, <2>2 DEF PlaceOf, ReplyOf, LeftOf
  <2>4. at[p] \notin {"idle", "done"} /\ file' = NoFile => p \in raced'
    BY <2>1, <1>6 DEF PlaceOf, Running
  <2> QED
    BY <1>1, <2>1, <2>2, <2>3, <2>4, Zenon DEF PlaceOf, ReplyOf
<1>7. ASSUME NEW p \in Ops
      PROVE  (CommittedOf(p) /\ SeenOf(p) /\ UploadOf(p))'
  BY <1>1 DEF IInv, OpInv, CommittedOf, SeenOf, UploadOf, Truncated
<1>8. OpInv'
  BY <1>6, <1>7 DEF OpInv
<1>9. FileInv'
  BY <1>1 DEF IInv, FileInv
<1> QED
  BY <1>3, <1>5, <1>8, <1>9 DEF IInv

LEMMA CleanUpStaleKeeps ==
    ASSUME IInv, NEW o \in Ops, CleanUpStale(o)
    PROVE  IInv'
<1>1. /\ conn \in {"up", "down"} /\ orphans \subseteq Ops /\ raced \subseteq Ops /\ TypeInv
  BY TypeParts DEF IInv
<1>2. /\ Dropped(o)
      /\ UNCHANGED <<serverVars, conn, down, up, orphans, file, committed, raced, seen>>
  BY DEF CleanUpStale
<1> QED
  BY <1>1, <1>2, DroppedFields, OutsideKeeps

LEMMA AgentGoesKeeps ==
    ASSUME IInv, AgentGoes
    PROVE  IInv'
<1>1. orphans \subseteq Ops /\ temps \subseteq Ops /\ raced \subseteq Ops
  BY TypeParts DEF IInv
<1>2. /\ conn' = "down" /\ down' = <<>> /\ up' = <<>> /\ temps' = {}
      /\ uploads' = [p \in Ops |-> -1]
      /\ orphans' = orphans \/ orphans' = orphans \union temps
      /\ UNCHANGED <<serverVars, file, committed, raced, seen>>
  BY DEF AgentGoes
<1>3. uploads' \in [Ops -> Nat \union {-1}] /\ \A p \in Ops : uploads'[p] = -1
  BY <1>2
<1> QED
  BY <1>1, <1>2, <1>3, OutsideKeeps

LEMMA AgentReturnsKeeps ==
    ASSUME IInv, AgentReturns
    PROVE  IInv'
<1>1. /\ orphans \subseteq Ops /\ temps \subseteq Ops /\ raced \subseteq Ops
      /\ uploads \in [Ops -> Nat \union {-1}]
  BY TypeParts DEF IInv
<1>2. /\ conn' = "up"
      /\ UNCHANGED <<serverVars, seen, down, up>>
      /\ UNCHANGED <<uploads, temps, orphans, file, committed, raced>>
  BY DEF AgentReturns, agentVars
<1> QED
  BY <1>1, <1>2, OutsideKeeps

LEMMA DeviceChangesKeeps ==
    ASSUME IInv, DeviceChanges
    PROVE  IInv'
<1>1. /\ conn \in {"up", "down"} /\ orphans \subseteq Ops /\ temps \subseteq Ops
      /\ raced \subseteq Ops /\ uploads \in [Ops -> Nat \union {-1}]
  BY TypeParts DEF IInv
<1>2. /\ UNCHANGED <<serverVars, conn, down, up, uploads, temps, orphans, committed, seen>>
      /\ raced' = raced \union Running
      /\ file' = NoFile \/ file' = [by |-> "device", len |-> Chunk]
  BY DEF DeviceChanges
<1>3. file' \in Versions /\ file'.by \notin Ops
  BY <1>2, Constants
<1>4. Running \subseteq Ops
  BY DEF Running
<1> QED
  BY <1>1, <1>2, <1>3, <1>4, OutsideKeeps

LEMMA StutterKeeps ==
    ASSUME IInv, UNCHANGED vars
    PROVE  IInv'
<1>1. /\ conn \in {"up", "down"} /\ orphans \subseteq Ops /\ temps \subseteq Ops
      /\ raced \subseteq Ops /\ uploads \in [Ops -> Nat \union {-1}]
  BY TypeParts DEF IInv
<1>2. /\ UNCHANGED <<serverVars, seen, down, up, conn>>
      /\ UNCHANGED <<uploads, temps, orphans, file, committed, raced>>
  BY DEF vars, agentVars
<1> QED
  BY <1>1, <1>2, OutsideKeeps

-----------------------------------------------------------------------------
(* The invariant *)

LEMMA InitInv == Init => IInv
<1> SUFFICES ASSUME Init PROVE IInv
  OBVIOUS
<1>1. /\ req = [o \in Ops |-> NoRequest] /\ at = [o \in Ops |-> "idle"]
      /\ off = [o \in Ops |-> 0] /\ answer = [o \in Ops |-> NoAnswer]
      /\ result = [o \in Ops |-> "none"] /\ pend = {} /\ conn = "up"
      /\ down = <<>> /\ up = <<>> /\ uploads = [o \in Ops |-> -1]
      /\ temps = {} /\ orphans = {} /\ committed = {} /\ raced = {}
      /\ seen = [o \in Ops |-> {}]
      /\ file = NoFile \/ file = [by |-> "device", len |-> Chunk]
  BY DEF Init
<1>2. file \in Versions /\ file.by \notin Ops
  BY <1>1, Constants
<1>3. TypeInv
  BY <1>1, <1>2, TypeParts DEF Places
<1>4. QueueInv
  BY <1>1 DEF QueueInv, Single, Within
<1>5. ASSUME NEW o \in Ops
      PROVE  PlaceOf(o) /\ CommittedOf(o) /\ SeenOf(o) /\ UploadOf(o)
  <2>1. /\ req[o] = NoRequest /\ at[o] = "idle" /\ off[o] = 0 /\ answer[o] = NoAnswer
        /\ result[o] = "none" /\ o \notin pend /\ uploads[o] = -1 /\ o \notin committed
        /\ seen[o] = {} /\ req[o].t = "none"
    BY <1>1, Constants
  <2>2. PlaceOf(o) /\ CommittedOf(o) /\ UploadOf(o)
    BY <2>1 DEF PlaceOf, CommittedOf, UploadOf
  <2>3. SeenOf(o)
    BY <2>1, FS_EmptySet DEF SeenOf
  <2> QED
    BY <2>2, <2>3
<1>6. OpInv
  BY <1>5 DEF OpInv
<1>7. FileInv
  BY <1>2 DEF FileInv
<1> QED
  BY <1>3, <1>4, <1>6, <1>7 DEF IInv

LEMMA NextInv == IInv /\ [Next]_vars => IInv'
<1> SUFFICES ASSUME IInv, [Next]_vars PROVE IInv'
  OBVIOUS
<1>1. ASSUME NEW o \in Ops, Serve(o)
      PROVE  IInv'
  BY <1>1, BeginKeeps, TimesOutKeeps, AnswerErrorKeeps, UploadContinuesKeeps, ReadBodyKeeps,
     BodyFailsKeeps, UploadEndsKeeps, DownloadContinuesKeeps, DownloadStopsKeeps, ListEndsKeeps
     DEF Serve
<1>2. ASSUME NEW o \in Ops, CleanUpStale(o)
      PROVE  IInv'
  BY <1>2, CleanUpStaleKeeps
<1>3. CASE ReplyArrives
  BY <1>3, ReplyArrivesKeeps
<1>4. CASE Agent
  BY <1>4, AgentOpensKeeps, AgentWritesKeeps, AgentClosesKeeps, AgentReadsKeeps, AgentListsKeeps
     DEF Agent
<1>5. CASE AgentGoes \/ AgentReturns \/ DeviceChanges
  BY <1>5, AgentGoesKeeps, AgentReturnsKeeps, DeviceChangesKeeps
<1>6. CASE UNCHANGED vars
  BY <1>6, StutterKeeps
<1> QED
  BY <1>1, <1>2, <1>3, <1>4, <1>5, <1>6 DEF Next

LEMMA Invariance == Spec => []IInv
BY InitInv, NextInv, PTL DEF Spec

-----------------------------------------------------------------------------
(* The theorems *)

\* Every variable of the file operations keeps its type, whatever the sizes
\* (service.go: the pending map and the slots; fs.rs: the uploads).
THEOREM TypeCorrect == Spec => []TypeOK
<1>1. IInv => TypeOK
  BY DEF IInv, TypeInv
<1> QED
  BY <1>1, Invariance, PTL

\* For any number of operations of any size: what UploadManager::close renames to
\* the path has the length that its upload announced, and is all of its body.
THEOREM TruncatedCorrect == Spec => []NeverTruncated
<1>1. IInv => NeverTruncated
  <2> SUFFICES ASSUME IInv, file.by \in Ops
               PROVE  file.len = req[file.by].size /\ ~Truncated(file.by)
    BY DEF NeverTruncated
  <2>1. PICK o \in Ops : o = file.by
    OBVIOUS
  <2>2. /\ at[o] # "idle" /\ req[o].t = "upload" /\ req[o].avail = req[o].size
        /\ file.len = req[o].size
    BY <2>1 DEF IInv, FileInv
  <2>3. req[o].size \in Nat
    BY <2>2, Present, RequestFields DEF PlaceOf
  <2> QED
    BY <2>1, <2>2, <2>3 DEF Truncated
<1> QED
  BY <1>1, Invariance, PTL

\* What the handlers of the server report of an upload or a download is true,
\* now and later: the file has become, or will never become, the upload's, and a
\* download that read one version has read its whole length.
THEOREM ResultCorrect == Spec => []ResultIsTrue
<1>1. IInv => ResultIsTrue
  <2> SUFFICES ASSUME IInv, NEW o \in Ops
               PROVE  /\ req[o].t = "upload" /\ result[o] = "ok" => o \in committed
                      /\ req[o].t = "upload" /\ result[o] = "failed" => o \notin committed
                      /\ req[o].t = "download" /\ result[o] = "ok" /\ Cardinality(seen[o]) = 1
                            => \A v \in seen[o] : off[o] = v.len
    BY DEF ResultIsTrue
  <2>1. CommittedOf(o) /\ SeenOf(o)
    BY DEF IInv, OpInv
  <2>2. /\ req[o].t = "upload" /\ result[o] = "ok" => o \in committed
        /\ req[o].t = "upload" /\ result[o] = "failed" => o \notin committed
    BY <2>1 DEF CommittedOf
  <2>3. ASSUME req[o].t = "download", result[o] = "ok", Cardinality(seen[o]) = 1,
               NEW v \in seen[o]
        PROVE  off[o] = v.len
    <3>1. PICK x : seen[o] = {x}
      BY <2>1, <2>3, FS_Singleton DEF SeenOf
    <3>2. seen[o] = {v}
      BY <3>1
    <3> QED
      BY <2>1, <2>3, <3>2 DEF SeenOf
  <2> QED
    BY <2>2, <2>3
<1> QED
  BY <1>1, Invariance, PTL

\* UploadManager::open refuses a path that is taken: an upload without overwrite
\* never replaces a file that was there when its request came and has not been
\* touched since.
THEOREM KeptCorrect == Spec => OldFileKept
<1> DEFINE Kept == \A o \in committed' \ committed : req[o].overwrite \/ o \in raced
<1>1. IInv /\ [Next]_vars => [Kept]_vars
  <2> SUFFICES ASSUME IInv, [Next]_vars PROVE Kept
    OBVIOUS
  <2>1. CASE AgentCloses
    <3>1. PICK m \in Downs : m = Head(down)
      BY <2>1, Taken DEF AgentCloses
    <3>2. committed' \subseteq committed \union {m.o}
      BY <2>1, <3>1 DEF AgentCloses
    <3>3. Allowed(m.o)
      BY <2>1, <3>1, Taken DEF AgentCloses, DownOf
    <3> QED
      BY <3>2, <3>3 DEF Allowed
  <2>2. CASE ~AgentCloses
    <3>1. committed' = committed
      BY <2>2 DEF Next, Serve, Agent, agentVars, vars, Begin, TimesOut, AnswerError,
         UploadContinues, ReadBody, BodyFails, UploadEnds, DownloadContinues, DownloadStops,
         ListEnds, CleanUpStale, ReplyArrives, AgentOpens, AgentWrites, AgentReads, AgentLists,
         AgentGoes, AgentReturns, DeviceChanges
    <3> QED
      BY <3>1
  <2> QED
    BY <2>1, <2>2
<1> HIDE DEF Kept
<1>2. Spec => [][Kept]_vars
  BY <1>1, Invariance, PTL DEF Spec
<1> QED
  BY <1>2 DEF Kept, OldFileKept

-----------------------------------------------------------------------------
(* Whole files *)

\* An operation without a request has not begun, and one that is over has a result.
Begun == \A o \in Ops : /\ at[o] = "idle" => req[o] = NoRequest
                        /\ at[o] = "done" => result[o] # "none"

\* The operation goes on at another place.
GoesOn(o, place) == at' = [at EXCEPT ![o] = place] /\ UNCHANGED result

\* Every step of an operation after its first ends it or takes it to its next place.
LEMMA Served ==
    ASSUME IInv, NEW o \in Ops, Serve(o), ~Begin(o)
    PROVE  /\ at[o] \in Places \ {"idle", "done"} /\ UNCHANGED <<req, file, committed, raced>>
           /\ \/ \E res \in {"ok", "failed", "unknown"} : Return(o, res)
              \/ \E place \in Asked \union {"body"} : GoesOn(o, place)
<1> DEFINE Moves == \/ \E res \in {"ok", "failed", "unknown"} : Return(o, res)
                    \/ \E place \in Asked \union {"body"} : GoesOn(o, place)
<1>1. ASSUME NEW wait \in Asked, NEW msg, Ask(o, wait, msg)
      PROVE  Moves
  <2>1. Unanswered(o, wait) \in {"ok", "failed", "unknown"}
    BY DEF Unanswered
  <2> QED
    BY <1>1, <2>1 DEF Ask, GoesOn
<1> HIDE DEF Moves
<1>2. UNCHANGED <<req, file, committed, raced>>
  BY DEF Serve, TimesOut, AnswerError, UploadContinues, ReadBody, BodyFails, UploadEnds,
     DownloadContinues, DownloadStops, ListEnds, agentVars
<1>3. at[o] \in Places \ {"idle", "done"}
  BY Zenon DEF Serve, TimesOut, AnswerError, UploadContinues, ReadBody, BodyFails, UploadEnds,
     DownloadContinues, DownloadStops, ListEnds, Answered, Waiting, Places
<1>4. TimesOut(o) => Moves
  <2>1. Unanswered(o, at[o]) \in {"ok", "failed", "unknown"}
    BY DEF Unanswered
  <2> QED
    BY <2>1 DEF TimesOut, Return, Moves
<1>5. (AnswerError(o) \/ BodyFails(o) \/ UploadEnds(o) \/ DownloadStops(o) \/ ListEnds(o)) => Moves
  BY DEF AnswerError, BodyFails, UploadEnds, DownloadStops, ListEnds, Return, Moves
<1>6. UploadContinues(o) => Moves
  BY DEF UploadContinues, GoesOn, Moves
<1>7. ReadBody(o) => Moves
  <2>1. "chunk" \in Asked /\ "close" \in Asked
    BY DEF Asked
  <2>2. ReadBody(o) => (\E msg : Ask(o, "chunk", msg)) \/ (\E msg : Ask(o, "close", msg))
    BY DEF ReadBody
  <2> QED
    BY <1>1, <2>1, <2>2, Zenon
<1>8. DownloadContinues(o) => Moves
  <2>1. "read" \in Asked
    BY DEF Asked
  <2>2. DownloadContinues(o) => Return(o, "ok") \/ \E msg : Ask(o, "read", msg)
    BY Zenon DEF DownloadContinues
  <2>3. Return(o, "ok") => Moves
    BY DEF Return, Moves
  <2> QED
    BY <1>1, <2>1, <2>2, <2>3, Zenon
<1> QED
  BY <1>2, <1>3, <1>4, <1>5, <1>6, <1>7, <1>8, Zenon DEF Serve, Moves

\* Everything else leaves the requests, places and results alone.
LEMMA NotServed ==
    ASSUME \/ ReplyArrives \/ Agent \/ AgentGoes \/ AgentReturns \/ DeviceChanges \/ UNCHANGED vars
           \/ \E o \in Ops : CleanUpStale(o)
    PROVE  /\ UNCHANGED <<req, at, result>>
           /\ \/ AgentCloses \/ DeviceChanges \/ UNCHANGED <<file, committed, raced>>
<1>1. UNCHANGED <<req, at, result>>
  BY DEF ReplyArrives, Agent, AgentOpens, AgentWrites, AgentCloses, AgentReads, AgentLists, Handles,
     AgentGoes, AgentReturns, DeviceChanges, CleanUpStale, vars, serverVars
<1>2. AgentCloses \/ DeviceChanges \/ UNCHANGED <<file, committed, raced>>
  BY DEF ReplyArrives, Agent, AgentOpens, AgentWrites, AgentReads, AgentLists,
     AgentGoes, AgentReturns, CleanUpStale, vars, agentVars
<1> QED
  BY <1>1, <1>2

\* What an operation that begins does with its request, place and result.
LEMMA BeginShape ==
    ASSUME IInv, NEW o \in Ops, Begin(o)
    PROVE  /\ at[o] = "idle" /\ \E r \in Requests : req' = [req EXCEPT ![o] = r]
           /\ \/ Return(o, "unknown")
              \/ \E place \in Asked : GoesOn(o, place)
           /\ raced' = IF file = NoFile THEN raced \union {o} ELSE raced
           /\ UNCHANGED <<file, committed>>
<1>1. ASSUME NEW wait \in {"open", "read", "list"}, NEW msg, Ask(o, wait, msg)
      PROVE  Return(o, "unknown") \/ \E place \in Asked : GoesOn(o, place)
  <2>1. wait \in Asked /\ Unanswered(o, wait) = "unknown"
    BY DEF Unanswered, Asked
  <2> QED
    BY <1>1, <2>1 DEF Ask, GoesOn
<1>2. \E wait \in {"open", "read", "list"} : \E msg : Ask(o, wait, msg)
  BY DEF Begin
<1> QED
  BY <1>1, <1>2 DEF Begin

LEMMA BegunInit == Init => Begun
BY DEF Init, Begun

LEMMA BegunStep == IInv /\ Begun /\ [Next]_vars => Begun'
<1> SUFFICES ASSUME IInv, Begun, [Next]_vars, NEW o \in Ops
             PROVE  (at[o] = "idle" => req[o] = NoRequest)' /\ (at[o] = "done" => result[o] # "none")'
  BY DEF Begun
<1>1. /\ at \in [Ops -> Places] /\ req \in [Ops -> Requests \union {NoRequest}]
      /\ result \in [Ops -> {"none", "ok", "failed", "unknown"}]
      /\ at[o] = "idle" => req[o] = NoRequest
      /\ at[o] = "done" => result[o] # "none"
  BY TypeParts DEF IInv, Begun
<1>2. ASSUME NEW p \in Ops, Serve(p)
      PROVE  (at[o] = "idle" => req[o] = NoRequest)' /\ (at[o] = "done" => result[o] # "none")'
  <2>1. /\ p # o => req'[o] = req[o]
        /\ \/ \E res \in {"ok", "failed", "unknown"} : Return(p, res)
           \/ \E place \in Asked \union {"body"} : GoesOn(p, place)
    BY <1>1, <1>2, BeginShape, Served
  <2> QED
    BY <1>1, <2>1 DEF Return, GoesOn, Asked
<1>3. CASE \A p \in Ops : ~Serve(p)
  BY <1>1, <1>3, NotServed DEF Next
<1> QED
  BY <1>2, <1>3

\* The operations that are not over are those that hold a slot.
LEMMA WaitingIs ==
    ASSUME IInv, Begun
    PROVE  Files!Waiting = Running
<1>1. ASSUME NEW o \in Ops
      PROVE  at[o] \notin {"idle", "done"} <=> req[o] # NoRequest /\ result[o] = "none"
  <2>1. /\ at[o] # "idle" => req[o] \in Requests
        /\ result[o] # "none" => at[o] = "done"
    BY Present DEF PlaceOf, CommittedOf
  <2>2. NoRequest \notin Requests
    BY RequestFields, Constants
  <2> QED
    BY <2>1, <2>2 DEF Begun
<1> QED
  BY <1>1, Zenon DEF Running, Files!Waiting, Files!NoRequest, NoRequest

LEMMA FilesInit == Init => Files!Init
<1> SUFFICES ASSUME Init PROVE Files!Init
  OBVIOUS
<1>1. /\ req = [o \in Ops |-> NoRequest] /\ result = [o \in Ops |-> "none"]
      /\ committed = {} /\ raced = {}
      /\ file = NoFile \/ file = [by |-> "device", len |-> Chunk]
  BY DEF Init
<1>2. file \in Files!Others
  BY <1>1, Constants DEF NoFile, Files!Others
<1> QED
  BY <1>1, <1>2 DEF Files!Init, Files!NoRequest, NoRequest

LEMMA BeginRefines ==
    ASSUME IInv, Begun, NEW o \in Ops, Begin(o)
    PROVE  Files!Begin(o)
<1>1. req[o] = NoRequest
  BY BeginShape DEF Begun
<1>2. result' = result \/ result' = [result EXCEPT ![o] = "unknown"]
  BY BeginShape DEF Return, GoesOn
<1> QED
  BY <1>1, <1>2, BeginShape DEF Files!Begin, Files!NoRequest, Files!NoFile, NoRequest, NoFile

\* An operation that ends tells its result, and a result of an upload is true.
LEMMA ServedRefines ==
    ASSUME IInv, Begun, IInv', NEW o \in Ops, Serve(o), ~Begin(o)
    PROVE  \/ \E res \in {"ok", "failed", "unknown"} : Files!Tell(o, res)
           \/ UNCHANGED Files!lvars
<1>1. /\ at[o] \in Places \ {"idle", "done"} /\ UNCHANGED <<req, file, committed, raced>>
  BY Served
<1>2. ASSUME NEW res \in {"ok", "failed", "unknown"}, Return(o, res)
      PROVE  Files!Tell(o, res)
  <2>1. o \in Files!Waiting
    BY <1>1, WaitingIs DEF Running
  <2>2. result' = [result EXCEPT ![o] = res] /\ result'[o] = res
    BY <1>2, ReturnFields, Present DEF Return
  <2>3. CommittedOf(o)'
    BY DEF IInv, OpInv
  <2>4. /\ req[o].t = "upload" /\ res = "ok" => o \in committed
        /\ req[o].t = "upload" /\ res = "failed" => o \notin committed
    BY <1>1, <2>2, <2>3 DEF CommittedOf
  <2> QED
    BY <1>1, <2>1, <2>2, <2>4 DEF Files!Tell
<1>3. ASSUME NEW place, GoesOn(o, place)
      PROVE  UNCHANGED Files!lvars
  BY <1>1, <1>3 DEF GoesOn, Files!lvars
<1> QED
  BY <1>2, <1>3, Served

\* What the agent renames to the path is a whole upload, which nobody has refused.
LEMMA ClosesRefines ==
    ASSUME IInv, Begun, AgentCloses
    PROVE  (\E o \in Ops : Files!Replace(o)) \/ UNCHANGED Files!lvars
<1>1. PICK m \in Downs : m = Head(down)
  BY Taken DEF AgentCloses
<1>2. PICK o \in Ops : o = m.o
  BY <1>1, Taken DEF AgentCloses
<1>3. /\ req[o].t = "upload" /\ req[o] \in Requests /\ Allowed(o) /\ m.n = req[o].size
      /\ result[o] = "failed" => Truncated(o)
      /\ o \notin committed /\ UNCHANGED serverVars
  BY <1>1, <1>2, Taken DEF AgentCloses, DownOf
<1>4. UNCHANGED <<req, result>>
  BY <1>3 DEF serverVars
<1>5. CASE UNCHANGED <<file, committed, raced>>
  BY <1>4, <1>5 DEF Files!lvars
<1>6. CASE /\ uploads[o] = m.n /\ file' = [by |-> o, len |-> m.n]
           /\ committed' = committed \union {o} /\ raced' = raced \union Running
  <2>1. req[o].avail = req[o].size
    <3>1. req[o].size \in Nat /\ req[o].avail \in Nat /\ req[o].avail <= req[o].size
      BY <1>3, RequestFields
    <3>2. UploadOf(o)
      BY DEF IInv, OpInv
    <3> QED
      BY <1>3, <1>6, <3>1, <3>2 DEF UploadOf
  <2>2. result[o] \in {"none", "unknown"}
    <3>1. result[o] \in {"none", "ok", "failed", "unknown"} /\ CommittedOf(o)
      BY TypeParts DEF IInv, OpInv
    <3>2. ~Truncated(o)
      BY <1>3, <2>1, RequestFields DEF Truncated
    <3> QED
      BY <1>3, <3>1, <3>2 DEF CommittedOf
  <2>3. Files!Replace(o)
    BY <1>3, <1>4, <1>6, <2>1, <2>2, WaitingIs DEF Files!Replace, Allowed
  <2> QED
    BY <2>3
<1> QED
  BY <1>1, <1>2, <1>5, <1>6 DEF AgentCloses

LEMMA ChangesRefine ==
    ASSUME IInv, Begun, DeviceChanges
    PROVE  Files!Change
<1>1. /\ file' = NoFile \/ file' = [by |-> "device", len |-> Chunk]
      /\ raced' = raced \union Running /\ UNCHANGED <<req, result, committed>>
  BY DEF DeviceChanges, serverVars
<1>2. file' \in Files!Others
  BY <1>1, Constants DEF NoFile, Files!Others
<1> QED
  BY <1>1, <1>2, WaitingIs DEF Files!Change

LEMMA FilesStep == IInv /\ Begun /\ IInv' /\ [Next]_vars => [Files!Next]_(Files!lvars)
<1> SUFFICES ASSUME IInv, Begun, IInv', [Next]_vars
             PROVE  Files!Next \/ UNCHANGED Files!lvars
  OBVIOUS
<1>1. ASSUME NEW o \in Ops, Begin(o)
      PROVE  Files!Next
  BY <1>1, BeginRefines DEF Files!Next
<1>2. ASSUME NEW o \in Ops, Serve(o), ~Begin(o)
      PROVE  Files!Next \/ UNCHANGED Files!lvars
  BY <1>2, ServedRefines, Zenon DEF Files!Next
<1>3. CASE \A o \in Ops : ~Serve(o)
  <2>1. /\ UNCHANGED <<req, at, result>>
        /\ AgentCloses \/ DeviceChanges \/ UNCHANGED <<file, committed, raced>>
    BY <1>3, NotServed DEF Next
  <2>2. CASE AgentCloses
    BY <2>2, ClosesRefines, Zenon DEF Files!Next
  <2>3. CASE DeviceChanges
    BY <2>3, ChangesRefine DEF Files!Next
  <2>4. CASE UNCHANGED <<file, committed, raced>>
    BY <2>1, <2>4 DEF Files!lvars
  <2> QED
    BY <2>1, <2>2, <2>3, <2>4
<1> QED
  BY <1>1, <1>2, <1>3

\* For any number of operations of any size, files.Service and the agent together
\* implement WholeFiles: an upload's file takes the path in one step, whole, once
\* and only where it may, nothing that was reported is taken back, and no reply
\* that is late, lost or still on its way makes a report untrue.
THEOREM FilesCorrect == Spec => ImplementsFiles
<1>1. Init => Begun
  BY BegunInit
<1>2. Spec => []Begun
  BY <1>1, BegunStep, Invariance, PTL DEF Spec
<1> QED
  BY <1>2, FilesInit, FilesStep, Invariance, PTL DEF Spec, ImplementsFiles, Files!Spec
=============================================================================
