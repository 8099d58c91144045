--------------------------- MODULE SessionControl ---------------------------
(***************************************************************************)
(* The control plane of a terminal session: the HTTP handlers that create  *)
(* and close it (router.go), the websocket handler of each agent           *)
(* connection, the in-memory Hub and Presence, the terminal_sessions       *)
(* table, and the agent process with its shells (client.rs).               *)
(*                                                                         *)
(* Grain.  Every SQL statement is one step, every lock-protected call of   *)
(* Hub or Presence is one step, and a handler is the sequence of its       *)
(* steps: a connection handler is at pc[c], a create request for session s *)
(* at creq[s], a close request at clreq[s].  Two calls share a step only   *)
(* when no other actor can tell them apart (the comment says why).         *)
(*                                                                         *)
(* A connection identifier stands for one websocket and for the agent      *)
(* process behind it: the agent connects once and exits when its socket    *)
(* ends (client.rs:93-236), and the service manager starts a new process.  *)
(* An identifier is reused once both ends are gone.                        *)
(***************************************************************************)
EXTENDS Naturals, Sequences

CONSTANTS
    Devices,            \* registered devices
    Sessions,           \* session identifiers that requests may create
    Conns,              \* identifiers of agent connections
    ConnDevice,         \* the device whose credential a connection presents
    NoDevice, NoConn,   \* absent map entries
    Faulty,             \* connections whose agents may crash and whose links may break
    MaxRestarts,        \* bound: restarts of the server
    MaxUp               \* bound: the agent adds stdout only below this length

ASSUME ConnAssumption ==
    /\ ConnDevice \in [Conns -> Devices]
    /\ NoDevice \notin Devices
    /\ NoConn \notin Conns

ASSUME BoundAssumption ==
    /\ Faulty \subseteq Conns
    /\ MaxRestarts \in Nat
    /\ MaxUp \in Nat

VARIABLES
    \* table terminal_sessions
    status, owner,
    \* Hub and Presence, lost when the server process ends
    route, agents, online,
    \* one websocket handler per connection: its place in the code, the
    \* sessions it has listed and not yet marked, the message it holds, and
    \* the status that it read for that message
    pc, todo, cur, rd,
    \* the socket, the agent process, its shells, messages in flight
    link, alive, ptys, up, down,
    \* history, for ImplementsLife: the sessions that a shell was spawned for
    begun,
    \* HTTP requests, and the device that a create request names
    creq, target, clreq,
    restarts

dbVars    == <<status, owner>>
memVars   == <<route, agents, online>>
connVars  == <<pc, todo, cur, rd>>
agentVars == <<link, alive, ptys, up, down, begun>>
reqVars   == <<creq, target, clreq>>
vars == <<dbVars, memVars, connVars, agentVars, reqVars, restarts>>

-----------------------------------------------------------------------------
(* Data *)

Active == {"starting", "running"}
Status == {"none"} \union Active \union {"lost", "exited", "closed"}
DownMsg == [t : {"start", "close"}, s : Sessions]
UpMsg   == [t : {"started", "stdout", "exit"}, s : Sessions]

\* The places of handleAgentWebSocket: "hello" before the first message is
\* read; "attach", "list", "sync" while it registers the device; "read" and
\* "write" in the receive loop; "unlist", "unmark", "offline", "detach" in
\* the deferred clean-up; "gone" when it is not running.
Serving  == {"list", "sync", "read", "write"}
CleanUp  == {"unlist", "unmark", "offline", "detach"}
PCs      == {"gone", "hello", "attach"} \union Serving \union CleanUp
CReqs    == {"idle", "checked", "inserted", "bound", "failed", "done"}

\* Slip: only the rows that say running are listed.
ActiveOfRunningOnly(d) == {s \in Sessions : owner[s] = d /\ status[s] = "running"}

\* The rows that a clean-up or synchronisation of device d marks lost.
ActiveOf(d) == {s \in Sessions : owner[s] = d /\ status[s] \in Active}

\* Push a message on a queue of connection c; a broken socket swallows it.
Push(queues, c, t, s) ==
    IF link[c] = "up" THEN [queues EXCEPT ![c] = Append(@, [t |-> t, s |-> s])]
                      ELSE queues

-----------------------------------------------------------------------------
Init ==
    /\ status = [s \in Sessions |-> "none"]
    /\ owner = [s \in Sessions |-> NoDevice]
    /\ route = [s \in Sessions |-> NoDevice]
    /\ agents = [d \in Devices |-> NoConn]
    /\ online = [d \in Devices |-> FALSE]
    /\ pc = [c \in Conns |-> "gone"]
    /\ todo = [c \in Conns |-> {}]
    /\ cur = [c \in Conns |-> <<>>]
    /\ rd = [c \in Conns |-> "none"]
    /\ link = [c \in Conns |-> "down"]
    /\ alive = [c \in Conns |-> FALSE]
    /\ ptys = [c \in Conns |-> {}]
    /\ up = [c \in Conns |-> <<>>]
    /\ down = [c \in Conns |-> <<>>]
    /\ begun = {}
    /\ creq = [s \in Sessions |-> "idle"]
    /\ target = [s \in Sessions |-> NoDevice]
    /\ clreq = [s \in Sessions |-> "idle"]
    /\ restarts = 0

-----------------------------------------------------------------------------
(* Creating a session: handleCreateSession *)

\* The device exists and Presence says that it is online.
CreateCheck(s, d) ==
    /\ creq[s] = "idle"
    /\ online[d]
    /\ creq' = [creq EXCEPT ![s] = "checked"]
    /\ target' = [target EXCEPT ![s] = d]
    /\ UNCHANGED <<dbVars, memVars, connVars, agentVars, clreq, restarts>>

\* store.CreateTerminalSession
CreateInsert(s) ==
    /\ creq[s] = "checked"
    /\ creq' = [creq EXCEPT ![s] = "inserted"]
    /\ status' = [status EXCEPT ![s] = "starting"]
    /\ owner' = [owner EXCEPT ![s] = target[s]]
    /\ UNCHANGED <<memVars, connVars, agentVars, target, clreq, restarts>>

\* hub.BindSession
CreateBind(s) ==
    /\ creq[s] = "inserted"
    /\ creq' = [creq EXCEPT ![s] = "bound"]
    /\ route' = [route EXCEPT ![s] = target[s]]
    /\ UNCHANGED <<dbVars, agents, online, connVars, agentVars, target, clreq,
                   restarts>>

\* Hub.FromWeb in two operators: the route, then the agent, then Peer.Send.  A
\* Send on a broken socket may fail or be swallowed; once the handler's Read
\* has failed the connection is closed and Send always fails.  Looking the
\* peer up and sending to it are one step: whatever the peer loses in between
\* it may as well have lost before the lookup.
Peer(s) == IF route[s] = NoDevice THEN NoConn ELSE agents[route[s]]
SendOK(s) == Peer(s) # NoConn /\ pc[Peer(s)] \in Serving
SendFails(s) == Peer(s) # NoConn => link[Peer(s)] = "down"

\* hub.FromWeb(StartSession) succeeds and the handler answers 201 ...
CreateSend(s) ==
    /\ creq[s] = "bound"
    /\ SendOK(s)
    /\ down' = Push(down, Peer(s), "start", s)
    /\ creq' = [creq EXCEPT ![s] = "done"]
    /\ UNCHANGED <<dbVars, memVars, connVars, link, alive, ptys, up, begun,
                   target, clreq, restarts>>

\* ... or fails ...
CreateSendFails(s) ==
    /\ creq[s] = "bound"
    /\ SendFails(s)
    /\ creq' = [creq EXCEPT ![s] = "failed"]
    /\ UNCHANGED <<dbVars, memVars, connVars, agentVars, target, clreq, restarts>>

\* ... and the row is marked lost, whatever it says by now; the answer is 409.
CreateMarkLost(s) ==
    /\ creq[s] = "failed"
    /\ status' = [status EXCEPT ![s] = "lost"]
    /\ creq' = [creq EXCEPT ![s] = "done"]
    /\ UNCHANGED <<owner, memVars, connVars, agentVars, target, clreq, restarts>>

-----------------------------------------------------------------------------
(* Closing a session: handleCloseSession, and subscribing to it *)

\* store.UpdateTerminalSessionStatus(closed): 404 for a row that is missing, and
\* the same again for a row that is closed already.  Bounds: one close request
\* and one close message in flight for a session, and a closed row is closed
\* again only when no agent has anything to report.
CloseMark(s) ==
    /\ clreq[s] = "idle"
    /\ status[s] # "none"
    /\ status[s] = "closed" => \A c \in Conns : up[c] = <<>>
    /\ \A c \in Conns : \A i \in 1..Len(down[c]) : down[c][i] # [t |-> "close", s |-> s]
    /\ status' = [status EXCEPT ![s] = "closed"]
    /\ clreq' = [clreq EXCEPT ![s] = "sending"]
    /\ UNCHANGED <<owner, memVars, connVars, agentVars, creq, target, restarts>>

\* hub.FromWeb(CloseSession): an error is ignored.
CloseSend(s) ==
    /\ clreq[s] = "sending"
    /\ \/ SendOK(s) /\ down' = Push(down, Peer(s), "close", s)
       \/ SendFails(s) /\ UNCHANGED down
    /\ clreq' = [clreq EXCEPT ![s] = "idle"]
    /\ UNCHANGED <<dbVars, memVars, connVars, link, alive, ptys, up, begun,
                   creq, target, restarts>>

\* subscribe_session on a web socket: read the row, bind the route.  The owner
\* of a row never changes, so the read and the bind are one step.
WebSubscribe(s) ==
    /\ status[s] # "none"
    /\ route[s] # owner[s]
    /\ route' = [route EXCEPT ![s] = owner[s]]
    /\ UNCHANGED <<dbVars, agents, online, connVars, agentVars, reqVars, restarts>>

-----------------------------------------------------------------------------
(* The connection handler: handleAgentWebSocket *)

\* Slip: the device is not set online.
ServerHelloSilent(c) ==
    /\ pc[c] = "hello"
    /\ pc' = [pc EXCEPT ![c] = "attach"]
    /\ UNCHANGED <<dbVars, memVars, todo, cur, rd, agentVars, reqVars, restarts>>

\* agent_hello is accepted: presence.Set(true), SetCapabilities, TouchDevice.
ServerHello(c) ==
    /\ pc[c] = "hello"
    /\ online' = [online EXCEPT ![ConnDevice[c]] = TRUE]
    /\ pc' = [pc EXCEPT ![c] = "attach"]
    /\ UNCHANGED <<dbVars, route, agents, todo, cur, rd, agentVars, reqVars, restarts>>

\* The socket ends before the hello: the handler returns, nothing to clean up.
ServerNoHello(c) ==
    /\ pc[c] = "hello"
    /\ link[c] = "down"
    /\ pc' = [pc EXCEPT ![c] = "gone"]
    /\ UNCHANGED <<dbVars, memVars, todo, cur, rd, agentVars, reqVars, restarts>>

\* hub.AttachAgent overwrites the device's entry.
ServerAttach(c) ==
    /\ pc[c] = "attach"
    /\ agents' = [agents EXCEPT ![ConnDevice[c]] = c]
    /\ pc' = [pc EXCEPT ![c] = "list"]
    /\ UNCHANGED <<dbVars, route, online, todo, cur, rd, agentVars, reqVars, restarts>>

\* syncAgentSessions.  The hello lists no session (the registry of a new
\* process is empty), so the first loop does nothing; the second loop lists
\* the device's sessions and marks the active ones lost, one row at a time.
ServerSyncList(c) ==
    /\ pc[c] = "list"
    /\ todo' = [todo EXCEPT ![c] = ActiveOf(ConnDevice[c])]
    /\ pc' = [pc EXCEPT ![c] = "sync"]
    /\ UNCHANGED <<dbVars, memVars, cur, rd, agentVars, reqVars, restarts>>

\* One row of a listing marked lost.  The code walks it in order of creation;
\* any order is allowed here.
MarkListed(c, s) ==
    /\ s \in todo[c]
    /\ status' = [status EXCEPT ![s] = "lost"]
    /\ todo' = [todo EXCEPT ![c] = @ \ {s}]
    /\ UNCHANGED <<owner, memVars, pc, cur, rd, agentVars, reqVars, restarts>>

ServerSyncMark(c) == pc[c] = "sync" /\ \E s \in todo[c] : MarkListed(c, s)

ServerSyncDone(c) ==
    /\ pc[c] = "sync"
    /\ todo[c] = {}
    /\ pc' = [pc EXCEPT ![c] = "read"]
    /\ UNCHANGED <<dbVars, memVars, todo, cur, rd, agentVars, reqVars, restarts>>

\* The loop's conn.Read fails, and messages still buffered are lost: the
\* deferred function runs.
ServerSeesBreak(c) ==
    /\ pc[c] = "read"
    /\ link[c] = "down"
    /\ pc' = [pc EXCEPT ![c] = "unlist"]
    /\ up' = [up EXCEPT ![c] = <<>>]
    /\ UNCHANGED <<dbVars, memVars, todo, cur, rd, link, alive, ptys, down, begun, reqVars,
                   restarts>>

\* markDisconnectedSessionsLost: list, then mark the active rows one by one.
CleanUpList(c) ==
    /\ pc[c] = "unlist"
    /\ todo' = [todo EXCEPT ![c] = ActiveOf(ConnDevice[c])]
    /\ pc' = [pc EXCEPT ![c] = "unmark"]
    /\ UNCHANGED <<dbVars, memVars, cur, rd, agentVars, reqVars, restarts>>

CleanUpMark(c) == pc[c] = "unmark" /\ \E s \in todo[c] : MarkListed(c, s)

CleanUpMarked(c) ==
    /\ pc[c] = "unmark"
    /\ todo[c] = {}
    /\ pc' = [pc EXCEPT ![c] = "offline"]
    /\ UNCHANGED <<dbVars, memVars, todo, cur, rd, agentVars, reqVars, restarts>>

\* Slip: the device is left online.
CleanUpOfflineSkipped(c) ==
    /\ pc[c] = "offline"
    /\ pc' = [pc EXCEPT ![c] = "detach"]
    /\ UNCHANGED <<dbVars, memVars, todo, cur, rd, agentVars, reqVars, restarts>>

\* presence.Set(false)
CleanUpOffline(c) ==
    /\ pc[c] = "offline"
    /\ online' = [online EXCEPT ![ConnDevice[c]] = FALSE]
    /\ pc' = [pc EXCEPT ![c] = "detach"]
    /\ UNCHANGED <<dbVars, route, agents, todo, cur, rd, agentVars, reqVars, restarts>>

\* Slip: the device's entry is left in the Hub.
CleanUpDetachSkipped(c) ==
    /\ pc[c] = "detach"
    /\ pc' = [pc EXCEPT ![c] = "gone"]
    /\ UNCHANGED <<dbVars, memVars, todo, cur, rd, agentVars, reqVars, restarts>>

\* hub.DetachAgent: it deletes the device's entry, whichever peer it holds.
CleanUpDetach(c) ==
    /\ pc[c] = "detach"
    /\ agents' = [agents EXCEPT ![ConnDevice[c]] = NoConn]
    /\ pc' = [pc EXCEPT ![c] = "gone"]
    /\ UNCHANGED <<dbVars, route, online, todo, cur, rd, agentVars, reqVars, restarts>>

-----------------------------------------------------------------------------
(* The receive loop: handleAgentEnvelope.  A message about a session of      *)
(* another device is refused (agentOwnsSession).                             *)

Owns(c, s) == owner[s] = ConnDevice[c]

\* session_started: one unconditional update of the row, then BindSession,
\* which writes the value that the route already has or that any subscriber
\* would write, so it needs no step of its own.
ServerStarted(c) ==
    /\ pc[c] = "read"
    /\ up[c] # <<>>
    /\ LET m == Head(up[c]) IN
       /\ m.t = "started"
       /\ status' = IF Owns(c, m.s) THEN [status EXCEPT ![m.s] = "running"] ELSE status
       /\ route' = IF Owns(c, m.s) THEN [route EXCEPT ![m.s] = ConnDevice[c]] ELSE route
    /\ up' = [up EXCEPT ![c] = Tail(@)]
    /\ UNCHANGED <<owner, agents, online, connVars, link, alive, ptys, down, begun,
                   reqVars, restarts>>

\* stdout and session_exit read the row first ...
ServerReadStatus(c) ==
    /\ pc[c] = "read"
    /\ up[c] # <<>>
    /\ LET m == Head(up[c]) IN
       /\ m.t \in {"stdout", "exit"}
       /\ IF Owns(c, m.s)
          THEN /\ pc' = [pc EXCEPT ![c] = "write"]
               /\ cur' = [cur EXCEPT ![c] = <<m>>]
               /\ rd' = [rd EXCEPT ![c] = status[m.s]]
          ELSE UNCHANGED <<pc, cur, rd>>
    /\ up' = [up EXCEPT ![c] = Tail(@)]
    /\ UNCHANGED <<dbVars, memVars, todo, link, alive, ptys, down, begun, reqVars,
                   restarts>>

\* ... and write a status computed from what they read.  stdout turns
\* starting into running and otherwise writes back the status it read.
AfterStdout(st) == IF st = "starting" THEN "running" ELSE st

\* Slips: the status is written back as it was read; the message's name is
\* written instead of the status.
AfterExitKeeps(st) == st
AfterExitMisnamed(st) == IF st = "closed" THEN "closed" ELSE "exit"

\* session_exit keeps closed and otherwise writes exited.
AfterExit(st) == IF st = "closed" THEN "closed" ELSE "exited"

ServerWriteStatus(c) ==
    /\ pc[c] = "write"
    /\ LET m == cur[c][1] IN
       status' = [status EXCEPT ![m.s] = IF m.t = "stdout" THEN AfterStdout(rd[c])
                                                         ELSE AfterExit(rd[c])]
    /\ pc' = [pc EXCEPT ![c] = "read"]
    /\ cur' = [cur EXCEPT ![c] = <<>>]
    /\ rd' = [rd EXCEPT ![c] = "none"]
    /\ UNCHANGED <<owner, memVars, todo, agentVars, reqVars, restarts>>

-----------------------------------------------------------------------------
(* The agent process of a connection: run_control_loop *)

\* The service manager starts the agent; it connects and sends agent_hello.
\* One agent process runs per device, but handlers of its earlier connections
\* may still be anywhere in their code.
AgentConnect(c) ==
    /\ pc[c] = "gone"
    /\ \A o \in Conns : ConnDevice[o] = ConnDevice[c] => ~alive[o]
    /\ link' = [link EXCEPT ![c] = "up"]
    /\ alive' = [alive EXCEPT ![c] = TRUE]
    /\ up' = [up EXCEPT ![c] = <<>>]
    /\ down' = [down EXCEPT ![c] = <<>>]
    /\ pc' = [pc EXCEPT ![c] = "hello"]
    /\ UNCHANGED <<dbVars, memVars, todo, cur, rd, ptys, begun, reqVars, restarts>>

\* Slip: a shell that could not be spawned is reported as started all the same.
AgentStartUnspawned(c) ==
    /\ alive[c]
    /\ down[c] # <<>>
    /\ Head(down[c]).t = "start"
    /\ up' = Push(up, c, "started", Head(down[c]).s)
    /\ down' = [down EXCEPT ![c] = Tail(@)]
    /\ UNCHANGED <<dbVars, memVars, connVars, link, alive, ptys, begun, reqVars, restarts>>

\* start_session: spawn the shell and report it.
AgentStart(c) ==
    /\ alive[c]
    /\ down[c] # <<>>
    /\ LET m == Head(down[c]) IN
       /\ m.t = "start"
       /\ ptys' = [ptys EXCEPT ![c] = @ \union {m.s}]
       /\ begun' = begun \union {m.s}
       /\ up' = Push(up, c, "started", m.s)
    /\ down' = [down EXCEPT ![c] = Tail(@)]
    /\ UNCHANGED <<dbVars, memVars, connVars, link, alive, reqVars, restarts>>

\* Slip: the session is forgotten and its shell is not killed.
AgentCloseKeepsShell(c) ==
    /\ alive[c]
    /\ down[c] # <<>>
    /\ Head(down[c]).t = "close"
    /\ up' = Push(up, c, "exit", Head(down[c]).s)
    /\ down' = [down EXCEPT ![c] = Tail(@)]
    /\ UNCHANGED <<dbVars, memVars, connVars, link, alive, ptys, begun, reqVars, restarts>>

\* close_session: kill the shell if there is one and report the exit anyway.
AgentClose(c) ==
    /\ alive[c]
    /\ down[c] # <<>>
    /\ LET m == Head(down[c]) IN
       /\ m.t = "close"
       /\ ptys' = [ptys EXCEPT ![c] = @ \ {m.s}]
       /\ up' = Push(up, c, "exit", m.s)
    /\ down' = [down EXCEPT ![c] = Tail(@)]
    /\ UNCHANGED <<dbVars, memVars, connVars, link, alive, begun, reqVars, restarts>>

\* The output tick sends the output of a shell ...
AgentOutput(c, s) ==
    /\ alive[c] /\ s \in ptys[c]
    /\ link[c] = "up"
    /\ Len(up[c]) < MaxUp
    /\ up' = Push(up, c, "stdout", s)
    /\ UNCHANGED <<dbVars, memVars, connVars, link, alive, ptys, down, begun, reqVars,
                   restarts>>

\* ... and the exit of a shell that ended by itself.
AgentShellExit(c, s) ==
    /\ alive[c] /\ s \in ptys[c]
    /\ ptys' = [ptys EXCEPT ![c] = @ \ {s}]
    /\ up' = Push(up, c, "exit", s)
    /\ UNCHANGED <<dbVars, memVars, connVars, link, alive, down, begun, reqVars, restarts>>

\* The process ends, and its shells and the messages on their way to it are
\* gone: a crash, or any error that run_control_loop propagates, such as a shell
\* that cannot be spawned ...
AgentEnds(c) ==
    /\ alive[c]
    /\ alive' = [alive EXCEPT ![c] = FALSE]
    /\ ptys' = [ptys EXCEPT ![c] = {}]
    /\ link' = [link EXCEPT ![c] = "down"]
    /\ down' = [down EXCEPT ![c] = <<>>]
    /\ UNCHANGED <<dbVars, memVars, connVars, up, begun, reqVars, restarts>>

AgentCrash(c) == c \in Faulty /\ link[c] = "up" /\ AgentEnds(c)

\* ... or the end of its socket.
AgentSeesBreak(c) == link[c] = "down" /\ AgentEnds(c)

\* The network drops the connection: each end finds out in its own time.
LinkBreaks(c) ==
    /\ c \in Faulty
    /\ link[c] = "up"
    /\ link' = [link EXCEPT ![c] = "down"]
    /\ UNCHANGED <<dbVars, memVars, connVars, alive, ptys, up, down, begun, reqVars,
                   restarts>>

\* The server process ends, and is started again: the table survives, the
\* Hub, Presence, handlers and requests do not, and every socket is closed.
ServerRestart ==
    /\ restarts < MaxRestarts
    /\ restarts' = restarts + 1
    /\ route' = [s \in Sessions |-> NoDevice]
    /\ agents' = [d \in Devices |-> NoConn]
    /\ online' = [d \in Devices |-> FALSE]
    /\ pc' = [c \in Conns |-> "gone"]
    /\ todo' = [c \in Conns |-> {}]
    /\ cur' = [c \in Conns |-> <<>>]
    /\ rd' = [c \in Conns |-> "none"]
    /\ link' = [c \in Conns |-> "down"]
    /\ creq' = [s \in Sessions |-> IF creq[s] \in {"idle", "checked"}
                                   THEN "idle" ELSE "done"]
    /\ clreq' = [s \in Sessions |-> "idle"]
    /\ up' = [c \in Conns |-> <<>>]
    /\ UNCHANGED <<dbVars, alive, ptys, down, begun, target>>

-----------------------------------------------------------------------------
CreateRequest(s) == \/ CreateInsert(s) \/ CreateBind(s) \/ CreateSend(s)
                    \/ CreateSendFails(s) \/ CreateMarkLost(s)

Handshake(c) == ServerHello(c) \/ ServerNoHello(c) \/ ServerAttach(c)

Synchronise(c) == ServerSyncList(c) \/ ServerSyncMark(c) \/ ServerSyncDone(c)

Receive(c) == ServerStarted(c) \/ ServerReadStatus(c) \/ ServerWriteStatus(c)

Disconnect(c) == \/ ServerSeesBreak(c) \/ CleanUpList(c) \/ CleanUpMark(c)
                 \/ CleanUpMarked(c) \/ CleanUpOffline(c) \/ CleanUpDetach(c)

Handler(c) == Handshake(c) \/ Synchronise(c) \/ Receive(c) \/ Disconnect(c)

AgentLoop(c) == AgentStart(c) \/ AgentClose(c) \/ AgentSeesBreak(c)

AgentShells(c) == \E s \in Sessions : AgentOutput(c, s) \/ AgentShellExit(c, s)

User == \E s \in Sessions : \/ \E d \in Devices : CreateCheck(s, d)
                            \/ CloseMark(s)
                            \/ WebSubscribe(s)

Requests == \E s \in Sessions : CreateRequest(s) \/ CloseSend(s)

Connections == \E c \in Conns : \/ Handler(c) \/ AgentConnect(c) \/ AgentLoop(c)
                                \/ AgentShells(c)

Faults == ServerRestart \/ \E c \in Conns : AgentCrash(c) \/ LinkBreaks(c)

Next == User \/ Requests \/ Connections \/ Faults

Spec == Init /\ [][Next]_vars

\* What the program does of its own accord: requests and handlers run on, the
\* agent's loop runs on and the service manager restarts the agent (Restart =
\* always).  Strong fairness of the hello is the one assumption about the
\* network: connections do not for ever break before their first message.
\* Users, output, exits and faults may happen or not.
Fairness ==
    /\ \A s \in Sessions : WF_vars(CreateRequest(s)) /\ WF_vars(CloseSend(s))
    /\ \A c \in Conns : /\ WF_vars(Handler(c))
                        /\ WF_vars(AgentLoop(c))
    /\ \A d \in Devices :
        /\ WF_vars(\E c \in Conns : ConnDevice[c] = d /\ AgentConnect(c))
        /\ SF_vars(\E c \in Conns : ConnDevice[c] = d /\ ServerHello(c))

FairSpec == Spec /\ Fairness

-----------------------------------------------------------------------------
(* Properties *)

\* Every variable has its type.
TypeOK ==
    /\ status \in [Sessions -> Status]
    /\ owner \in [Sessions -> Devices \union {NoDevice}]
    /\ route \in [Sessions -> Devices \union {NoDevice}]
    /\ agents \in [Devices -> Conns \union {NoConn}]
    /\ online \in [Devices -> BOOLEAN]
    /\ pc \in [Conns -> PCs]
    /\ todo \in [Conns -> SUBSET Sessions]
    /\ cur \in [Conns -> {<<>>} \union {<<m>> : m \in UpMsg}]
    /\ rd \in [Conns -> Status]
    /\ link \in [Conns -> {"up", "down"}]
    /\ alive \in [Conns -> BOOLEAN]
    /\ ptys \in [Conns -> SUBSET Sessions]
    /\ up \in [Conns -> Seq(UpMsg)]
    /\ down \in [Conns -> Seq(DownMsg)]
    /\ begun \subseteq Sessions
    /\ creq \in [Sessions -> CReqs]
    /\ target \in [Sessions -> Devices \union {NoDevice}]
    /\ clreq \in [Sessions -> {"idle", "sending"}]
    /\ restarts \in Nat

\* A shell runs, and a start or close message travels, only on a connection of
\* the device that owns the session's row: BindSession, FromWeb and AttachAgent
\* never carry a session to another machine, whatever connections of several
\* devices come and go in between.
OnlyOnOwner ==
    \A c \in Conns :
        /\ \A s \in ptys[c] : Owns(c, s)
        /\ \A i \in 1..Len(down[c]) : Owns(c, down[c][i].s)

\* The Hub never holds a peer whose handler has returned: every AttachAgent is
\* followed by a DetachAgent of the same handler or by the end of the server,
\* also when handlers of old and new connections of a device overlap.
NoDeadPeer ==
    \A d \in Devices : agents[d] # NoConn =>
        /\ ConnDevice[agents[d]] = d
        /\ pc[agents[d]] \in Serving \union CleanUp

\* A device that Presence shows online has a connection whose handler has
\* accepted its hello and has not yet taken the device offline.
OnlineHasHandler ==
    \A d \in Devices : online[d] =>
        \E c \in Conns : ConnDevice[c] = d
                        /\ pc[c] \notin {"gone", "hello", "detach"}

\* What OnlyOnOwner rests on: a row gets its owner when it is inserted, before
\* anything can be sent about it, and every route leads to the owner.
RowInv ==
    \A s \in Sessions :
        /\ creq[s] \in {"idle", "checked"} => owner[s] = NoDevice
        /\ creq[s] = "inserted" => owner[s] = target[s]
        /\ route[s] # NoDevice => route[s] = owner[s]

RoutingInv == RowInv /\ NoDeadPeer /\ OnlyOnOwner

\* Connection c has the only handler of its device.
Lone(c) == \A o \in Conns : ConnDevice[o] = ConnDevice[c] /\ o # c => pc[o] = "gone"

\* Connection c is live and serves its device, and nothing about session s is
\* in progress: no request, no message in flight, no other handler.
Settled(c, s) ==
    /\ owner[s] = ConnDevice[c]
    /\ pc[c] = "read" /\ link[c] = "up" /\ Lone(c)
    /\ creq[s] = "done" /\ clreq[s] = "idle"
    /\ \A i \in 1..Len(up[c]) : up[c][i].s # s
    /\ \A i \in 1..Len(down[c]) : down[c][i].s # s

\* Once everything in progress about a session has settled on the device's only
\* connection, the row does not say running without a shell, nor starting; and
\* a shell has a row that says running, unless the connection is not attached
\* to the Hub.  The marks of clean-ups and synchronisations, failed sends and
\* crossing closes leave no other wrong row behind, also where connections of
\* the device overlapped.  What is excluded does happen: the late clean-up of
\* an older connection detaches the live one and leaves the row of its running
\* shell at lost (LastIsReachable below).
SettledAgrees ==
    \A c \in Conns, s \in Sessions : Settled(c, s) =>
        /\ status[s] # "starting"
        /\ status[s] = "running" => s \in ptys[c]
        /\ s \in ptys[c] /\ agents[ConnDevice[c]] = c => status[s] = "running"

\* A row that says starting or running although no agent has the shell: what a
\* crash leaves between the row's insert and the send, after a shell's exit
\* whose message was lost, or in the table when the server restarts.
Zombie(s) == status[s] \in Active /\ \A c \in Conns : s \notin ptys[c]

\* No row stays a zombie: an exit message, a clean-up or the synchronisation of
\* the device's next connection corrects it.
ZombiesResolved == \A s \in Sessions : []<>~Zombie(s)

\* Connection c has been attached and is not any more: another handler of its
\* device has attached or detached since, and nothing attaches c again.
CutOff(c) == pc[c] \in Serving \ {"list"} /\ agents[ConnDevice[c]] # c

\* A user who closes a session that was created before is rid of its shell,
\* though handleCloseSession ignores the error of its send: the message
\* arrives, or the agent that has the shell ends.  The exception is a shell
\* whose connection is cut off: it outlives its closed row.
CloseReaps ==
    \A s \in Sessions :
        clreq[s] = "sending" /\ creq[s] = "done"
            ~> \A c \in Conns : s \in ptys[c] => CutOff(c)

\* An agent that says hello when no handler of an earlier connection is left,
\* and that stays connected, is in the end attached to the Hub and online for
\* good, whatever has been before and whichever requests come.
ConnectedIsReachable ==
    \A c \in Conns :
        [](pc[c] = "hello" /\ Lone(c) =>
               ([](alive[c] /\ link[c] = "up")
                   => <>[](agents[ConnDevice[c]] = c /\ online[ConnDevice[c]])))

\* The connections whose agents have a shell of s.
ShellsOf(s) == {c \in Conns : s \in ptys[c]}

Life == INSTANCE SessionLife WITH row <- status, shells <- [s \in Sessions |-> ShellsOf(s)]

\* The handlers, the Hub and the agents implement SessionLife: a start message
\* is sent once, arrives at one agent and is never kept for another one, so a
\* session has one shell in its life, on its owner's machine; and no update of
\* the row, however late, says running of a session that never had a shell, or
\* leads back to starting.
ImplementsLife == Life!Spec

\* A message on a queue.
Says(q, k, s) == \E i \in 1..Len(q) : q[i] = [t |-> k, s |-> s]

\* Session s is over: its create request and its row are, no agent has a shell
\* of it or a start of it to come, and no handler has a report of its shell to
\* come or the row to write after its output.  An exit, a close, a clean-up or
\* a synchronisation may still be on its way.
Ended(s) ==
    /\ creq[s] = "done" /\ status[s] \notin Active
    /\ \A c \in Conns :
        /\ s \notin ptys[c]
        /\ alive[c] => ~Says(down[c], "start", s)
        /\ pc[c] # "gone" => ~Says(up[c], "started", s) /\ ~Says(up[c], "stdout", s)
        /\ cur[c] # <<[t |-> "stdout", s |-> s]>>

\* A session that is over stays so, though nothing is locked and a row may say
\* running again after closed (ClosedStaysClosed below): an exit that read the
\* row before it was closed, a listing made before it was, subscribers, new
\* connections and restarts of agent or server never bring it back.
EndedStays == [][\A s \in Sessions : Ended(s) => Ended(s)']_vars

-----------------------------------------------------------------------------
(* What the documentation says and the code does not do *)

\* README, table of session states: a closed session is closed and
\* not listed.  Nothing reopens a session, so a row that
\* says closed should keep saying so; session_started, a stdout that read the
\* row earlier, a clean-up that listed it earlier and a failed create write over it.
ClosedStaysClosed == [][\A s \in Sessions : status[s] = "closed" => status'[s] = "closed"]_vars

\* README, installing the agent: a device whose agent is online appears in the
\* list, and New terminal creates a session on it.  So the agent whose handler
\* is the device's last one, registered and waiting for messages on a live
\* socket, should be attached and online.  The deferred clean-up of an older
\* connection, run late, marks the rows of its shells lost, sets the device
\* offline and deletes its entry in the Hub; nothing puts them back.
LastIsReachable ==
    \A c \in Conns : pc[c] = "read" /\ link[c] = "up" /\ Lone(c) =>
        agents[ConnDevice[c]] = c /\ online[ConnDevice[c]]
=============================================================================
