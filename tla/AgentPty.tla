------------------------------ MODULE AgentPty ------------------------------
(***************************************************************************)
(* The agent process: run_control_loop (client.rs) with its PtyManager     *)
(* (pty_manager.rs) and output buffers (buffer.rs), and a reader thread    *)
(* per shell.  All readers send on one channel, which the loop drains from *)
(* two places.                                                             *)
(*                                                                         *)
(* Grain.  The loop handles one message of the server, or one tick, at a   *)
(* time; a tick is a sequence of steps between which readers run.  One     *)
(* call that drains the channel until it is empty is one step: an event    *)
(* that arrives during the drain could as well have arrived before it.     *)
(* So of the channel only the order of the events of one session matters.  *)
(* Each session is started once, and which one comes first in the maps is  *)
(* left open.                                                              *)
(***************************************************************************)
EXTENDS Naturals, Sequences

CONSTANTS
    Sessions,
    MaxChunks,      \* bound: chunks of output of a shell
    MaxCloses,      \* bound: close_session messages for a session
    WritesMayFail   \* may a write to a shell that has ended fail? (EIO)

ASSUME AgentBounds == MaxChunks \in Nat /\ MaxCloses \in Nat /\ WritesMayFail \in BOOLEAN

VARIABLES
    \* the shells and their reader threads
    shell, produced, reader,
    \* PtyManager: sessions, the Output events and the sessions of the Exited
    \* events in the channel, pending_output, exited_sessions
    sessions, chan, quit, pending, exited,
    \* run_control_loop: the next sequence number of a session's OutputBuffer
    \* (0 when it has none), where the loop is, the keys it has still to
    \* flush, the frames and the exits it has still to send
    next, at, keys, frames, exits,
    ended,
    \* history of each session: the reports that were sent, the numbers of its
    \* frames and their chunks, and the closes received
    sent, numbers, delivered, closes

threadVars == <<shell, produced, reader>>
ptyVars    == <<sessions, chan, quit, pending, exited>>
loopVars   == <<next, at, keys, frames, exits>>
history    == <<sent, numbers, delivered, closes>>
vars == <<threadVars, ptyVars, loopVars, ended, history>>

Buffers == {s \in Sessions : next[s] > 0}

Init ==
    /\ shell = [s \in Sessions |-> "none"]
    /\ produced = [s \in Sessions |-> 0]
    /\ reader = [s \in Sessions |-> "none"]
    /\ sessions = {} /\ quit = {} /\ exited = {}
    /\ chan = [s \in Sessions |-> <<>>]
    /\ pending = [s \in Sessions |-> <<>>]
    /\ next = [s \in Sessions |-> 0]
    /\ at = "idle" /\ keys = {} /\ frames = {} /\ exits = {}
    /\ ended = FALSE
    /\ sent = [s \in Sessions |-> <<>>] /\ closes = [s \in Sessions |-> 0]
    /\ numbers = [s \in Sessions |-> <<>>] /\ delivered = [s \in Sessions |-> <<>>]

-----------------------------------------------------------------------------
(* The shell of a session and its reader thread *)

\* The reader gets a chunk of output and sends it: also output that the shell
\* left in the terminal when it ended.  A chunk is its number; that
\* from_utf8_lossy damages a character which two reads share is left out.
ReadChunk(s) ==
    /\ reader[s] = "reading" /\ ~ended
    /\ produced[s] < MaxChunks
    /\ produced' = [produced EXCEPT ![s] = @ + 1]
    /\ chan' = [chan EXCEPT ![s] = Append(@, produced[s] + 1)]
    /\ UNCHANGED <<shell, reader, sessions, quit, pending, exited, loopVars, ended, history>>

\* The shell ends by itself.
ShellEnds(s) ==
    /\ shell[s] = "running" /\ ~ended
    /\ shell' = [shell EXCEPT ![s] = "ended"]
    /\ UNCHANGED <<produced, reader, ptyVars, loopVars, ended, history>>

\* End of file or an error: the thread sends Exited and ends.
ReadEnd(s) ==
    /\ reader[s] = "reading" /\ shell[s] = "ended" /\ ~ended
    /\ reader' = [reader EXCEPT ![s] = "done"]
    /\ quit' = quit \union {s}
    /\ UNCHANGED <<shell, produced, sessions, chan, pending, exited, loopVars, ended, history>>

-----------------------------------------------------------------------------
(* Draining the channel *)

\* Exited events take their sessions out of the map; the ones that were still
\* in it are noted as exited.
Leaving == quit \intersect sessions

\* Slip: what an earlier drain noted is forgotten.
LeavingOnly == Leaving

ExitedNow == exited \union Leaving

\* What read_available gives session s: first what was set aside.
\* Slip: first what is new.
TakenNewFirst(s) == chan[s] \o pending[s]
Taken(s) == pending[s] \o chan[s]

Emptied ==
    /\ chan' = [s \in Sessions |-> <<>>]
    /\ quit' = {}
    /\ sessions' = sessions \ Leaving

\* Slip: the output of other sessions is dropped.
DrainDropping(own) ==
    /\ Emptied
    /\ pending' = [s \in Sessions |-> IF s \in own THEN <<>> ELSE pending[s]]

\* The effect that read_available and drain_exited share; the output of the
\* session in own (at most one) is handed over, the others' is set aside.
Drain(own) ==
    /\ Emptied
    /\ pending' = [s \in Sessions |-> IF s \in own THEN <<>> ELSE pending[s] \o chan[s]]

-----------------------------------------------------------------------------
(* A message of the server *)

Send(s, t) == sent' = [sent EXCEPT ![s] = Append(@, t)]

\* start_session: PtyManager.start, a new OutputBuffer, session_started.
StartSession(s) ==
    /\ at = "idle" /\ ~ended
    /\ shell[s] = "none"
    /\ shell' = [shell EXCEPT ![s] = "running"]
    /\ reader' = [reader EXCEPT ![s] = "reading"]
    /\ sessions' = sessions \union {s}
    /\ next' = [next EXCEPT ![s] = 1]
    /\ Send(s, "started")
    /\ UNCHANGED <<produced, chan, quit, pending, exited, at, keys, frames, exits, ended,
                   numbers, delivered, closes>>

\* The process ends: the error leaves run_control_loop, and threads, shells and
\* channel go with the process.
AgentEnds ==
    /\ ended' = TRUE
    /\ shell' = [s \in Sessions |-> "ended"]
    /\ reader' = [s \in Sessions |-> "done"]
    /\ sessions' = {} /\ quit' = {} /\ exited' = {}
    /\ chan' = [s \in Sessions |-> <<>>]
    /\ pending' = [s \in Sessions |-> <<>>]
    /\ next' = [s \in Sessions |-> 0]
    /\ at' = "idle" /\ keys' = {} /\ frames' = {} /\ exits' = {}
    /\ UNCHANGED <<produced, history>>

\* A shell that cannot be spawned is an error of the loop.
StartFails(s) == at = "idle" /\ ~ended /\ shell[s] = "none" /\ AgentEnds

\* stdin and resize for a session without a buffer are ignored.  With one, the
\* session must be in the manager's map, and the write to it must succeed;
\* either error ends the loop.  Input that reaches its shell changes nothing here.
InputError(s) == IF s \in sessions THEN WritesMayFail /\ shell[s] = "ended" ELSE TRUE
InputFails(s) == at = "idle" /\ ~ended /\ s \in Buffers /\ InputError(s) /\ AgentEnds

\* close_session: the shell is killed if the session is still in the map.
CloseSession(s) ==
    /\ at = "idle" /\ ~ended
    /\ closes[s] < MaxCloses
    /\ closes' = [closes EXCEPT ![s] = @ + 1]
    /\ shell' = [shell EXCEPT ![s] = IF s \in sessions THEN "ended" ELSE @]
    /\ sessions' = sessions \ {s}
    /\ next' = [next EXCEPT ![s] = 0]
    /\ Send(s, "closed")
    /\ UNCHANGED <<produced, reader, chan, quit, pending, exited, at, keys, frames, exits, ended,
                   numbers, delivered>>

-----------------------------------------------------------------------------
(* The output tick *)

TickBegins ==
    /\ at = "idle" /\ ~ended
    /\ at' = "flush"
    /\ keys' = Buffers
    /\ UNCHANGED <<threadVars, ptyVars, next, frames, exits, ended, history>>

\* Slip: an empty output makes a frame, too.
FramedAlways(output) == TRUE

\* flush_pty_outputs makes a frame of what there is.
Framed(output) == output # <<>>

\* flush_pty_outputs, one key: a session that has left the map is skipped;
\* read_available gives its output, and OutputBuffer.push numbers the frame.
FlushNext(s) ==
    /\ at = "flush" /\ s \in keys /\ ~ended
    /\ keys' = keys \ {s}
    /\ \/ s \notin sessions /\ UNCHANGED <<ptyVars, next, frames>>
       \/ /\ s \in sessions
          /\ Drain({s})
          /\ exited' = ExitedNow
          /\ \/ /\ Framed(Taken(s))
                /\ next' = [next EXCEPT ![s] = @ + 1]
                /\ frames' = frames \union {[s |-> s, seq |-> next[s], data |-> Taken(s)]}
             \/ ~Framed(Taken(s)) /\ UNCHANGED <<next, frames>>
    /\ UNCHANGED <<threadVars, at, exits, ended, history>>

\* The frames are sent when all of them have been collected.
SendFrame ==
    /\ at = "flush" /\ keys = {} /\ ~ended
    /\ \E f \in frames :
        /\ Send(f.s, "stdout")
        /\ numbers' = [numbers EXCEPT ![f.s] = Append(@, f.seq)]
        /\ delivered' = [delivered EXCEPT ![f.s] = @ \o f.data]
        /\ frames' = frames \ {f}
    /\ UNCHANGED <<threadVars, ptyVars, next, at, keys, exits, ended, closes>>

\* drain_exited: the channel once more; what has come of output is set aside.
DrainExited ==
    /\ at = "flush" /\ keys = {} /\ frames = {} /\ ~ended
    /\ Drain({})
    /\ exits' = ExitedNow
    /\ exited' = {}
    /\ at' = "exits"
    /\ UNCHANGED <<threadVars, next, keys, frames, ended, history>>

\* Slip: the buffer stays.
SendExitKeepsBuffer(s) ==
    /\ at = "exits" /\ s \in exits /\ ~ended
    /\ exits' = exits \ {s}
    /\ Send(s, "exited")
    /\ UNCHANGED <<threadVars, ptyVars, next, at, keys, frames, ended, numbers, delivered, closes>>

\* The buffer goes and session_exit is sent.
SendExit(s) ==
    /\ at = "exits" /\ s \in exits /\ ~ended
    /\ next' = [next EXCEPT ![s] = 0]
    /\ exits' = exits \ {s}
    /\ Send(s, "exited")
    /\ UNCHANGED <<threadVars, ptyVars, at, keys, frames, ended, numbers, delivered, closes>>

TickEnds ==
    /\ at = "exits" /\ exits = {} /\ ~ended
    /\ at' = "idle"
    /\ UNCHANGED <<threadVars, ptyVars, next, keys, frames, exits, ended, history>>

\* The socket ends, in a read or in a send of any step.
SocketEnds == ~ended /\ AgentEnds

-----------------------------------------------------------------------------
Reader(s) == ReadChunk(s) \/ ReadEnd(s)

Message(s) == StartSession(s) \/ StartFails(s) \/ InputFails(s) \/ CloseSession(s)

Tick == \/ TickBegins \/ SendFrame \/ DrainExited \/ TickEnds
        \/ \E s \in Sessions : FlushNext(s) \/ SendExit(s)

\* When the process has ended nothing more happens.
Next == \/ \E s \in Sessions : Reader(s) \/ ShellEnds(s) \/ Message(s)
        \/ Tick \/ SocketEnds

\* The timer fires every 30 ms and tokio's select! takes each ready branch in
\* the end; a reader thread reads on.
Fairness == WF_vars(Tick) /\ \A s \in Sessions : WF_vars(ReadEnd(s))

Spec == Init /\ [][Next]_vars
FairSpec == Spec /\ Fairness

-----------------------------------------------------------------------------
(* Properties *)

Chunks == Seq(1..MaxChunks)

\* A frame is never empty.
TypeOK ==
    /\ shell \in [Sessions -> {"none", "running", "ended"}]
    /\ produced \in [Sessions -> 0..MaxChunks]
    /\ reader \in [Sessions -> {"none", "reading", "done"}]
    /\ sessions \subseteq Sessions /\ quit \subseteq Sessions
    /\ exited \subseteq Sessions /\ exits \subseteq Sessions /\ keys \subseteq Sessions
    /\ chan \in [Sessions -> Chunks] /\ pending \in [Sessions -> Chunks]
    /\ next \in [Sessions -> Nat]
    /\ at \in {"idle", "flush", "exits"}
    /\ \A f \in frames : f \in [s : Sessions, seq : Nat, data : Chunks \ {<<>>}]
    /\ sent \in [Sessions -> Seq({"started", "stdout", "exited", "closed"})]
    /\ numbers \in [Sessions -> Seq(Nat)] /\ delivered \in [Sessions -> Chunks]
    /\ closes \in [Sessions -> 0..MaxCloses]
    /\ ended \in BOOLEAN

\* Between two ticks the manager's map and the loop's buffers name the same
\* sessions, though exits take a session out of the one long before the
\* other: so input never meets "session not found", which would end the agent.
MapsAgree == at = "idle" /\ ~ended => sessions = Buffers /\ exited = {}

\* What is delivered of a session's output is a prefix of what its shell
\* produced, without gap, repetition or change of order, although chunks take
\* two ways (the channel and pending_output) through drains for other sessions;
\* and the frames of a session are numbered 1, 2, 3...
DeliveredIsPrefix ==
    \A s \in Sessions :
        /\ Len(delivered[s]) <= produced[s]
        /\ \A i \in 1..Len(delivered[s]) : delivered[s][i] = i
        /\ \A i \in 1..Len(numbers[s]) : numbers[s][i] = i

\* Every chunk that a kept session's shell has produced is delivered, and a
\* shell that has ended is reported, unless the session is closed or the agent
\* ends: drains for other sessions may not keep an event from its own for ever.
OutputArrives ==
    \A s \in Sessions : Len(delivered[s]) < produced[s] /\ s \in Buffers
                           ~> Len(delivered[s]) = produced[s] \/ s \notin Buffers
ExitArrives ==
    \A s \in Sessions : shell[s] = "ended" /\ s \in Buffers ~> s \notin Buffers

\* The agent implements the abstract one.
Abstract == INSTANCE AgentShells WITH live <- Buffers, log <- sent
ImplementsShells == Abstract!Spec

\* README, table of session states: exited means that the shell has ended and
\* its output can still be viewed.  So all of the output has been delivered
\* when session_exit is sent for a shell that ended by itself.  The reader sends
\* Exited after its last chunk, but a drain that sets this chunk aside may take
\* the session out of the map, after which nobody reads what was set aside.
ExitAfterOutput ==
    \A s \in Sessions : \A i \in 1..Len(sent[s]) :
        sent[s][i] = "exited" => Len(delivered[s]) = produced[s]

=============================================================================
