---------------------------- MODULE AgentShells ----------------------------
(***************************************************************************)
(* What an agent promises about its shells, as the server and              *)
(* SessionControl rely on it: what it reports of a session begins with     *)
(* session_started, output comes only while the shell is kept, and every   *)
(* end of a shell is reported once.                                        *)
(***************************************************************************)
EXTENDS Sequences

CONSTANT Sessions

VARIABLES
    ended,  \* the agent process has ended
    live,   \* the sessions that the agent keeps a shell for
    log     \* the reports that it has sent of each session, in order

avars == <<ended, live, log>>

Report(t, s) == log' = [log EXCEPT ![s] = Append(@, t)]

Init == ended = FALSE /\ live = {} /\ log = [s \in Sessions |-> <<>>]

Start(s) == s \notin live /\ live' = live \union {s} /\ Report("started", s)

Output(s) == s \in live /\ UNCHANGED live /\ Report("stdout", s)

Exit(s) == s \in live /\ live' = live \ {s} /\ Report("exited", s)

\* A close is answered whether or not the shell is still there.
Close(s) == live' = live \ {s} /\ Report("closed", s)

\* The process ends and its shells with it.
End == ended' = TRUE /\ live' = {} /\ UNCHANGED log

Next ==
    /\ ~ended
    /\ \/ \E s \in Sessions : /\ Start(s) \/ Output(s) \/ Exit(s) \/ Close(s)
                              /\ UNCHANGED ended
       \/ End

Spec == Init /\ [][Next]_avars
=============================================================================
