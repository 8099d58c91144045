---------------------------- MODULE SessionLife ----------------------------
(***************************************************************************)
(* What the control plane promises about the life of a session, without    *)
(* connections, routes, requests or messages: its row is inserted once and *)
(* keeps its owner; a shell is spawned for it at most once, hence never at *)
(* two agents, and on the owner's device; the row says running only of a   *)
(* session whose shell was spawned, and is never back at its beginning.    *)
(***************************************************************************)
CONSTANTS Sessions, Devices, NoDevice, Conns, ConnDevice

VARIABLES
    row,        \* row[s]: the status that the table says, or none
    owner,      \* owner[s]: the device that the row names
    shells,     \* shells[s]: connections whose agents have a shell of s
    begun       \* sessions that a shell was ever spawned for

lvars == <<row, owner, shells, begun>>

Init ==
    /\ row = [s \in Sessions |-> "none"]
    /\ owner = [s \in Sessions |-> NoDevice]
    /\ shells = [s \in Sessions |-> {}]
    /\ begun = {}

Insert(s) ==
    /\ row[s] = "none"
    /\ row' = [row EXCEPT ![s] = "starting"]
    /\ \E d \in Devices : owner' = [owner EXCEPT ![s] = d]
    /\ UNCHANGED <<shells, begun>>

\* An agent of the owner's device spawns the shell.
Spawn(s, c) ==
    /\ s \notin begun
    /\ owner[s] = ConnDevice[c]
    /\ begun' = begun \union {s}
    /\ shells' = [shells EXCEPT ![s] = {c}]
    /\ UNCHANGED <<row, owner>>

\* Shells end: one by itself or by a close, or all that an agent has.
End ==
    /\ \E gone \in SUBSET Sessions :
           shells' = [s \in Sessions |-> IF s \in gone THEN {} ELSE shells[s]]
    /\ UNCHANGED <<row, owner, begun>>

\* The row says something else: whatever it was, and whatever has happened.
Write(s) ==
    /\ row[s] # "none"
    /\ \E st \in {"running", "lost", "exited", "closed"} :
           /\ st = "running" => s \in begun
           /\ row' = [row EXCEPT ![s] = st]
    /\ UNCHANGED <<owner, shells, begun>>

Next ==
    \/ End
    \/ \E s \in Sessions : Insert(s) \/ Write(s) \/ \E c \in Conns : Spawn(s, c)

Spec == Init /\ [][Next]_lvars
=============================================================================
