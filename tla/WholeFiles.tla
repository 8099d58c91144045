----------------------------- MODULE WholeFiles -----------------------------
(***************************************************************************)
(* What file operations promise about the file at one path: an upload      *)
(* takes the file's place as a whole, once and only if its body was whole; *)
(* without overwrite only if the path was free, or has changed, since it   *)
(* was asked for; not after it was reported as failed; and it is reported  *)
(* as done only if it has.                                                 *)
(***************************************************************************)
EXTENDS Naturals

CONSTANTS Ops, Requests

VARIABLES
    file,       \* who wrote the file at the path, and its length
    asked,      \* asked[o]: what operation o was asked for
    told,       \* told[o]: what was reported of it
    replaced,   \* uploads that have become the file
    loose       \* operations whose path was free, or has changed, since they were asked for

lvars == <<file, asked, told, replaced, loose>>

NoRequest == [t |-> "none"]
NoFile == [by |-> "none", len |-> 0]

\* Files of programs on the device, and no file.
Others == [by : {"none", "device"}, len : Nat]

Waiting == {o \in Ops : asked[o] # NoRequest /\ told[o] = "none"}

Init ==
    /\ file \in Others
    /\ asked = [o \in Ops |-> NoRequest]
    /\ told = [o \in Ops |-> "none"]
    /\ replaced = {} /\ loose = {}

\* An operation whose request cannot be sent is over at once.
Begin(o) ==
    /\ asked[o] = NoRequest
    /\ \E r \in Requests : asked' = [asked EXCEPT ![o] = r]
    /\ told' = told \/ told' = [told EXCEPT ![o] = "unknown"]
    /\ loose' = IF file = NoFile THEN loose \union {o} ELSE loose
    /\ UNCHANGED <<file, replaced>>

\* Also an upload that nobody waits for any more may come to its end.
Replace(o) ==
    /\ asked[o].t = "upload" /\ asked[o].avail = asked[o].size
    /\ o \notin replaced /\ told[o] \in {"none", "unknown"}
    /\ asked[o].overwrite \/ o \in loose
    /\ file' = [by |-> o, len |-> asked[o].size]
    /\ replaced' = replaced \union {o}
    /\ loose' = loose \union Waiting
    /\ UNCHANGED <<asked, told>>

Tell(o, result) ==
    /\ o \in Waiting
    /\ asked[o].t = "upload" /\ result = "ok" => o \in replaced
    /\ asked[o].t = "upload" /\ result = "failed" => o \notin replaced
    /\ told' = [told EXCEPT ![o] = result]
    /\ UNCHANGED <<file, asked, replaced, loose>>

\* A program on the device writes or removes the file.
Change ==
    /\ file' \in Others
    /\ loose' = loose \union Waiting
    /\ UNCHANGED <<asked, told, replaced>>

Next ==
    \/ \E o \in Ops : \/ Begin(o) \/ Replace(o)
                      \/ \E result \in {"ok", "failed", "unknown"} : Tell(o, result)
    \/ Change

Spec == Init /\ [][Next]_lvars
=============================================================================
