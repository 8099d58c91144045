----------------------------- MODULE FailureLimit -----------------------------
(***************************************************************************)
(* Attempts to prove a password or a code, the FailureLimiter that they    *)
(* share (limiter.go), and the striped locks of the management requests    *)
(* (lockManagementCredentials).  An attempt has three keys, for the user,  *)
(* for the source and for both; it asks the limiter for each, checks the   *)
(* credential, and then records a failure, or clears, for each.            *)
(*                                                                         *)
(* The server has a limiter for each kind of attempt.  Here is one of them, *)
(* that of the logins and second factors, whose attempts take no locks, or *)
(* that of the management requests, which take the locks of their keys in  *)
(* the order of the slots and keep them until they end; setup gives them   *)
(* back when the password was right.                                       *)
(*                                                                         *)
(* Grain.  A step is one call of the limiter, under its mutex, or of a     *)
(* lock; the locks of a request are given back with its last step.  A clock *)
(* shared by all gives the time of each call.                              *)
(***************************************************************************)
EXTENDS Integers, FiniteSets, Sequences

CONSTANTS
    Requests,       \* the requests that are served at once
    Keys,
    KeysOf,         \* KeysOf[r]: the keys of the request, in their order
    Slot,           \* Slot[k]: the lock of the key, 0..255 in the code
    NoEntry,        \* the key has no entry
    MaxFailures, Window, BlockFor, MaxEntries,  \* as given to NewFailureLimiter
    MaxTime         \* bound

\* A block lasts longer than a window in all three limiters of NewRouter.  The keys
\* of a request have different prefixes (managementLimitKeys).
ASSUME LimitAssumption ==
    /\ IsFiniteSet(Requests)
    /\ KeysOf \in [Requests -> Seq(Keys) \ {<<>>}] /\ Slot \in [Keys -> 0..255]
    /\ \A r \in Requests : \A i, j \in 1..Len(KeysOf[r]) : KeysOf[r][i] = KeysOf[r][j] => i = j
    /\ MaxFailures \in Nat \ {0} /\ Window \in Nat \ {0} /\ BlockFor \in Nat
    /\ BlockFor >= Window
    /\ MaxEntries \in Nat \ {0} /\ MaxTime \in Nat
    /\ NoEntry \notin [fails : Nat, start : Nat, until : Nat, seen : Nat]

VARIABLES
    kind,           \* of the attempts: "management" or "login"
    now,
    entries,        \* the limiter
    req             \* at: what is next; i: for which key; ok: allowed so far; held: slots

vars == <<kind, now, entries, req>>

Idle == [at |-> "idle", setup |-> FALSE, i |-> 1, ok |-> TRUE, held |-> {}]

Init ==
    /\ kind \in {"management", "login"}
    /\ now = 0
    /\ entries = [k \in Keys |-> NoEntry]
    /\ req = [r \in Requests |-> Idle]

Tick == now < MaxTime /\ now' = now + 1 /\ UNCHANGED <<kind, entries, req>>

-----------------------------------------------------------------------------
(* The limiter *)

Tracked(e) == {k \in Keys : e[k] # NoEntry}

Blocked(k) == entries[k] # NoEntry /\ now < entries[k].until

Expired(k) == entries[k] # NoEntry /\ now >= entries[k].start + Window

Seen(e) == [e EXCEPT !.seen = now]

\* FailureLimiter.Allow: an entry is deleted with its window, else it was seen now.
AfterAllow(k) ==
    IF entries[k] = NoEntry THEN entries
    ELSE IF Expired(k) /\ ~Blocked(k) THEN [entries EXCEPT ![k] = NoEntry]
    ELSE [entries EXCEPT ![k] = Seen(@)]

\* evict: entries that are over go first, then, if the table is full, the one that
\* was seen the longest ago, blocked or not.
Over(x)   == now >= x.until /\ now - x.seen >= Window
Purged(e) == [k \in Keys |-> IF e[k] # NoEntry /\ Over(e[k]) THEN NoEntry ELSE e[k]]
Oldest(e) == {k \in Tracked(e) : \A j \in Tracked(e) : e[k].seen <= e[j].seen}

Evicted(e) ==
    IF Cardinality(Tracked(Purged(e))) >= MaxEntries
    THEN {[Purged(e) EXCEPT ![k] = NoEntry] : k \in Oldest(Purged(e))}
    ELSE {Purged(e)}

\* Slip: nothing is evicted at the limit, only above it.
FullLate(e) == IF Cardinality(Tracked(e)) > MaxEntries THEN Evicted(e) ELSE {e}

MakeRoom(e) == Evicted(e)

\* Slip: the new window forgets a block that still runs.
RestartedFree(k) == [fails |-> 0, start |-> now, until |-> 0, seen |-> now]

\* A new window keeps a block that still runs.
Restarted(k) == [fails |-> 0, start |-> now, seen |-> now,
                 until |-> IF Blocked(k) THEN entries[k].until ELSE 0]

\* Slip: one failure more before the block.
Full(n) == n > MaxFailures

Reached(n) == n >= MaxFailures

\* One failure more, from which a block may begin.
Failed(e) ==
    [e EXCEPT !.fails = @ + 1, !.seen = now,
              !.until = IF Reached(e.fails + 1) THEN now + BlockFor ELSE @]

\* FailureLimiter.RecordFailure: the entry of the key is taken out, room is made,
\* and the entry is put back with one failure more.
Without(k) == [entries EXCEPT ![k] = NoEntry]
Base(k) == IF entries[k] = NoEntry \/ Expired(k) THEN Restarted(k) ELSE entries[k]
Recorded(k) == {[e EXCEPT ![k] = Failed(Base(k))] : e \in MakeRoom(Without(k))}

-----------------------------------------------------------------------------
(* The locks *)

SeqRange(s) == {s[i] : i \in 1..Len(s)}

\* Slip: only the user is locked.
SlotsOfUser(r) == {Slot[KeysOf[r][1]]}

\* managementLockIndexes
SlotsOf(r) == {Slot[k] : k \in SeqRange(KeysOf[r])}

\* Slip: the locks are taken in the order of the keys.
InKeyOrder(r) ==
    {Slot[KeysOf[r][i]] : i \in {j \in 1..Len(KeysOf[r]) :
        /\ Slot[KeysOf[r][j]] \notin req[r].held
        /\ \A h \in 1..j-1 : Slot[KeysOf[r][h]] \in req[r].held}}

\* The least slot that is still to be locked.
NextSlot(r) ==
    LET open == SlotsOf(r) \ req[r].held
    IN {s \in open : \A t \in open : s <= t}

Free(s) == \A r \in Requests : s \notin req[r].held

-----------------------------------------------------------------------------
(* The attempts *)

Moves(r, rec) == req' = [req EXCEPT ![r] = rec] /\ UNCHANGED <<kind, now>>

\* The records of a request on its way.
Begun(setup)   == [Idle EXCEPT !.setup = setup, !.at = IF kind = "management" THEN "lock" ELSE "allow"]
Locked(q, s)   == [q EXCEPT !.held = @ \union {s}]
Granted(q)     == [q EXCEPT !.at = "allow"]
Asked(q, ok)   == [q EXCEPT !.i = @ + 1, !.ok = ok]
Checking(q)    == [q EXCEPT !.at = "check", !.i = 1]
Failing(q)     == [q EXCEPT !.at = "fail"]
Clearing(q)    == [q EXCEPT !.at = "clear", !.held = IF q.setup THEN {} ELSE @]
Onward(q)      == [q EXCEPT !.i = @ + 1]

\* Slip: a request that returns early keeps its locks.
LeavingLocked(r) == [Idle EXCEPT !.held = req[r].held]

\* The deferred unlock.
Leaving(r) == Idle

Start(r, setup) ==
    /\ req[r].at = "idle"
    /\ setup => kind = "management"
    /\ Moves(r, Begun(setup))
    /\ UNCHANGED entries

Lock(r) ==
    /\ req[r].at = "lock"
    /\ \E s \in NextSlot(r) :
          /\ Free(s)
          /\ Moves(r, IF SlotsOf(r) \subseteq req[r].held \union {s}
                      THEN Granted(Locked(req[r], s)) ELSE Locked(req[r], s))
    /\ UNCHANGED entries

\* allowLoginAttempt, one key: all keys are asked, also after a refusal.
Allow(r) ==
    /\ req[r].at = "allow"
    /\ LET k  == KeysOf[r][req[r].i]
           ok == req[r].ok /\ ~Blocked(k)
       IN
       /\ entries' = AfterAllow(k)
       /\ Moves(r, IF req[r].i < Len(KeysOf[r])
                   THEN Asked(req[r], ok)
                   ELSE IF ok THEN Checking(req[r])
                   ELSE Leaving(r))

\* The credential is wrong; or right, and setup gives the locks back; or the
\* request ends for another reason.
Check(r) ==
    /\ req[r].at = "check"
    /\ \/ Moves(r, Failing(req[r]))
       \/ Moves(r, Clearing(req[r]))
       \/ Moves(r, Leaving(r))
    /\ UNCHANGED entries

\* The request after its call for one key.
Advanced(r) == IF req[r].i < Len(KeysOf[r]) THEN Onward(req[r]) ELSE Leaving(r)

\* recordLoginFailure, one key.
Fail(r) ==
    /\ req[r].at = "fail"
    /\ entries' \in Recorded(KeysOf[r][req[r].i])
    /\ Moves(r, Advanced(r))

\* clearLoginFailures, one key: FailureLimiter.Success.
Clear(r) ==
    /\ req[r].at = "clear"
    /\ entries' = Without(KeysOf[r][req[r].i])
    /\ Moves(r, Advanced(r))

Next ==
    \/ Tick
    \/ \E r \in Requests :
          \/ \E setup \in BOOLEAN : Start(r, setup)
          \/ Lock(r) \/ Allow(r) \/ Check(r) \/ Fail(r) \/ Clear(r)

Spec == Init /\ [][Next]_vars

-----------------------------------------------------------------------------
(* Properties *)

Entries == [fails : Nat, start : Nat, until : Nat, seen : Nat]

\* Types; a lock has one owner, and a request that is over has none.
TypeOK ==
    /\ kind \in {"management", "login"} /\ now \in Nat
    /\ entries \in [Keys -> Entries \union {NoEntry}]
    /\ req \in [Requests -> [at : {"idle", "lock", "allow", "check", "fail", "clear"},
                             setup : BOOLEAN, i : Nat \ {0}, ok : BOOLEAN, held : SUBSET Nat]]
    /\ \A r \in Requests : req[r].at = "idle" => req[r].held = {}
    /\ \A r, q \in Requests : r # q => req[r].held \intersect req[q].held = {}

\* No management request checks a credential while a key of it is blocked: what
\* Allow has answered for the first key still holds after the last one, because
\* nobody can record a failure for a shared key in between.
CheckedUnblocked ==
    kind = "management" => \A r \in Requests : req[r].at = "check" =>
                              \A k \in SeqRange(KeysOf[r]) : ~Blocked(k)

\* A key has at most MaxFailures failures in a window; without locks, as many
\* more as attempts of others were allowed before the last of them.
FailuresBounded ==
    \A k \in Tracked(entries) :
        entries[k].fails <= IF kind = "management" THEN MaxFailures
                            ELSE MaxFailures + Cardinality(Requests) - 1

\* A request that is about to clear key k, after a right credential.
Clears(r, k) == req[r].at = "clear" /\ KeysOf[r][req[r].i] = k

\* A block that runs is neither shortened nor forgotten by the failures of the
\* attempts that were allowed before it, also when its window is over first: only
\* a right credential of that key, or the limit of the table, ends it early.
BlockKept ==
    [][\A k \in Keys : Blocked(k) /\ now' < entries[k].until =>
          \/ entries'[k] # NoEntry /\ entries'[k].until >= entries[k].until
          \/ entries'[k] = NoEntry /\ \/ \E r \in Requests : Clears(r, k)
                                      \/ Cardinality(Tracked(entries)) >= MaxEntries]_vars

\* The table never grows above its limit.
TableBounded == Cardinality(Tracked(entries)) <= MaxEntries

\* Requests never wait for one another in a circle, whatever their keys are: keys
\* of different users and sources may share locks, by a collision of their hashes.
\* In every set of waiting requests one waits for a lock, and none of the set has it.
NobodyStuck ==
    \A set \in (SUBSET {r \in Requests : req[r].at = "lock"}) \ {{}} :
        \E r \in set : /\ NextSlot(r) # {}
                       /\ NextSlot(r) \intersect UNION {req[q].held : q \in set} = {}

=============================================================================
