------------------------- MODULE FailureLimitProofs -------------------------
(***************************************************************************)
(* FailureLimit for any number of requests, keys and entries.              *)
(***************************************************************************)
EXTENDS FailureLimit, FiniteSetTheorems, WellFoundedInduction, TLAPS

Places  == {"idle", "lock", "allow", "check", "fail", "clear"}
Records == [at : Places, setup : BOOLEAN, i : Nat \ {0}, ok : BOOLEAN, held : SUBSET Nat]
Tables  == [Keys -> Entries \union {NoEntry}]

LEMMA TypeParts ==
    TypeOK <=> /\ kind \in {"management", "login"} /\ now \in Nat
               /\ entries \in Tables
               /\ req \in [Requests -> Records]
               /\ \A r \in Requests : req[r].at = "idle" => req[r].held = {}
               /\ \A r, q \in Requests : r # q => req[r].held \intersect req[q].held = {}
BY Zenon DEF TypeOK, Records, Places, Tables

LEMMA Constants ==
    /\ IsFiniteSet(Requests)
    /\ \A r \in Requests : KeysOf[r] \in Seq(Keys) /\ Len(KeysOf[r]) \in Nat \ {0}
    /\ \A r \in Requests : \A i \in 1..Len(KeysOf[r]) : KeysOf[r][i] \in Keys
    /\ \A r \in Requests : \A i, j \in 1..Len(KeysOf[r]) : KeysOf[r][i] = KeysOf[r][j] => i = j
    /\ \A k \in Keys : Slot[k] \in 0..255
    /\ MaxFailures \in Nat \ {0} /\ Window \in Nat \ {0} /\ BlockFor \in Nat
    /\ BlockFor >= Window /\ MaxEntries \in Nat \ {0}
    /\ NoEntry \notin Entries
BY LimitAssumption DEF LimitAssumption, Entries

-----------------------------------------------------------------------------
(* The records of a request *)

LEMMA IdleFields ==
    /\ Idle \in Records /\ Idle.at = "idle" /\ Idle.i = 1 /\ Idle.held = {} /\ Idle.ok
BY SMT DEF Idle, Records, Places

LEMMA BegunFields ==
    ASSUME NEW setup \in BOOLEAN
    PROVE  /\ Begun(setup) \in Records
           /\ Begun(setup).at = IF kind = "management" THEN "lock" ELSE "allow"
           /\ Begun(setup).i = 1 /\ Begun(setup).ok /\ Begun(setup).held = {}
BY IdleFields, Zenon DEF Begun, Records, Places

LEMMA LockedFields ==
    ASSUME NEW q \in Records, NEW s \in Nat
    PROVE  /\ Locked(q, s) \in Records
           /\ Locked(q, s).at = q.at /\ Locked(q, s).i = q.i /\ Locked(q, s).ok = q.ok
           /\ Locked(q, s).held = q.held \union {s}
<1>1. q.held \union {s} \in SUBSET Nat
  BY DEF Records
<1> QED
  BY <1>1, Zenon DEF Locked, Records

LEMMA GrantedFields ==
    ASSUME NEW q \in Records
    PROVE  /\ Granted(q) \in Records /\ Granted(q).at = "allow"
           /\ Granted(q).i = q.i /\ Granted(q).ok = q.ok /\ Granted(q).held = q.held
BY Zenon DEF Granted, Records, Places

LEMMA AskedFields ==
    ASSUME NEW q \in Records, NEW ok \in BOOLEAN
    PROVE  /\ Asked(q, ok) \in Records /\ Asked(q, ok).at = q.at
           /\ Asked(q, ok).i = q.i + 1 /\ Asked(q, ok).ok = ok /\ Asked(q, ok).held = q.held
<1>1. q.i + 1 \in Nat \ {0}
  BY DEF Records
<1> QED
  BY <1>1, Zenon DEF Asked, Records

LEMMA CheckingFields ==
    ASSUME NEW q \in Records
    PROVE  /\ Checking(q) \in Records /\ Checking(q).at = "check" /\ Checking(q).i = 1
           /\ Checking(q).ok = q.ok /\ Checking(q).held = q.held
<1>1. 1 \in Nat \ {0}
  OBVIOUS
<1> QED
  BY <1>1, Zenon DEF Checking, Records, Places

LEMMA FailingFields ==
    ASSUME NEW q \in Records
    PROVE  /\ Failing(q) \in Records /\ Failing(q).at = "fail" /\ Failing(q).i = q.i
           /\ Failing(q).ok = q.ok /\ Failing(q).held = q.held
BY Zenon DEF Failing, Records, Places

LEMMA ClearingFields ==
    ASSUME NEW q \in Records
    PROVE  /\ Clearing(q) \in Records /\ Clearing(q).at = "clear" /\ Clearing(q).i = q.i
           /\ Clearing(q).held \subseteq q.held
<1>1. (IF q.setup THEN {} ELSE q.held) \in SUBSET q.held
  BY SMT
<1>2. (IF q.setup THEN {} ELSE q.held) \in SUBSET Nat
  BY SMT DEF Records
<1>3. "clear" \in Places
  BY DEF Places
<1>4. Clearing(q) \in Records
  BY <1>2, <1>3, Zenon DEF Clearing, Records
<1>5. Clearing(q).at = "clear" /\ Clearing(q).i = q.i
  BY Zenon DEF Clearing, Records
<1>6. Clearing(q).held = IF q.setup THEN {} ELSE q.held
  BY Zenon DEF Clearing, Records
<1> QED
  BY <1>1, <1>4, <1>5, <1>6

LEMMA OnwardFields ==
    ASSUME NEW q \in Records
    PROVE  /\ Onward(q) \in Records /\ Onward(q).at = q.at /\ Onward(q).i = q.i + 1
           /\ Onward(q).ok = q.ok /\ Onward(q).held = q.held
<1>1. q.i + 1 \in Nat \ {0}
  BY DEF Records
<1> QED
  BY <1>1, Zenon DEF Onward, Records

-----------------------------------------------------------------------------
(* The table *)

LEMMA SeenFields ==
    ASSUME NEW e \in Entries, now \in Nat
    PROVE  /\ Seen(e) \in Entries /\ Seen(e).fails = e.fails /\ Seen(e).start = e.start
           /\ Seen(e).until = e.until /\ Seen(e).seen = now
BY Zenon DEF Seen, Entries

LEMMA FailedFields ==
    ASSUME NEW e \in Entries, now \in Nat
    PROVE  /\ Failed(e) \in Entries /\ Failed(e).fails = e.fails + 1
           /\ Failed(e).start = e.start /\ Failed(e).seen = now
           /\ Failed(e).until = IF e.fails + 1 >= MaxFailures THEN now + BlockFor ELSE e.until
<1>1. e.fails + 1 \in Nat /\ now + BlockFor \in Nat /\ e.until \in Nat
  BY Constants DEF Entries
<1>2. (IF Reached(e.fails + 1) THEN now + BlockFor ELSE e.until) \in Nat
  BY <1>1, Zenon
<1>3. Failed(e) \in Entries
  BY <1>1, <1>2, Zenon DEF Failed, Entries
<1>4. Failed(e).fails = e.fails + 1 /\ Failed(e).start = e.start /\ Failed(e).seen = now
  BY Zenon DEF Failed, Entries
<1>5. Failed(e).until = IF Reached(e.fails + 1) THEN now + BlockFor ELSE e.until
  BY Zenon DEF Failed, Entries
<1> QED
  BY <1>3, <1>4, <1>5, Zenon DEF Reached

\* The entries of f are entries of e, seen at another time perhaps.
Less(f, e) ==
    \A k \in Keys : f[k] # NoEntry =>
        /\ e[k] # NoEntry
        /\ f[k].fails = e[k].fails /\ f[k].start = e[k].start /\ f[k].until = e[k].until

LEMMA WithoutLess ==
    ASSUME entries \in Tables, NEW k \in Keys
    PROVE  /\ Without(k) \in Tables /\ Less(Without(k), entries) /\ Without(k)[k] = NoEntry
           /\ \A j \in Keys \ {k} : Without(k)[j] = entries[j]
BY SMT DEF Without, Less, Tables

LEMMA AfterAllowLess ==
    ASSUME entries \in Tables, now \in Nat, NEW k \in Keys
    PROVE  /\ AfterAllow(k) \in Tables /\ Less(AfterAllow(k), entries)
           /\ \A j \in Keys \ {k} : AfterAllow(k)[j] = entries[j]
           /\ AfterAllow(k)[k] = NoEntry => entries[k] = NoEntry \/ (Expired(k) /\ ~Blocked(k))
           /\ AfterAllow(k)[k] # NoEntry => ~Expired(k) \/ Blocked(k)
<1>1. CASE entries[k] = NoEntry
  BY <1>1, SMT DEF AfterAllow, Less, Tables
<1>2. CASE entries[k] # NoEntry /\ Expired(k) /\ ~Blocked(k)
  BY <1>2, SMT DEF AfterAllow, Less, Tables
<1>3. CASE entries[k] # NoEntry /\ ~(Expired(k) /\ ~Blocked(k))
  <2>1. entries[k] \in Entries
    BY <1>3 DEF Tables
  <2>2. AfterAllow(k) = [entries EXCEPT ![k] = Seen(entries[k])]
    BY <1>3, Zenon DEF AfterAllow
  <2> QED
    BY <1>3, <2>1, <2>2, SeenFields, Constants, SMT DEF Less, Tables
<1> QED
  BY <1>1, <1>2, <1>3

LEMMA PurgedLess ==
    ASSUME NEW e \in Tables
    PROVE  /\ Purged(e) \in Tables
           /\ \A k \in Keys : Purged(e)[k] = e[k] \/ (Purged(e)[k] = NoEntry /\ now >= e[k].until)
           /\ Tracked(Purged(e)) \subseteq Tracked(e)
BY SMT DEF Purged, Over, Tables, Tracked

\* Room is made without a change of what stays; an entry that was blocked goes
\* only when the table is full.
LEMMA MakeRoomLess ==
    ASSUME NEW e \in Tables, IsFiniteSet(Tracked(e)), Cardinality(Tracked(e)) <= MaxEntries,
           NEW f \in MakeRoom(e)
    PROVE  /\ f \in Tables /\ \A k \in Keys : f[k] = e[k] \/ f[k] = NoEntry
           /\ IsFiniteSet(Tracked(f)) /\ Cardinality(Tracked(f)) < MaxEntries
           /\ \A k \in Keys : e[k] # NoEntry /\ f[k] = NoEntry =>
                  now >= e[k].until \/ Cardinality(Tracked(e)) >= MaxEntries
<1> DEFINE p == Purged(e)
<1>1. /\ p \in Tables /\ \A k \in Keys : p[k] = e[k] \/ (p[k] = NoEntry /\ now >= e[k].until)
      /\ Tracked(p) \in SUBSET Tracked(e)
  BY PurgedLess
<1>2. IsFiniteSet(Tracked(p)) /\ Cardinality(Tracked(p)) <= Cardinality(Tracked(e))
  BY <1>1, FS_Subset
<1>3. Cardinality(Tracked(p)) \in Nat /\ Cardinality(Tracked(e)) \in Nat /\ MaxEntries \in Nat
  BY <1>2, FS_CardinalityType, Constants
<1>4. CASE Cardinality(Tracked(p)) >= MaxEntries
  <2>1. PICK j \in Oldest(p) : f = [p EXCEPT ![j] = NoEntry]
    BY <1>4, Zenon DEF MakeRoom, Evicted
  <2>2. j \in Tracked(p) /\ j \in Keys
    BY <2>1 DEF Oldest, Tracked
  <2> HIDE DEF p
  <2>3. f \in Tables /\ \A k \in Keys : f[k] = IF k = j THEN NoEntry ELSE p[k]
    BY <1>1, <2>1, <2>2, SMT DEF Tables
  <2>4. Tracked(f) = Tracked(p) \ {j}
    BY <2>3 DEF Tracked
  <2>5. IsFiniteSet(Tracked(f)) /\ Cardinality(Tracked(f)) = Cardinality(Tracked(p)) - 1
    BY <1>2, <2>2, <2>4, FS_RemoveElement
  <2>6. Cardinality(Tracked(f)) < MaxEntries /\ Cardinality(Tracked(e)) >= MaxEntries
    BY <1>2, <1>3, <1>4, <2>5
  <2>7. \A k \in Keys : f[k] = e[k] \/ f[k] = NoEntry
    BY <1>1, <2>3
  <2> QED
    BY <2>3, <2>5, <2>6, <2>7
<1>5. CASE ~(Cardinality(Tracked(p)) >= MaxEntries)
  <2>1. f = p
    BY <1>5, Zenon DEF MakeRoom, Evicted
  <2> HIDE DEF p
  <2>2. Cardinality(Tracked(f)) < MaxEntries
    BY <1>3, <1>5, <2>1
  <2> QED
    BY <1>1, <1>2, <2>1, <2>2
<1> QED
  BY <1>4, <1>5

-----------------------------------------------------------------------------
(* The inductive invariant *)

\* A request is at one of its keys.
AtKey == \A r \in Requests : req[r].i \in 1..Len(KeysOf[r])

TypeInv == TypeOK /\ AtKey

\* Until a management request clears or leaves, it holds its locks, or takes them
\* from the least to the greatest; x is the record of r.
LocksOf(r, x) ==
    /\ x.at = "lock" =>
          /\ kind = "management" /\ x.i = 1
          /\ x.held \subseteq SlotsOf(r) /\ x.held # SlotsOf(r)
          /\ \A s \in x.held, t \in SlotsOf(r) \ x.held : s < t
    /\ kind = "management" /\ x.at \in {"allow", "check", "fail"} => x.held = SlotsOf(r)

LocksInv == \A r \in Requests : LocksOf(r, req[r])

\* The keys of r before place j, or from place j on, are not blocked.
OpenBefore(r, j) == \A h \in 1..Len(KeysOf[r]) : h < j => ~Blocked(KeysOf[r][h])
OpenFrom(r, j)   == \A h \in 1..Len(KeysOf[r]) : h >= j => ~Blocked(KeysOf[r][h])

\* What a management request has been told is still true.
OpenOf(r, x) ==
    /\ x.at = "allow" /\ x.ok => OpenBefore(r, x.i)
    /\ x.at = "check" => OpenFrom(r, 1)
    /\ x.at = "fail" => OpenFrom(r, x.i)

OpenInv == kind = "management" => \A r \in Requests : OpenOf(r, req[r])

\* A block lasts longer than the window in which it began.
TimesInv ==
    \A k \in Tracked(entries) :
        /\ entries[k].start <= now /\ entries[k].until <= now + BlockFor
        /\ entries[k].fails >= MaxFailures => entries[k].until >= entries[k].start + Window

\* r was allowed to fail for k and has not done so.
MayFail(r, x, k) ==
    \E j \in 1..Len(KeysOf[r]) :
        /\ KeysOf[r][j] = k
        /\ \/ x.at = "allow" /\ x.ok /\ j < x.i
           \/ x.at = "check"
           \/ x.at = "fail" /\ x.i <= j

Failers(k) == {r \in Requests : MayFail(r, req[r], k)}

\* Every failure above the limit is of a request that was allowed before the block.
CountInv ==
    \A k \in Tracked(entries) :
        entries[k].fails >= MaxFailures =>
            /\ entries[k].fails - MaxFailures + Cardinality(Failers(k)) <= Cardinality(Requests) - 1
            /\ kind = "management" => entries[k].fails = MaxFailures

TableInv == IsFiniteSet(Tracked(entries)) /\ TableBounded

IInv == TypeInv /\ LocksInv /\ OpenInv /\ TimesInv /\ CountInv /\ TableInv

-----------------------------------------------------------------------------
(* Consequences *)

LEMMA SlotTypes ==
    /\ \A r \in Requests : \A s \in SlotsOf(r) : s \in 0..255
    /\ \A r \in Requests : \A j \in 1..Len(KeysOf[r]) : Slot[KeysOf[r][j]] \in SlotsOf(r)
<1>1. ASSUME NEW r \in Requests, NEW s \in SlotsOf(r)
      PROVE  s \in 0..255
  <2>1. PICK j \in 1..Len(KeysOf[r]) : s = Slot[KeysOf[r][j]]
    BY DEF SlotsOf, SeqRange
  <2> QED
    BY <2>1, Constants
<1>2. ASSUME NEW r \in Requests, NEW j \in 1..Len(KeysOf[r])
      PROVE  Slot[KeysOf[r][j]] \in SlotsOf(r)
  BY DEF SlotsOf, SeqRange
<1> QED
  BY <1>1, <1>2

LEMMA FailersFinite ==
    ASSUME NEW k
    PROVE  /\ IsFiniteSet(Failers(k)) /\ Cardinality(Failers(k)) \in Nat
           /\ Cardinality(Failers(k)) <= Cardinality(Requests) /\ Cardinality(Requests) \in Nat
<1>1. Failers(k) \in SUBSET Requests
  BY DEF Failers
<1> QED
  BY <1>1, Constants, FS_Subset, FS_CardinalityType

LEMMA CheckedFromInv == OpenInv => CheckedUnblocked
BY DEF OpenInv, OpenOf, OpenFrom, CheckedUnblocked, SeqRange

LEMMA FailuresFromInv == TypeInv /\ CountInv => FailuresBounded
<1> SUFFICES ASSUME TypeInv, CountInv, NEW k \in Tracked(entries)
             PROVE  entries[k].fails <= IF kind = "management" THEN MaxFailures
                                        ELSE MaxFailures + Cardinality(Requests) - 1
  BY DEF FailuresBounded
<1>1. entries[k].fails \in Nat /\ MaxFailures \in Nat
  BY TypeParts, Constants DEF TypeInv, Tables, Tracked, Entries
<1>2. Cardinality(Failers(k)) \in Nat /\ Cardinality(Requests) \in Nat
  BY FailersFinite
<1>3. entries[k].fails >= MaxFailures =>
          /\ entries[k].fails - MaxFailures + Cardinality(Failers(k)) <= Cardinality(Requests) - 1
          /\ kind = "management" => entries[k].fails = MaxFailures
  BY DEF CountInv
<1> QED
  BY <1>1, <1>2, <1>3

-----------------------------------------------------------------------------
(* A step of one request *)

LEMMA Moved ==
    ASSUME TypeInv, NEW r \in Requests, NEW x \in Records, Moves(r, x)
    PROVE  /\ req' \in [Requests -> Records] /\ req'[r] = x
           /\ \A q \in Requests \ {r} : req'[q] = req[q]
           /\ kind' = kind /\ now' = now
<1>1. req \in [Requests -> Records]
  BY TypeParts DEF TypeInv
<1> QED
  BY <1>1, SMT DEF Moves

\* The types stay when what a request holds is its own, or free.
LEMMA MovedTypes ==
    ASSUME TypeInv, NEW r \in Requests, NEW x \in Records, Moves(r, x),
           entries' \in Tables, x.i \in 1..Len(KeysOf[r]),
           x.at = "idle" => x.held = {},
           \A s \in x.held : s \in req[r].held \/ Free(s)
    PROVE  TypeInv'
<1>1. /\ req' \in [Requests -> Records] /\ req'[r] = x
      /\ \A q \in Requests \ {r} : req'[q] = req[q]
      /\ kind' = kind /\ now' = now
  BY Moved
<1>2. /\ kind \in {"management", "login"} /\ now \in Nat
      /\ \A q \in Requests : req[q].at = "idle" => req[q].held = {}
      /\ \A p, q \in Requests : p # q => req[p].held \intersect req[q].held = {}
  BY TypeParts DEF TypeInv
<1>3. \A q \in Requests : req'[q].at = "idle" => req'[q].held = {}
  BY <1>1, <1>2
<1>4. \A q \in Requests \ {r} : x.held \intersect req[q].held = {}
  BY <1>2 DEF Free
<1>5. ASSUME NEW p \in Requests, NEW q \in Requests, p # q
      PROVE  req'[p].held \intersect req'[q].held = {}
  <2>1. CASE p = r
    BY <1>1, <1>4, <1>5, <2>1
  <2>2. CASE q = r
    BY <1>1, <1>4, <1>5, <2>2
  <2>3. CASE p # r /\ q # r
    BY <1>1, <1>2, <1>5, <2>3
  <2> QED
    BY <2>1, <2>2, <2>3
<1>6. \A q \in Requests : req'[q].i \in 1..Len(KeysOf[q])
  BY <1>1 DEF TypeInv, AtKey
<1>7. kind' \in {"management", "login"} /\ now' \in Nat
  BY <1>1, <1>2
<1>8. TypeOK'
  BY <1>1, <1>3, <1>5, <1>7, Zenon DEF TypeOK, Records, Places, Tables
<1> QED
  BY <1>6, <1>8 DEF TypeInv, AtKey

LEMMA MovedLocks ==
    ASSUME TypeInv, LocksInv, NEW r \in Requests, NEW x \in Records, Moves(r, x), LocksOf(r, x)
    PROVE  LocksInv'
<1>1. /\ req'[r] = x /\ \A q \in Requests \ {r} : req'[q] = req[q]
      /\ kind' = kind
  BY Moved
<1>2. ASSUME NEW q \in Requests
      PROVE  LocksOf(q, req'[q])
  BY <1>1 DEF LocksInv
<1>3. ASSUME NEW q \in Requests
      PROVE  LocksOf(q, req[q])'
  BY <1>1, <1>2, Zenon DEF LocksOf
<1> QED
  BY <1>3 DEF LocksInv

\* Fewer entries block fewer keys.
LEMMA LessOpen ==
    ASSUME Less(entries', entries), now' = now, NEW k \in Keys, ~Blocked(k)
    PROVE  ~Blocked(k)'
BY SMT DEF Less, Blocked

LEMMA LessTimes ==
    ASSUME TimesInv, Less(entries', entries), now' = now
    PROVE  TimesInv'
BY SMT DEF TimesInv, Less, Tracked

LEMMA LessTable ==
    ASSUME TableInv, Less(entries', entries)
    PROVE  TableInv'
<1>1. Tracked(entries') \in SUBSET Tracked(entries)
  BY SMT DEF Less, Tracked
<1>2. IsFiniteSet(Tracked(entries)) /\ Cardinality(Tracked(entries)) <= MaxEntries
  BY DEF TableInv, TableBounded
<1>3. /\ IsFiniteSet(Tracked(entries'))
      /\ Cardinality(Tracked(entries')) <= Cardinality(Tracked(entries))
  BY <1>1, <1>2, FS_Subset
<1>4. Cardinality(Tracked(entries')) \in Nat /\ Cardinality(Tracked(entries)) \in Nat
  BY <1>2, <1>3, FS_CardinalityType
<1>5. Cardinality(Tracked(entries')) <= MaxEntries
  BY <1>2, <1>3, <1>4, Constants
<1> QED
  BY <1>3, <1>5 DEF TableInv, TableBounded, Tracked

LEMMA MovedOpen ==
    ASSUME TypeInv, OpenInv, NEW r \in Requests, NEW x \in Records, Moves(r, x),
           Less(entries', entries), kind = "management" => OpenOf(r, x)
    PROVE  OpenInv'
<1>1. /\ req'[r] = x /\ \A q \in Requests \ {r} : req'[q] = req[q]
      /\ kind' = kind /\ now' = now
  BY Moved
<1>2. \A q \in Requests : \A h \in 1..Len(KeysOf[q]) :
          ~Blocked(KeysOf[q][h]) => ~Blocked(KeysOf[q][h])'
  BY <1>1, LessOpen, Constants
<1>3. \A q \in Requests : req[q] \in Records
  BY TypeParts DEF TypeInv
<1>4. ASSUME kind = "management", NEW q \in Requests
      PROVE  OpenOf(q, req'[q])
  BY <1>1, <1>4 DEF OpenInv
<1>5. \A q \in Requests : req'[q] \in Records
  BY <1>1, <1>3
<1>6. ASSUME kind = "management", NEW q \in Requests
      PROVE  OpenOf(q, req[q])'
  <2>1. req'[q] \in Records /\ OpenOf(q, req'[q])
    BY <1>4, <1>5, <1>6
  <2> QED
    BY <1>2, <2>1, Zenon DEF OpenOf, OpenBefore, OpenFrom
<1> QED
  BY <1>1, <1>6 DEF OpenInv

\* The requests that may fail for a key after a step of r.
LEMMA MovedFailers ==
    ASSUME TypeInv, NEW r \in Requests, NEW x \in Records, Moves(r, x), NEW k
    PROVE  /\ MayFail(r, x, k) => Failers(k)' = Failers(k) \union {r}
           /\ ~MayFail(r, x, k) => Failers(k)' = Failers(k) \ {r}
<1>1. req'[r] = x /\ \A q \in Requests \ {r} : req'[q] = req[q]
  BY Moved
<1>2. Failers(k)' = {q \in Requests : MayFail(q, req'[q], k)}
  BY Zenon DEF Failers, MayFail
<1>3. \A q \in Requests : q # r => (MayFail(q, req'[q], k) <=> MayFail(q, req[q], k))
  BY <1>1
<1> QED
  BY <1>1, <1>2, <1>3 DEF Failers

LEMMA MovedCount ==
    ASSUME TypeInv, CountInv, NEW r \in Requests, NEW x \in Records, Moves(r, x),
           Less(entries', entries),
           \A k \in Tracked(entries') :
               entries'[k].fails >= MaxFailures /\ MayFail(r, x, k) => MayFail(r, req[r], k)
    PROVE  CountInv'
<1> SUFFICES ASSUME NEW k \in Tracked(entries'), entries'[k].fails >= MaxFailures
             PROVE  /\ entries'[k].fails - MaxFailures + Cardinality(Failers(k)')
                           <= Cardinality(Requests) - 1
                    /\ kind' = "management" => entries'[k].fails = MaxFailures
  BY Zenon DEF CountInv, Tracked
<1>1. k \in Keys /\ k \in Tracked(entries) /\ entries'[k].fails = entries[k].fails
  BY DEF Less, Tracked
<1>2. /\ entries[k].fails - MaxFailures + Cardinality(Failers(k)) <= Cardinality(Requests) - 1
      /\ kind = "management" => entries[k].fails = MaxFailures
  BY <1>1 DEF CountInv
<1>3. Failers(k)' \in SUBSET Failers(k)
  <2>1. CASE MayFail(r, x, k)
    <3>1. r \in Failers(k)
      BY <2>1 DEF Failers
    <3> QED
      BY <2>1, <3>1, MovedFailers
  <2>2. CASE ~MayFail(r, x, k)
    BY <2>2, MovedFailers
  <2> QED
    BY <2>1, <2>2
<1>4. /\ Cardinality(Failers(k)') <= Cardinality(Failers(k))
      /\ Cardinality(Failers(k)') \in Nat /\ Cardinality(Failers(k)) \in Nat
      /\ Cardinality(Requests) \in Nat
  BY <1>3, FailersFinite, FS_Subset, FS_CardinalityType
<1>5. entries[k].fails \in Nat /\ MaxFailures \in Nat /\ kind' = kind
  BY <1>1, TypeParts, Constants, Moved DEF TypeInv, Tables, Tracked, Entries
<1> QED
  BY <1>1, <1>2, <1>4, <1>5

\* Every step but the record of a failure.
LEMMA MovedQuietly ==
    ASSUME IInv, NEW r \in Requests, NEW x \in Records, Moves(r, x),
           entries' \in Tables, Less(entries', entries),
           x.i \in 1..Len(KeysOf[r]), x.at = "idle" => x.held = {},
           \A s \in x.held : s \in req[r].held \/ Free(s),
           LocksOf(r, x), kind = "management" => OpenOf(r, x),
           \A k \in Tracked(entries') :
               entries'[k].fails >= MaxFailures /\ MayFail(r, x, k) => MayFail(r, req[r], k)
    PROVE  IInv'
<1>1. TypeInv'
  BY MovedTypes DEF IInv
<1>2. LocksInv'
  BY MovedLocks DEF IInv
<1>3. OpenInv'
  BY MovedOpen DEF IInv
<1>4. TimesInv'
  BY LessTimes, Moved DEF IInv
<1>5. CountInv'
  BY MovedCount DEF IInv
<1>6. TableInv'
  BY LessTable DEF IInv
<1> QED
  BY <1>1, <1>2, <1>3, <1>4, <1>5, <1>6 DEF IInv

-----------------------------------------------------------------------------
(* The actions *)

LEMMA Present ==
    ASSUME IInv, NEW r \in Requests
    PROVE  /\ req[r] \in Records /\ req[r].i \in 1..Len(KeysOf[r]) /\ Len(KeysOf[r]) \in Nat
           /\ LocksOf(r, req[r]) /\ (kind = "management" => OpenOf(r, req[r]))
           /\ KeysOf[r][req[r].i] \in Keys
           /\ now \in Nat /\ entries \in Tables
           /\ kind \in {"management", "login"} /\ Less(entries, entries)
BY TypeParts, Constants DEF IInv, TypeInv, AtKey, LocksInv, OpenInv, Less

\* Leaving, in every step.
LEMMA LeavingKeeps ==
    ASSUME IInv, NEW r \in Requests, Moves(r, Leaving(r)),
           entries' \in Tables, Less(entries', entries)
    PROVE  IInv'
<1> DEFINE x == Leaving(r)
<1>1. x \in Records /\ x.at = "idle" /\ x.i = 1 /\ x.held = {}
  BY IdleFields DEF Leaving
<1> HIDE DEF x
<1>2. x.i \in 1..Len(KeysOf[r])
  BY <1>1, Constants
<1>3. Moves(r, x)
  BY DEF x
<1>4. LocksOf(r, x) /\ OpenOf(r, x) /\ \A k : ~MayFail(r, x, k)
  BY <1>1, Zenon DEF LocksOf, OpenOf, MayFail
<1> QED
  BY <1>1, <1>2, <1>3, <1>4, MovedQuietly

LEMMA StartKeeps ==
    ASSUME IInv, NEW r \in Requests, NEW setup \in BOOLEAN, Start(r, setup)
    PROVE  IInv'
<1> DEFINE x == Begun(setup)
<1>1. /\ x \in Records /\ x.at = IF kind = "management" THEN "lock" ELSE "allow"
      /\ x.i = 1 /\ x.held = {}
  BY BegunFields
<1>2. Moves(r, x) /\ entries' = entries
  BY DEF Start
<1> HIDE DEF x
<1>3. x.i \in 1..Len(KeysOf[r])
  BY <1>1, Constants
<1>4. SlotsOf(r) # {}
  BY <1>1, <1>3, SlotTypes
<1>5. LocksOf(r, x)
  <2>1. CASE kind = "management"
    BY <1>1, <1>4, <2>1 DEF LocksOf
  <2>2. CASE kind # "management"
    BY <1>1, <2>2 DEF LocksOf
  <2> QED
    BY <2>1, <2>2
<1>6. kind = "management" => OpenOf(r, x)
  BY <1>1 DEF OpenOf
<1>7. \A k : ~MayFail(r, x, k)
  BY <1>1 DEF MayFail
<1>8. x.at # "idle" /\ entries' \in Tables /\ Less(entries', entries)
  BY <1>1, <1>2, Present
<1> QED
  BY <1>1, <1>2, <1>3, <1>5, <1>6, <1>7, <1>8, MovedQuietly

LEMMA LockKeeps ==
    ASSUME IInv, NEW r \in Requests, Lock(r)
    PROVE  IInv'
<1> DEFINE q == req[r]
<1>1. PICK s \in NextSlot(r) :
          /\ Free(s)
          /\ Moves(r, IF SlotsOf(r) \subseteq q.held \union {s}
                      THEN Granted(Locked(q, s)) ELSE Locked(q, s))
  BY DEF Lock
<1>2. entries' = entries /\ q.at = "lock"
  BY DEF Lock
<1>3. /\ q \in Records /\ q.i \in 1..Len(KeysOf[r]) /\ LocksOf(r, q)
      /\ entries \in Tables /\ Less(entries, entries)
  BY Present
<1>4. /\ s \in SlotsOf(r) \ q.held /\ \A u \in SlotsOf(r) \ q.held : s <= u
      /\ s \in Nat /\ \A u \in SlotsOf(r) : u \in Nat
  <2>1. s \in SlotsOf(r) \ q.held /\ \A u \in SlotsOf(r) \ q.held : s <= u
    BY <1>1 DEF NextSlot
  <2>2. ASSUME NEW u \in SlotsOf(r)
        PROVE  u \in Nat
    <3>1. u \in 0..255
      BY SlotTypes
    <3> QED
      BY <3>1
  <2> QED
    BY <2>1, <2>2
<1> HIDE DEF q
<1>5. /\ kind = "management" /\ q.i = 1 /\ q.held \subseteq SlotsOf(r)
      /\ \A h \in q.held, u \in SlotsOf(r) \ q.held : h < u
  BY <1>2, <1>3 DEF LocksOf
<1>6. /\ Locked(q, s) \in Records
      /\ Locked(q, s).at = "lock" /\ Locked(q, s).i = q.i
      /\ Locked(q, s).held = q.held \union {s}
  BY <1>2, <1>3, <1>4, LockedFields
<1>7. /\ Granted(Locked(q, s)) \in Records
      /\ Granted(Locked(q, s)).at = "allow" /\ Granted(Locked(q, s)).i = q.i
      /\ Granted(Locked(q, s)).held = q.held \union {s}
  BY <1>6, GrantedFields
<1>8. q.held \union {s} \subseteq SlotsOf(r)
  BY <1>4, <1>5
<1>9. \A h \in q.held \union {s} : h \in req[r].held \/ Free(h)
  BY <1>1 DEF q
<1>10. /\ \E x \in {Granted(Locked(q, s)), Locked(q, s)} :
              Moves(r, x) /\ (x.at = "allow" <=> SlotsOf(r) \subseteq q.held \union {s})
  <2>1. CASE SlotsOf(r) \subseteq q.held \union {s}
    BY <1>1, <1>7, <2>1 DEF q
  <2>2. CASE ~(SlotsOf(r) \subseteq q.held \union {s})
    BY <1>1, <1>6, <2>2 DEF q
  <2> QED
    BY <2>1, <2>2
<1>11. PICK x \in {Granted(Locked(q, s)), Locked(q, s)} :
              Moves(r, x) /\ (x.at = "allow" <=> SlotsOf(r) \subseteq q.held \union {s})
  BY <1>10
<1>12. x \in Records /\ x.at \in {"allow", "lock"} /\ x.i = 1 /\ x.held = q.held \union {s}
  BY <1>5, <1>6, <1>7, <1>11
<1>13. LocksOf(r, x)
  <2>1. CASE x.at = "allow"
    BY <1>8, <1>11, <1>12, <2>1 DEF LocksOf
  <2>2. CASE x.at = "lock"
    <3>1. \A h \in x.held, u \in SlotsOf(r) \ x.held : h < u
      BY <1>4, <1>5, <1>12
    <3> QED
      BY <1>5, <1>8, <1>11, <1>12, <2>2, <3>1 DEF LocksOf
  <2> QED
    BY <1>12, <2>1, <2>2
<1>14. OpenOf(r, x) /\ \A k : ~MayFail(r, x, k)
  BY <1>12 DEF OpenOf, OpenBefore, MayFail
<1>15. x.i \in 1..Len(KeysOf[r]) /\ x.at # "idle"
  BY <1>3, <1>5, <1>12
<1> QED
  BY <1>2, <1>3, <1>9, <1>11, <1>12, <1>13, <1>14, <1>15, MovedQuietly

LEMMA AllowKeeps ==
    ASSUME IInv, NEW r \in Requests, Allow(r)
    PROVE  IInv'
<1> DEFINE q  == req[r]
           k  == KeysOf[r][q.i]
           ok == q.ok /\ ~Blocked(k)
<1>1. /\ q.at = "allow" /\ entries' = AfterAllow(k)
      /\ Moves(r, IF q.i < Len(KeysOf[r]) THEN Asked(q, ok)
                  ELSE IF ok THEN Checking(q) ELSE Leaving(r))
  BY DEF Allow
<1>2. /\ q \in Records /\ q.i \in 1..Len(KeysOf[r]) /\ Len(KeysOf[r]) \in Nat
      /\ LocksOf(r, q) /\ (kind = "management" => OpenOf(r, q))
      /\ k \in Keys /\ entries \in Tables /\ now \in Nat
  BY Present
<1>3. /\ entries' \in Tables /\ Less(entries', entries)
      /\ entries'[k] # NoEntry => ~Expired(k) \/ Blocked(k)
  BY <1>1, <1>2, AfterAllowLess
<1>4. ok \in BOOLEAN
  BY <1>2, SMT DEF Records, Blocked
<1>5. \A s \in q.held : s \in req[r].held \/ Free(s)
  OBVIOUS
<1>6. kind = "management" => q.held = SlotsOf(r)
  BY <1>1, <1>2 DEF LocksOf
\* A request that is told yes for a key with an entry may add a failure to less
\* than the limit.
<1>7. ASSUME ok, k \in Tracked(entries')
      PROVE  ~(entries'[k].fails >= MaxFailures)
  <2>1. entries'[k] # NoEntry /\ entries[k] # NoEntry /\ entries'[k].fails = entries[k].fails
    BY <1>2, <1>3, <1>7 DEF Tracked, Less
  <2>2. ~Expired(k) /\ ~Blocked(k)
    BY <1>3, <1>7, <2>1
  <2>3. entries[k].fails >= MaxFailures => entries[k].until >= entries[k].start + Window
    BY <1>2, <2>1 DEF IInv, TimesInv, Tracked
  <2>4. entries[k] \in Entries
    BY <1>2, <2>1 DEF Tables
  <2> QED
    BY <1>2, <2>1, <2>2, <2>3, <2>4, Constants DEF Expired, Blocked, Entries
<1>8. kind = "management" /\ ok => OpenBefore(r, q.i + 1)
  BY <1>1, <1>2 DEF OpenOf, OpenBefore
<1>9. q = req[r] /\ k = KeysOf[r][q.i] /\ (ok => q.ok)
  OBVIOUS
<1> HIDE DEF q, k, ok
<1>10. \A h \in 1..Len(KeysOf[r]) : h < q.i + 1 => h < q.i \/ h = q.i
  BY <1>2
<1>11. ASSUME ok, NEW j \in Tracked(entries'), entries'[j].fails >= MaxFailures,
              NEW h \in 1..Len(KeysOf[r]), h < q.i + 1, KeysOf[r][h] = j
       PROVE  MayFail(r, q, j)
  <2>1. h # q.i
    BY <1>7, <1>9, <1>11
  <2>2. h < q.i
    BY <1>10, <1>11, <2>1
  <2> QED
    BY <1>1, <1>9, <1>11, <2>2 DEF MayFail
<1>12. CASE q.i < Len(KeysOf[r])
  <2> DEFINE x == Asked(q, ok)
  <2>1. /\ x \in Records /\ x.at = "allow" /\ x.i = q.i + 1 /\ x.ok = ok /\ x.held = q.held
    BY <1>1, <1>2, <1>4, AskedFields
  <2>2. Moves(r, x)
    BY <1>1, <1>12
  <2> HIDE DEF x
  <2>3. x.i \in 1..Len(KeysOf[r])
    BY <1>2, <1>12, <2>1
  <2>4. LocksOf(r, x)
    BY <1>6, <2>1 DEF LocksOf
  <2>5. kind = "management" => OpenOf(r, x)
    BY <1>8, <2>1 DEF OpenOf
  <2>6. \A j \in Tracked(entries') :
            entries'[j].fails >= MaxFailures /\ MayFail(r, x, j) => MayFail(r, req[r], j)
    BY <1>9, <1>11, <2>1 DEF MayFail
  <2> QED
    BY <1>3, <1>5, <2>1, <2>2, <2>3, <2>4, <2>5, <2>6, MovedQuietly
<1>13. CASE ~(q.i < Len(KeysOf[r])) /\ ok
  <2> DEFINE x == Checking(q)
  <2>1. /\ x \in Records /\ x.at = "check" /\ x.i = 1 /\ x.held = q.held
    BY <1>2, CheckingFields
  <2>2. Moves(r, x)
    BY <1>1, <1>13
  <2> HIDE DEF x
  <2>3. x.i \in 1..Len(KeysOf[r]) /\ \A h \in 1..Len(KeysOf[r]) : h < q.i + 1
    BY <1>2, <1>13, <2>1
  <2>4. LocksOf(r, x)
    BY <1>6, <2>1 DEF LocksOf
  <2>5. kind = "management" => OpenOf(r, x)
    BY <1>8, <1>13, <2>1, <2>3 DEF OpenOf, OpenBefore, OpenFrom
  <2>6. \A j \in Tracked(entries') :
            entries'[j].fails >= MaxFailures /\ MayFail(r, x, j) => MayFail(r, req[r], j)
    BY <1>9, <1>11, <1>13, <2>1, <2>3 DEF MayFail
  <2> QED
    BY <1>3, <1>5, <2>1, <2>2, <2>3, <2>4, <2>5, <2>6, MovedQuietly
<1>14. CASE ~(q.i < Len(KeysOf[r])) /\ ~ok
  <2>1. Moves(r, Leaving(r))
    BY <1>1, <1>14
  <2> QED
    BY <1>3, <2>1, LeavingKeeps
<1> QED
  BY <1>12, <1>13, <1>14

LEMMA CheckKeeps ==
    ASSUME IInv, NEW r \in Requests, Check(r)
    PROVE  IInv'
<1> DEFINE q == req[r]
<1>1. q.at = "check" /\ entries' = entries
  BY DEF Check
<1>2. /\ q \in Records /\ q.i \in 1..Len(KeysOf[r]) /\ Len(KeysOf[r]) \in Nat
      /\ LocksOf(r, q) /\ (kind = "management" => OpenOf(r, q))
      /\ entries' \in Tables /\ Less(entries', entries)
  BY <1>1, Present
<1>3. /\ kind = "management" => q.held = SlotsOf(r)
      /\ kind = "management" => OpenFrom(r, 1)
      /\ \A k : MayFail(r, q, k) <=> \E j \in 1..Len(KeysOf[r]) : KeysOf[r][j] = k
  BY <1>1, <1>2 DEF LocksOf, OpenOf, MayFail
<1>4. q = req[r]
  OBVIOUS
<1>5. CASE Moves(r, Leaving(r))
  BY <1>2, <1>5, LeavingKeeps
<1>6. CASE Moves(r, Failing(q))
  <2> DEFINE x == Failing(q)
  <2>1. x \in Records /\ x.at = "fail" /\ x.i = q.i /\ x.held = q.held
    BY <1>2, FailingFields
  <2>2. Moves(r, x)
    BY <1>6
  <2> HIDE DEF x, q
  <2>3. LocksOf(r, x)
    BY <1>3, <2>1 DEF LocksOf
  <2>4. kind = "management" => OpenOf(r, x)
    BY <1>2, <1>3, <2>1 DEF OpenOf, OpenFrom
  <2>5. \A k : MayFail(r, x, k) => MayFail(r, req[r], k)
    BY <1>3, <1>4, <2>1 DEF MayFail
  <2>6. \A s \in x.held : s \in req[r].held
    BY <1>4, <2>1
  <2> QED
    BY <1>2, <2>1, <2>2, <2>3, <2>4, <2>5, <2>6, MovedQuietly
<1>7. CASE Moves(r, Clearing(q))
  <2> DEFINE x == Clearing(q)
  <2>1. x \in Records /\ x.at = "clear" /\ x.i = q.i /\ x.held \subseteq q.held
    BY <1>2, ClearingFields
  <2>2. Moves(r, x)
    BY <1>7
  <2> HIDE DEF x, q
  <2>3. LocksOf(r, x) /\ OpenOf(r, x) /\ \A k : ~MayFail(r, x, k)
    BY <2>1, Zenon DEF LocksOf, OpenOf, MayFail
  <2>4. \A s \in x.held : s \in req[r].held
    BY <1>4, <2>1
  <2> QED
    BY <1>2, <2>1, <2>2, <2>3, <2>4, MovedQuietly
<1> QED
  BY <1>5, <1>6, <1>7, Zenon DEF Check

\* What a request does after its call for a key.
LEMMA AdvancedFields ==
    ASSUME IInv, NEW r \in Requests
    PROVE  /\ Advanced(r) \in Records /\ Advanced(r).i \in 1..Len(KeysOf[r])
           /\ \/ Advanced(r).at = "idle" /\ Advanced(r).held = {}
              \/ /\ Advanced(r).at = req[r].at /\ Advanced(r).i = req[r].i + 1
                 /\ Advanced(r).held = req[r].held
<1>1. req[r] \in Records /\ req[r].i \in 1..Len(KeysOf[r]) /\ Len(KeysOf[r]) \in Nat
  BY Present
<1>2. CASE req[r].i < Len(KeysOf[r])
  <2>1. Advanced(r) = Onward(req[r])
    BY <1>2 DEF Advanced
  <2>2. req[r].i + 1 \in 1..Len(KeysOf[r])
    BY <1>1, <1>2
  <2> QED
    BY <1>1, <2>1, <2>2, OnwardFields
<1>3. CASE ~(req[r].i < Len(KeysOf[r]))
  <2>1. Advanced(r) = Idle
    BY <1>3 DEF Advanced, Leaving
  <2> QED
    BY <2>1, IdleFields, Constants
<1> QED
  BY <1>2, <1>3

LEMMA ClearKeeps ==
    ASSUME IInv, NEW r \in Requests, Clear(r)
    PROVE  IInv'
<1> DEFINE x == Advanced(r)
<1>1. /\ req[r].at = "clear" /\ entries' = Without(KeysOf[r][req[r].i])
      /\ Moves(r, x)
  BY DEF Clear
<1>2. entries' \in Tables /\ Less(entries', entries)
  BY <1>1, Present, WithoutLess
<1>3. /\ x \in Records /\ x.i \in 1..Len(KeysOf[r])
      /\ x.at \in {"idle", "clear"} /\ x.held \subseteq req[r].held
      /\ x.at = "idle" => x.held = {}
  BY <1>1, AdvancedFields
<1> HIDE DEF x
<1>4. LocksOf(r, x) /\ OpenOf(r, x) /\ \A k : ~MayFail(r, x, k)
  BY <1>3, SMT DEF LocksOf, OpenOf, MayFail
<1>5. \A s \in x.held : s \in req[r].held
  BY <1>3
<1> QED
  BY <1>1, <1>2, <1>3, <1>4, <1>5, MovedQuietly

\* The entry to which a failure is added: full only while its window runs.
LEMMA BaseFields ==
    ASSUME IInv, NEW k \in Keys
    PROVE  /\ Base(k) \in Entries /\ Base(k).start <= now /\ Base(k).until <= now + BlockFor
           /\ Base(k).fails >= MaxFailures =>
                 entries[k] # NoEntry /\ Base(k) = entries[k] /\ Blocked(k)
           /\ Blocked(k) => Base(k).until >= entries[k].until
<1>1. now \in Nat /\ entries \in Tables /\ TimesInv
  BY TypeParts DEF IInv, TypeInv
<1>2. CASE entries[k] # NoEntry /\ ~Expired(k)
  <2>1. Base(k) = entries[k] /\ entries[k] \in Entries
    BY <1>1, <1>2 DEF Base, Tables
  <2>2. /\ entries[k].start <= now /\ entries[k].until <= now + BlockFor
        /\ entries[k].fails >= MaxFailures => entries[k].until >= entries[k].start + Window
    BY <1>1, <1>2 DEF TimesInv, Tracked
  <2>3. entries[k].fails >= MaxFailures => Blocked(k)
    BY <1>1, <1>2, <2>1, <2>2, Constants DEF Expired, Blocked, Entries
  <2>4. entries[k].until >= entries[k].until
    BY <2>1 DEF Entries
  <2> QED
    BY <1>2, <2>1, <2>2, <2>3, <2>4
<1>3. CASE entries[k] = NoEntry \/ Expired(k)
  <2> DEFINE u == IF Blocked(k) THEN entries[k].until ELSE 0
  <2>1. Base(k) = [fails |-> 0, start |-> now, seen |-> now, until |-> u]
    BY <1>3, Zenon DEF Base, Restarted
  <2>2. CASE Blocked(k)
    <3>1. entries[k] \in Entries /\ u = entries[k].until /\ entries[k].until <= now + BlockFor
      BY <1>1, <2>2 DEF Blocked, Tables, TimesInv, Tracked
    <3> HIDE DEF u
    <3>2. u \in Nat /\ u >= entries[k].until /\ u <= now + BlockFor
      BY <3>1 DEF Entries
    <3> QED
      BY <1>1, <2>1, <3>2, Constants DEF Entries
  <2>3. CASE ~Blocked(k)
    <3>1. u = 0
      BY <2>3
    <3> HIDE DEF u
    <3>2. u \in Nat /\ u <= now + BlockFor
      BY <1>1, <3>1, Constants
    <3> QED
      BY <1>1, <2>1, <2>3, <3>2, Constants DEF Entries
  <2> QED
    BY <2>2, <2>3
<1> QED
  BY <1>2, <1>3

\* The table after a failure: one entry with one failure more, and of the others
\* those that stay.
LEMMA RecordedTable ==
    ASSUME IInv, NEW k \in Keys, NEW f \in Recorded(k)
    PROVE  /\ f \in Tables /\ f[k] = Failed(Base(k)) /\ f[k] \in Entries
           /\ \A j \in Keys \ {k} : f[j] = entries[j] \/ f[j] = NoEntry
           /\ IsFiniteSet(Tracked(f)) /\ Cardinality(Tracked(f)) <= MaxEntries
           /\ \A j \in Keys \ {k} : entries[j] # NoEntry /\ f[j] = NoEntry =>
                  now >= entries[j].until \/ Cardinality(Tracked(entries)) >= MaxEntries
<1> DEFINE w == Without(k)
<1>1. now \in Nat /\ entries \in Tables /\ TableInv
  BY TypeParts DEF IInv, TypeInv
<1>2. w \in Tables /\ Less(w, entries) /\ \A j \in Keys \ {k} : w[j] = entries[j]
  BY <1>1, WithoutLess
<1>3. /\ IsFiniteSet(Tracked(entries)) /\ Cardinality(Tracked(entries)) <= MaxEntries
      /\ Cardinality(Tracked(entries)) \in Nat
  BY <1>1, FS_CardinalityType DEF TableInv, TableBounded
<1>4. Tracked(w) \in SUBSET Tracked(entries)
  BY <1>2, SMT DEF Less, Tracked
<1>5. /\ IsFiniteSet(Tracked(w)) /\ Cardinality(Tracked(w)) \in Nat
      /\ Cardinality(Tracked(w)) <= Cardinality(Tracked(entries))
  BY <1>3, <1>4, FS_Subset, FS_CardinalityType
<1>6. Cardinality(Tracked(w)) <= MaxEntries
  BY <1>3, <1>5, Constants
<1>7. PICK e \in MakeRoom(w) : f = [e EXCEPT ![k] = Failed(Base(k))]
  BY Zenon DEF Recorded
<1> HIDE DEF w
<1>8. /\ e \in Tables /\ \A j \in Keys : e[j] = w[j] \/ e[j] = NoEntry
      /\ IsFiniteSet(Tracked(e)) /\ Cardinality(Tracked(e)) < MaxEntries
      /\ \A j \in Keys : w[j] # NoEntry /\ e[j] = NoEntry =>
             now >= w[j].until \/ Cardinality(Tracked(w)) >= MaxEntries
  BY <1>2, <1>5, <1>6, MakeRoomLess
<1>9. Failed(Base(k)) \in Entries
  BY <1>1, BaseFields, FailedFields
<1>10. f \in Tables /\ f[k] = Failed(Base(k)) /\ \A j \in Keys \ {k} : f[j] = e[j]
  BY <1>7, <1>8, <1>9, SMT DEF Tables
<1>11. Tracked(f) \in SUBSET (Tracked(e) \union {k})
  BY <1>10 DEF Tracked
<1>12. /\ IsFiniteSet(Tracked(e) \union {k})
       /\ Cardinality(Tracked(e) \union {k}) <= Cardinality(Tracked(e)) + 1
       /\ Cardinality(Tracked(e)) \in Nat
  <2> DEFINE n == Cardinality(Tracked(e))
             m == Cardinality(Tracked(e) \union {k})
  <2>1. /\ IsFiniteSet(Tracked(e) \union {k})
        /\ m = IF k \in Tracked(e) THEN n ELSE n + 1
    BY <1>8, FS_AddElement
  <2>2. n \in Nat
    BY <1>8, FS_CardinalityType
  <2> HIDE DEF n, m
  <2>3. m <= n + 1
    BY <2>1, <2>2
  <2> QED
    BY <2>1, <2>2, <2>3 DEF n, m
<1>13. /\ IsFiniteSet(Tracked(f)) /\ Cardinality(Tracked(f)) \in Nat
       /\ Cardinality(Tracked(f)) <= Cardinality(Tracked(e) \union {k})
       /\ Cardinality(Tracked(e) \union {k}) \in Nat
  BY <1>11, <1>12, FS_Subset, FS_CardinalityType
<1>14. Cardinality(Tracked(f)) <= MaxEntries
  BY <1>8, <1>12, <1>13, Constants
<1>15. \A j \in Keys \ {k} : entries[j] # NoEntry /\ f[j] = NoEntry =>
           now >= entries[j].until \/ Cardinality(Tracked(w)) >= MaxEntries
  BY <1>2, <1>8, <1>10
<1>16. Cardinality(Tracked(w)) >= MaxEntries => Cardinality(Tracked(entries)) >= MaxEntries
  BY <1>3, <1>5, Constants
<1> QED
  BY <1>2, <1>8, <1>9, <1>10, <1>13, <1>14, <1>15, <1>16

LEMMA FailKeeps ==
    ASSUME IInv, NEW r \in Requests, Fail(r)
    PROVE  IInv'
<1> DEFINE q == req[r]
           x == Advanced(r)
<1>0. PICK k \in Keys : k = KeysOf[r][q.i]
  BY Present
<1>1. q.at = "fail" /\ entries' \in Recorded(k) /\ Moves(r, x)
  BY <1>0 DEF Fail
<1>2. /\ q \in Records /\ q.i \in 1..Len(KeysOf[r]) /\ Len(KeysOf[r]) \in Nat
      /\ LocksOf(r, q) /\ (kind = "management" => OpenOf(r, q))
      /\ k \in Keys /\ entries \in Tables /\ now \in Nat
      /\ kind \in {"management", "login"}
  BY Present
<1>3. /\ x \in Records /\ x.i \in 1..Len(KeysOf[r])
      /\ \/ x.at = "idle" /\ x.held = {}
         \/ x.at = "fail" /\ x.i = q.i + 1 /\ x.held = q.held
  BY <1>1, AdvancedFields
<1>4. /\ entries' \in Tables /\ entries'[k] = Failed(Base(k)) /\ entries'[k] \in Entries
      /\ \A j \in Keys \ {k} : entries'[j] = entries[j] \/ entries'[j] = NoEntry
      /\ IsFiniteSet(Tracked(entries')) /\ Cardinality(Tracked(entries')) <= MaxEntries
  BY <1>1, <1>2, RecordedTable
<1>5. /\ Base(k) \in Entries /\ Base(k).start <= now /\ Base(k).until <= now + BlockFor
      /\ Base(k).fails >= MaxFailures =>
            entries[k] # NoEntry /\ Base(k) = entries[k] /\ Blocked(k)
  BY <1>2, BaseFields
<1>6. /\ entries'[k].fails = Base(k).fails + 1 /\ entries'[k].start = Base(k).start
      /\ entries'[k].until = IF Base(k).fails + 1 >= MaxFailures THEN now + BlockFor
                             ELSE Base(k).until
  BY <1>2, <1>4, <1>5, FailedFields
<1>7. q = req[r] /\ k = KeysOf[r][q.i]
  BY <1>0
<1> HIDE DEF q, x
<1>8. /\ req' \in [Requests -> Records] /\ req'[r] = x
      /\ \A p \in Requests \ {r} : req'[p] = req[p]
      /\ kind' = kind /\ now' = now
  BY <1>1, <1>3, Moved DEF IInv
\* The step leaves the key behind.
<1>9. /\ ~MayFail(r, x, k) /\ MayFail(r, q, k)
      /\ \A j : MayFail(r, x, j) => MayFail(r, q, j)
  <2>1. \A h \in 1..Len(KeysOf[r]) : KeysOf[r][h] = k => h = q.i
    BY <1>2, <1>7, Constants
  <2>2. ~MayFail(r, x, k)
    BY <1>2, <1>3, <2>1 DEF MayFail
  <2>3. MayFail(r, q, k)
    BY <1>1, <1>2, <1>7 DEF MayFail
  <2>4. ASSUME NEW j, MayFail(r, x, j)
        PROVE  MayFail(r, q, j)
    <3>1. PICK h \in 1..Len(KeysOf[r]) : KeysOf[r][h] = j /\ x.at = "fail" /\ x.i <= h
      BY <1>3, <2>4 DEF MayFail
    <3>2. q.i <= h
      BY <1>2, <1>3, <3>1
    <3> QED
      BY <1>1, <3>1, <3>2 DEF MayFail
  <2> QED
    BY <2>2, <2>3, <2>4
<1>10. \A j \in Keys \ {k} : ~Blocked(j) => ~Blocked(j)'
  BY <1>4, <1>8 DEF Blocked
<1>11. TypeInv'
  <2>1. \A s \in x.held : s \in req[r].held
    BY <1>3, <1>7
  <2>2. x.at = "idle" => x.held = {}
    BY <1>3
  <2> QED
    BY <1>1, <1>3, <1>4, <2>1, <2>2, MovedTypes DEF IInv
<1>12. LocksInv'
  <2>1. LocksOf(r, x)
    BY <1>1, <1>2, <1>3, SMT DEF LocksOf
  <2> QED
    BY <1>1, <1>3, <2>1, MovedLocks DEF IInv
\* A management request that still relies on an answer shares no lock with r, and
\* so no key.
<1>13. OpenInv'
  <2> SUFFICES ASSUME kind = "management", NEW p \in Requests
               PROVE  OpenOf(p, req[p])'
    BY <1>8 DEF OpenInv
  <2>1. CASE p = r
    <3>1. \A h \in 1..Len(KeysOf[r]) : h >= q.i + 1 => KeysOf[r][h] # k
      BY <1>2, <1>7, Constants
    <3>2. \A h \in 1..Len(KeysOf[r]) : h >= q.i + 1 => ~Blocked(KeysOf[r][h])
      BY <1>1, <1>2 DEF OpenOf, OpenFrom
    <3>3. \A h \in 1..Len(KeysOf[r]) : h >= q.i + 1 => ~Blocked(KeysOf[r][h])'
      BY <1>10, <3>1, <3>2, Constants
    <3> QED
      BY <1>3, <1>8, <2>1, <3>3 DEF OpenOf, OpenFrom
  <2>2. CASE p # r /\ req[p].at \in {"allow", "check", "fail"}
    <3>1. req[p].held = SlotsOf(p) /\ req[r].held = SlotsOf(r)
      BY <1>1, <1>2, <1>7, <2>2 DEF IInv, LocksInv, LocksOf
    <3>2. req[p].held \intersect req[r].held = {}
      BY <2>2, TypeParts DEF IInv, TypeInv
    <3>3. Slot[k] \in SlotsOf(r)
      BY <1>2, <1>7, SlotTypes
    <3>4. \A h \in 1..Len(KeysOf[p]) : KeysOf[p][h] # k
      BY <3>1, <3>2, <3>3, SlotTypes
    <3>5. \A h \in 1..Len(KeysOf[p]) : ~Blocked(KeysOf[p][h]) => ~Blocked(KeysOf[p][h])'
      BY <1>10, <3>4, Constants
    <3>6. OpenOf(p, req[p]) /\ req'[p] = req[p]
      BY <1>8, <2>2 DEF IInv, OpenInv
    <3> QED
      BY <3>5, <3>6, Zenon DEF OpenOf, OpenBefore, OpenFrom
  <2>3. CASE p # r /\ req[p].at \notin {"allow", "check", "fail"}
    <3>1. req'[p] = req[p]
      BY <1>8, <2>3
    <3> QED
      BY <2>3, <3>1 DEF OpenOf
  <2> QED
    BY <2>1, <2>2, <2>3
<1>14. TimesInv'
  <2> SUFFICES ASSUME NEW j \in Tracked(entries')
               PROVE  /\ entries'[j].start <= now /\ entries'[j].until <= now + BlockFor
                      /\ entries'[j].fails >= MaxFailures =>
                             entries'[j].until >= entries'[j].start + Window
    BY <1>8 DEF TimesInv, Tracked
  <2>1. CASE j = k
    <3>1. Base(k).fails \in Nat /\ Base(k).start \in Nat /\ Base(k).until \in Nat
      BY <1>5 DEF Entries
    <3> QED
      BY <1>2, <1>5, <1>6, <2>1, <3>1, Constants
  <2>2. CASE j # k
    <3>1. j \in Tracked(entries) /\ entries'[j] = entries[j]
      BY <1>4, <2>2 DEF Tracked
    <3> QED
      BY <3>1 DEF IInv, TimesInv
  <2> QED
    BY <2>1, <2>2
<1>15. CountInv'
  <2> SUFFICES ASSUME NEW j \in Tracked(entries'), entries'[j].fails >= MaxFailures
               PROVE  /\ entries'[j].fails - MaxFailures + Cardinality(Failers(j)')
                             <= Cardinality(Requests) - 1
                      /\ kind = "management" => entries'[j].fails = MaxFailures
    BY <1>8, Zenon DEF CountInv, Tracked
  <2>1. CASE j = k
    <3>1. r \in Failers(k) /\ Failers(k)' = Failers(k) \ {r}
      <4>1. r \in Failers(k)
        BY <1>7, <1>9 DEF Failers
      <4> QED
        BY <1>1, <1>3, <1>9, <4>1, MovedFailers DEF IInv
    <3>2. /\ Cardinality(Failers(k)') = Cardinality(Failers(k)) - 1
          /\ Cardinality(Failers(k)) \in Nat /\ Cardinality(Requests) \in Nat
          /\ Cardinality(Failers(k)) <= Cardinality(Requests)
      BY <3>1, FailersFinite, FS_RemoveElement
    <3>3. Base(k).fails \in Nat /\ MaxFailures \in Nat
      BY <1>5, Constants DEF Entries
    <3>4. CASE Base(k).fails >= MaxFailures
      <4>1. k \in Tracked(entries) /\ Base(k) = entries[k] /\ Blocked(k)
        BY <1>2, <1>5, <3>4 DEF Tracked
      <4>2. entries[k].fails - MaxFailures + Cardinality(Failers(k)) <= Cardinality(Requests) - 1
        BY <3>4, <4>1 DEF IInv, CountInv
      <4>3. kind # "management"
        BY <1>1, <1>2, <1>7, <4>1 DEF OpenOf, OpenFrom
      <4> QED
        BY <1>6, <2>1, <3>2, <3>3, <4>1, <4>2, <4>3
    <3>5. CASE ~(Base(k).fails >= MaxFailures)
      BY <1>6, <2>1, <3>2, <3>3, <3>5
    <3> QED
      BY <3>4, <3>5
  <2>2. CASE j # k
    <3>1. j \in Tracked(entries) /\ entries'[j] = entries[j]
      BY <1>4, <2>2 DEF Tracked
    <3>2. /\ entries[j].fails - MaxFailures + Cardinality(Failers(j)) <= Cardinality(Requests) - 1
          /\ kind = "management" => entries[j].fails = MaxFailures
      BY <3>1 DEF IInv, CountInv
    <3>3. Failers(j)' \in SUBSET Failers(j)
      <4>1. MayFail(r, x, j) => r \in Failers(j)
        BY <1>7, <1>9 DEF Failers
      <4> QED
        BY <1>1, <1>3, <4>1, MovedFailers DEF IInv
    <3>4. /\ Cardinality(Failers(j)') <= Cardinality(Failers(j))
          /\ Cardinality(Failers(j)') \in Nat /\ Cardinality(Failers(j)) \in Nat
          /\ Cardinality(Requests) \in Nat
      BY <3>3, FailersFinite, FS_Subset, FS_CardinalityType
    <3>5. entries[j].fails \in Nat /\ MaxFailures \in Nat
      BY <1>2, <3>1, Constants DEF Tables, Tracked, Entries
    <3> QED
      BY <3>1, <3>2, <3>4, <3>5
  <2> QED
    BY <2>1, <2>2
<1>16. TableInv'
  BY <1>4 DEF TableInv, TableBounded, Tracked
<1> QED
  BY <1>11, <1>12, <1>13, <1>14, <1>15, <1>16 DEF IInv

LEMMA TickKeeps ==
    ASSUME IInv, Tick
    PROVE  IInv'
<1>1. now \in Nat /\ now' = now + 1 /\ kind' = kind /\ entries' = entries /\ req' = req
  BY TypeParts DEF IInv, TypeInv, Tick
<1>2. entries \in Tables
  BY TypeParts DEF IInv, TypeInv
<1>3. TypeInv'
  BY <1>1, SMT DEF IInv, TypeInv, TypeOK, AtKey
<1>4. LocksInv'
  BY <1>1 DEF IInv, LocksInv, LocksOf
<1>5. \A k \in Keys : ~Blocked(k) => ~Blocked(k)'
  BY <1>1, <1>2 DEF Blocked, Tables, Entries
<1>6. \A q \in Requests : \A h \in 1..Len(KeysOf[q]) :
          ~Blocked(KeysOf[q][h]) => ~Blocked(KeysOf[q][h])'
  BY <1>5, Constants
<1>7. OpenInv'
  BY <1>1, <1>6 DEF IInv, OpenInv, OpenOf, OpenBefore, OpenFrom
<1>8. TimesInv'
  BY <1>1, <1>2, Constants DEF IInv, TimesInv, Tracked, Tables, Entries
<1>9. CountInv'
  BY <1>1 DEF IInv, CountInv, Tracked, Failers
<1>10. TableInv'
  BY <1>1 DEF IInv, TableInv, TableBounded, Tracked
<1> QED
  BY <1>3, <1>4, <1>7, <1>8, <1>9, <1>10 DEF IInv

-----------------------------------------------------------------------------
(* The invariant holds *)

LEMMA InitInv == Init => IInv
<1> SUFFICES ASSUME Init
             PROVE  IInv
  OBVIOUS
<1>1. /\ kind \in {"management", "login"} /\ now = 0
      /\ entries = [k \in Keys |-> NoEntry] /\ req = [r \in Requests |-> Idle]
  BY DEF Init
<1>2. \A r \in Requests : req[r] = Idle
  BY <1>1
<1>3. Tracked(entries) = {}
  BY <1>1 DEF Tracked
<1>4. entries \in Tables /\ req \in [Requests -> Records] /\ now \in Nat
  BY <1>1, IdleFields DEF Tables
<1>5. TypeInv
  BY <1>1, <1>2, <1>4, IdleFields, TypeParts, Constants DEF TypeInv, AtKey
<1>6. LocksInv
  BY <1>2, IdleFields DEF LocksInv, LocksOf
<1>7. OpenInv
  BY <1>2, IdleFields DEF OpenInv, OpenOf
<1>8. TimesInv /\ CountInv
  BY <1>3 DEF TimesInv, CountInv
<1>9. TableInv
  BY <1>3, FS_EmptySet, Constants DEF TableInv, TableBounded
<1> QED
  BY <1>5, <1>6, <1>7, <1>8, <1>9 DEF IInv

LEMMA NextInv == IInv /\ [Next]_vars => IInv'
<1> SUFFICES ASSUME IInv, [Next]_vars
             PROVE  IInv'
  OBVIOUS
<1>1. CASE Tick
  BY <1>1, TickKeeps
<1>2. ASSUME NEW r \in Requests, NEW setup \in BOOLEAN, Start(r, setup)
      PROVE  IInv'
  BY <1>2, StartKeeps
<1>3. ASSUME NEW r \in Requests, Lock(r)
      PROVE  IInv'
  BY <1>3, LockKeeps
<1>4. ASSUME NEW r \in Requests, Allow(r)
      PROVE  IInv'
  BY <1>4, AllowKeeps
<1>5. ASSUME NEW r \in Requests, Check(r)
      PROVE  IInv'
  BY <1>5, CheckKeeps
<1>6. ASSUME NEW r \in Requests, Fail(r)
      PROVE  IInv'
  BY <1>6, FailKeeps
<1>7. ASSUME NEW r \in Requests, Clear(r)
      PROVE  IInv'
  BY <1>7, ClearKeeps
<1>8. CASE UNCHANGED vars
  BY <1>8, Zenon DEF vars, IInv, TypeInv, TypeOK, AtKey, LocksInv, LocksOf, OpenInv, OpenOf,
     OpenBefore, OpenFrom, Blocked, TimesInv, Tracked, CountInv, Failers, TableInv, TableBounded
<1> QED
  BY <1>1, <1>2, <1>3, <1>4, <1>5, <1>6, <1>7, <1>8, Zenon DEF Next

LEMMA Invariance == Spec => []IInv
BY InitInv, NextInv, PTL DEF Spec

\* Types, and every lock with one owner.
THEOREM TypeCorrect == Spec => []TypeOK
<1>1. IInv => TypeOK
  BY DEF IInv, TypeInv
<1> QED
  BY <1>1, Invariance, PTL

\* No management request checks a credential while a key of it is blocked, for
\* any keys, locks that keys share, and number of requests.
THEOREM CheckedCorrect == Spec => []CheckedUnblocked
<1>1. IInv => CheckedUnblocked
  BY CheckedFromInv DEF IInv
<1> QED
  BY <1>1, Invariance, PTL

\* The failures in a window: at most the limit with locks, and without them one
\* more for each other request that is served at once.
THEOREM FailuresCorrect == Spec => []FailuresBounded
<1>1. IInv => FailuresBounded
  BY FailuresFromInv DEF IInv
<1> QED
  BY <1>1, Invariance, PTL

\* The table keeps to its limit.
THEOREM TableCorrect == Spec => []TableBounded
<1>1. IInv => TableBounded
  BY DEF IInv, TableInv
<1> QED
  BY <1>1, Invariance, PTL

-----------------------------------------------------------------------------
(* Blocks that run *)

LEMMA BlockStep ==
    ASSUME IInv, [Next]_vars, NEW k \in Keys, Blocked(k), now' < entries[k].until
    PROVE  \/ entries'[k] # NoEntry /\ entries'[k].until >= entries[k].until
           \/ entries'[k] = NoEntry /\ \/ \E r \in Requests : Clears(r, k)
                                       \/ Cardinality(Tracked(entries)) >= MaxEntries
<1>1. entries \in Tables /\ now \in Nat /\ entries[k] # NoEntry /\ now < entries[k].until
  BY TypeParts DEF IInv, TypeInv, Blocked
<1>2. entries[k] \in Entries /\ entries[k].until >= entries[k].until
  BY <1>1 DEF Tables, Entries
<1>3. CASE entries' = entries
  BY <1>1, <1>2, <1>3
<1>4. ASSUME NEW r \in Requests, Allow(r)
      PROVE  entries'[k] # NoEntry /\ entries'[k].until >= entries[k].until
  <2>1. PICK j \in Keys : entries' = AfterAllow(j)
    BY <1>4, Present DEF Allow
  <2>2. CASE j = k
    BY <1>1, <1>2, <2>1, <2>2, AfterAllowLess DEF Less
  <2>3. CASE j # k
    BY <1>1, <1>2, <2>1, <2>3, AfterAllowLess
  <2> QED
    BY <2>2, <2>3
<1>5. ASSUME NEW r \in Requests, Fail(r)
      PROVE  \/ entries'[k] # NoEntry /\ entries'[k].until >= entries[k].until
             \/ entries'[k] = NoEntry /\ Cardinality(Tracked(entries)) >= MaxEntries
  <2>1. PICK j \in Keys : entries' \in Recorded(j)
    BY <1>5, Present DEF Fail
  <2>2. CASE j = k
    <3>1. entries'[k] = Failed(Base(k)) /\ entries'[k] \in Entries
      BY <2>1, <2>2, RecordedTable
    <3>2. /\ Base(k) \in Entries /\ Base(k).until <= now + BlockFor
          /\ Base(k).until >= entries[k].until
      BY BaseFields
    <3>3. entries'[k].until = IF Base(k).fails + 1 >= MaxFailures THEN now + BlockFor
                              ELSE Base(k).until
      BY <1>1, <3>1, <3>2, FailedFields
    <3>4. /\ Base(k).until \in Nat /\ now + BlockFor \in Nat /\ entries[k].until \in Nat
      BY <1>1, <1>2, <3>2, Constants DEF Entries
    <3> QED
      BY <3>1, <3>2, <3>3, <3>4, Constants
  <2>3. CASE j # k
    <3>1. entries'[k] = entries[k] \/ entries'[k] = NoEntry
      BY <2>1, <2>3, RecordedTable
    <3>2. entries'[k] = NoEntry =>
              now >= entries[k].until \/ Cardinality(Tracked(entries)) >= MaxEntries
      BY <1>1, <2>1, <2>3, RecordedTable
    <3> QED
      BY <1>1, <1>2, <3>1, <3>2 DEF Entries
  <2> QED
    BY <2>2, <2>3
<1>6. ASSUME NEW r \in Requests, Clear(r)
      PROVE  \/ entries'[k] # NoEntry /\ entries'[k].until >= entries[k].until
             \/ entries'[k] = NoEntry /\ Clears(r, k)
  <2> DEFINE j == KeysOf[r][req[r].i]
  <2>1. req[r].at = "clear" /\ entries' = Without(j)
    BY <1>6 DEF Clear
  <2>2. CASE j = k
    BY <1>1, <2>1, <2>2 DEF Clears, Without, Tables
  <2>3. CASE j # k
    <3>1. entries'[k] = entries[k]
      BY <1>1, <2>1, <2>3 DEF Without, Tables
    <3> QED
      BY <1>1, <1>2, <3>1
  <2> QED
    BY <2>2, <2>3
<1>7. \/ entries' = entries
      \/ \E r \in Requests : Allow(r) \/ Fail(r) \/ Clear(r)
  BY Zenon DEF Next, vars, Tick, Start, Lock, Check
<1> QED
  BY <1>3, <1>4, <1>5, <1>6, <1>7, Zenon

\* No failure shortens or forgets a block that runs: only the clearing of that
\* key, or a full table, ends one early.
THEOREM BlockCorrect == Spec => BlockKept
<1>1. IInv /\ [Next]_vars =>
          [\A k \in Keys : Blocked(k) /\ now' < entries[k].until =>
              \/ entries'[k] # NoEntry /\ entries'[k].until >= entries[k].until
              \/ entries'[k] = NoEntry /\ \/ \E r \in Requests : Clears(r, k)
                                          \/ Cardinality(Tracked(entries)) >= MaxEntries]_vars
  BY BlockStep, Zenon
<1> QED
  BY <1>1, Invariance, PTL DEF Spec, BlockKept

-----------------------------------------------------------------------------
(* Waiting for locks *)

Below == {ss \in Nat \X Nat : ss[1] < ss[2]}

LEMMA BelowIsWellFounded == IsWellFoundedOn(Below, Nat)
<1>1. Below = OpToRel(<, Nat)
  BY DEF Below, OpToRel
<1> QED
  BY <1>1, NatLessThanWellFounded

LEMMA LeastNatural ==
    ASSUME NEW S \in SUBSET Nat, S # {}
    PROVE  \E m \in S : \A t \in S : m <= t
<1>1. PICK m \in S : \A t \in S : ~(<<t, m>> \in Below)
  BY BelowIsWellFounded, WFMin
<1>2. ASSUME NEW t \in S, t < m
      PROVE  FALSE
  <2> DEFINE p == <<t, m>>
  <2>1. p \in Nat \X Nat /\ p[1] = t /\ p[2] = m
    OBVIOUS
  <2>2. p \in Below
    BY <1>2, <2>1, Zenon DEF Below
  <2> QED
    BY <1>1, <2>2
<1>3. \A t \in S : m \in Nat /\ t \in Nat /\ ~(t < m)
  BY <1>2
<1> QED
  BY <1>3

LEMMA GreatestSlot ==
    ASSUME NEW S \in SUBSET (0..255), S # {}
    PROVE  \E m \in S : \A t \in S : t <= m
<1> DEFINE D == {255 - t : t \in S}
<1>1. D \in SUBSET Nat /\ D # {}
  <2>1. \A t \in S : t \in 0..255
    OBVIOUS
  <2>2. \A t \in S : 255 - t \in Nat
    BY <2>1
  <2> QED
    BY <2>2
<1>2. PICK d \in D : \A e \in D : d <= e
  BY <1>1, LeastNatural
<1>3. PICK m \in S : d = 255 - m
  OBVIOUS
<1>4. ASSUME NEW t \in S
      PROVE  t <= m
  <2>1. 255 - m <= 255 - t
    BY <1>2, <1>3
  <2>2. m \in 0..255 /\ t \in 0..255
    OBVIOUS
  <2> QED
    BY <2>1, <2>2
<1> QED
  BY <1>4

\* A waiting request that holds the greatest lock needs one that is greater still.
LEMMA StuckFromInv == LocksInv => NobodyStuck
<1> SUFFICES ASSUME LocksInv,
                    NEW set \in (SUBSET {r \in Requests : req[r].at = "lock"}) \ {{}}
             PROVE  \E r \in set :
                        /\ NextSlot(r) # {}
                        /\ NextSlot(r) \intersect UNION {req[q].held : q \in set} = {}
  BY Zenon DEF NobodyStuck
<1> DEFINE H == UNION {req[q].held : q \in set}
<1>1. set # {} /\ \A r \in set : r \in Requests /\ req[r].at = "lock"
  <2>1. set # {}
    OBVIOUS
  <2>2. \A r \in set : r \in {q \in Requests : req[q].at = "lock"}
    BY Zenon
  <2> QED
    BY <2>1, <2>2
<1>2. ASSUME NEW r \in set
      PROVE  /\ req[r].held \subseteq SlotsOf(r) /\ req[r].held # SlotsOf(r)
             /\ \A s \in req[r].held, t \in SlotsOf(r) \ req[r].held : s < t
             /\ \A s \in SlotsOf(r) : s \in 0..255
  BY <1>1, SlotTypes DEF LocksInv, LocksOf
<1>3. ASSUME NEW r \in set
      PROVE  NextSlot(r) # {}
  <2> DEFINE open == SlotsOf(r) \ req[r].held
  <2>1. open # {}
    BY <1>2
  <2>2. \A s \in open : s \in 0..255
    BY <1>2
  <2>3. open \in SUBSET Nat
    BY <2>2
  <2> HIDE DEF open
  <2>4. PICK m \in open : \A t \in open : m <= t
    BY <2>1, <2>3, LeastNatural
  <2>5. m \in NextSlot(r)
    BY <2>4, Zenon DEF NextSlot, open
  <2> QED
    BY <2>5
<1>4. H \in SUBSET (0..255)
  BY <1>2
<1>5. CASE H = {}
  <2>1. PICK r \in set : TRUE
    BY <1>1
  <2> QED
    BY <1>3, <1>5, <2>1
<1>6. CASE H # {}
  <2>1. PICK m \in H : \A t \in H : t <= m
    BY <1>4, <1>6, GreatestSlot
  <2>2. PICK r \in set : m \in req[r].held
    BY <2>1
  <2>3. ASSUME NEW s \in NextSlot(r), s \in H
        PROVE  FALSE
    <3>1. s \in SlotsOf(r) \ req[r].held
      BY DEF NextSlot
    <3>2. m < s /\ s <= m
      BY <1>2, <2>1, <2>2, <2>3, <3>1
    <3>3. m \in 0..255 /\ s \in 0..255
      BY <1>4, <2>1, <2>3
    <3> QED
      BY <3>2, <3>3
  <2>4. NextSlot(r) \intersect H = {}
    BY <2>3
  <2> QED
    BY <1>3, <2>2, <2>4
<1> QED
  BY <1>5, <1>6

\* Requests never wait for one another in a circle, however many they are and
\* however their keys share the 256 locks.
THEOREM StuckCorrect == Spec => []NobodyStuck
<1>1. IInv => NobodyStuck
  BY StuckFromInv DEF IInv
<1> QED
  BY <1>1, Invariance, PTL
=============================================================================
