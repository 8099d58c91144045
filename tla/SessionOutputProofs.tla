------------------------ MODULE SessionOutputProofs ------------------------
(***************************************************************************)
(* SessionOutput for any number of panes and frames.                       *)
(***************************************************************************)
EXTENDS SessionOutput, SequenceTheorems, WellFoundedInduction, TLAPS

-----------------------------------------------------------------------------
(* The inductive invariant *)

Inc(q) == \A i, j \in 1..Len(q) : i < j => q[i] < q[j]

\* The elements of a sequence.
Els(q) == {q[i] : i \in 1..Len(q)}

\* The first frame that pane p has not been sent nor been passed over for.
Fence(p) == IF at \in {"persist", "broadcast"} \/ p \in targets THEN seq ELSE seq + 1

\* Frame x came over the socket and is not pending: it is newer than all that are,
\* and older than all that are still to come.
Came(p, x) ==
    /\ x < Fence(p)
    /\ \A y \in Els(pend[p]) : y < x
    /\ \A y \in Els(inbox[p]) : x < y

RowsInv ==
    /\ \A n \in rows : n <= seq
    /\ at = "persist" => seq \notin rows
    /\ at # "idle" => seq \in Frames
    /\ at # "send" => targets = {}

HubInv(p) ==
    /\ p \in subs \/ p \in targets => sock[p] \in {"open", "broken"}
    /\ sock[p] = "open" => p \in subs
    /\ sock[p] \in {"open", "connecting"} => Mounted(p)
    /\ sock[p] # "open" => inbox[p] = <<>>
    /\ sock[p] = "none" <=> phase[p] = "off"

\* The frames of a pane come in the order of their numbers.
OrderInv(p) ==
    /\ Inc(pend[p]) /\ Inc(inbox[p])
    /\ \A x \in Els(inbox[p]) : x < Fence(p) /\ \A y \in Els(pend[p]) : y < x
    /\ \A x \in Els(pend[p]) : x < Fence(p)
    /\ ~Restoring(p) /\ phase[p] # "pending" => pend[p] = <<>>

\* What is on the terminal is not still to be written.
ScreenInv(p) ==
    /\ IsInjective(screen[p])
    /\ phase[p] \in {"off", "fetch", "answered", "closed"} => screen[p] = <<>> /\ restored[p] = 0
    /\ phase[p] = "history" =>
          /\ hist[p] # {} /\ Min(hist[p]) \in Els(screen[p]) /\ restored[p] < Min(hist[p])
          /\ \A x \in Els(screen[p]) : x = Min(hist[p]) \/ x <= restored[p]
    /\ phase[p] = "pending" =>
          /\ pend[p] # <<>> /\ Head(pend[p]) \in Els(screen[p])
          /\ \A x \in Els(screen[p]) : x <= Head(pend[p]) \/ Came(p, x)
    /\ phase[p] = "live" => \A x \in Els(screen[p]) : x <= restored[p] \/ Came(p, x)

\* The rows of the list, and every frame that the pane was sent.
ListInv(p) ==
    /\ listed[p] \subseteq rows
    /\ \A m \in listed[p], n \in rows : n <= m => n \in listed[p]
    /\ phase[p] \in {"off", "fetch", "closed"} => listed[p] = {}
    /\ phase[p] = "answered" => hist[p] = listed[p]
    /\ phase[p] = "history" => hist[p] \subseteq listed[p] /\ listed[p] \subseteq Els(screen[p]) \union hist[p]
    /\ phase[p] \in {"pending", "live"} => listed[p] \subseteq Els(screen[p])
    /\ \/ restored[p] = 0 \/ restored[p] \in listed[p]
       \/ /\ phase[p] \in {"pending", "live"}
          /\ restored[p] < Fence(p) /\ \A y \in Els(inbox[p]) : restored[p] < y

SentInv(p) ==
    sock[p] = "open" =>
        \A n \in rows : first[p] <= n /\ n < Fence(p) =>
            n \in Els(inbox[p]) \union Els(pend[p]) \union Els(screen[p]) \union skipped[p]

PaneInv(p) == HubInv(p) /\ OrderInv(p) /\ ScreenInv(p) /\ ListInv(p) /\ SentInv(p)

IInv == TypeOK /\ RowsInv /\ \A p \in Panes : PaneInv(p)

-----------------------------------------------------------------------------
(* Lemmas about sequences and sets of numbers *)

LEMMA FrameIsNat == Frames \subseteq Nat
BY OutputBounds DEF Frames

Below == {x \in Nat \X Nat : x[1] < x[2]}

LEMMA BelowIsWellFounded == IsWellFoundedOn(Below, Nat)
<1>1. Below = OpToRel(<, Nat)
  BY DEF Below, OpToRel
<1> QED BY <1>1, NatLessThanWellFounded

LEMMA MinOf ==
    ASSUME NEW S \in SUBSET Nat, S # {}
    PROVE  Min(S) \in S /\ \A t \in S : Min(S) <= t
<1>1. PICK m \in S : \A t \in S : ~(<<t, m>> \in Below)
  BY BelowIsWellFounded, WFMin
<1>2. ASSUME NEW t \in S, t < m
      PROVE  FALSE
  <2> DEFINE x == <<t, m>>
  <2>1. x \in Nat \X Nat /\ x[1] = t /\ x[2] = m
    OBVIOUS
  <2>2. x \in Below
    BY <1>2, <2>1, Zenon DEF Below
  <2> QED BY <1>1, <2>2
<1>3. \A t \in S : m <= t
  BY <1>2
<1> QED BY <1>3 DEF Min

LEMMA Appended ==
    ASSUME NEW q \in Seq(Frames), NEW n \in Frames
    PROVE  /\ Append(q, n) \in Seq(Frames)
           /\ Els(Append(q, n)) = Els(q) \union {n}
           /\ Inc(q) /\ (\A x \in Els(q) : x < n) => Inc(Append(q, n))
           /\ IsInjective(q) /\ n \notin Els(q) => IsInjective(Append(q, n))
<1> DEFINE a == Append(q, n)
<1>1. /\ a \in Seq(Frames) /\ Len(a) = Len(q) + 1 /\ Len(q) \in Nat
      /\ \A i \in 1..Len(q) : a[i] = q[i]
      /\ a[Len(q) + 1] = n
      /\ DOMAIN a = 1..Len(a) /\ DOMAIN q = 1..Len(q)
  BY AppendProperties
<1> HIDE DEF a
<1>2. Els(a) = Els(q) \union {n}
  BY <1>1 DEF Els
<1>3. \A i \in 1..Len(a) : i \in 1..Len(q) \/ i = Len(q) + 1
  BY <1>1
<1>4. \A i \in 1..Len(q) : q[i] \in Els(q)
  BY DEF Els
<1>5. Inc(q) /\ (\A x \in Els(q) : x < n) => Inc(a)
  BY <1>1, <1>3, <1>4 DEF Inc
<1>6. IsInjective(q) /\ n \notin Els(q) => IsInjective(a)
  BY <1>1, <1>3, <1>4 DEF IsInjective
<1> QED BY <1>1, <1>2, <1>5, <1>6 DEF a

LEMMA Taken ==
    ASSUME NEW q \in Seq(Frames), q # <<>>, Inc(q)
    PROVE  /\ Head(q) \in Frames /\ Head(q) \in Els(q) /\ Tail(q) \in Seq(Frames) /\ Inc(Tail(q))
           /\ Els(Tail(q)) = Els(q) \ {Head(q)}
           /\ \A x \in Els(Tail(q)) : Head(q) < x
           /\ \A x \in Els(q) : Head(q) <= x
<1> DEFINE u == Tail(q)
<1>1. /\ u \in Seq(Frames) /\ Len(u) = Len(q) - 1 /\ Len(q) \in Nat /\ Len(q) > 0
      /\ \A i \in 1..Len(u) : u[i] = q[i + 1]
      /\ Head(q) = q[1] /\ Head(q) \in Frames
  BY HeadTailProperties
<1> HIDE DEF u
<1>2. Head(q) \in Nat /\ \A x \in Els(q) : x \in Nat
  <2>1. \A i \in 1..Len(q) : q[i] \in Frames
    OBVIOUS
  <2> QED BY <1>1, <2>1, FrameIsNat DEF Els
<1>3. Head(q) \in Els(q)
  BY <1>1 DEF Els
<1>4. Inc(u)
  BY <1>1 DEF Inc
<1>5. ASSUME NEW x \in Els(u) PROVE x \in Els(q) /\ Head(q) < x
  <2>1. PICK i \in 1..Len(u) : x = u[i]
    BY DEF Els
  <2>2. i + 1 \in 1..Len(q) /\ x = q[i + 1] /\ 1 \in 1..Len(q) /\ 1 < i + 1
    BY <1>1, <2>1
  <2> QED BY <1>1, <2>2 DEF Els, Inc
<1>6. ASSUME NEW x \in Els(q) PROVE x = Head(q) \/ x \in Els(u)
  <2>1. PICK i \in 1..Len(q) : x = q[i]
    BY DEF Els
  <2>2. CASE i = 1
    BY <1>1, <2>1, <2>2
  <2>3. CASE i # 1
    <3>1. i - 1 \in 1..Len(u) /\ u[i - 1] = q[i]
      BY <1>1, <2>3
    <3> QED BY <2>1, <3>1 DEF Els
  <2> QED BY <2>2, <2>3
<1>7. \A x \in Els(u) : x # Head(q)
  BY <1>2, <1>5
<1>8. \A x \in Els(q) : Head(q) <= x
  BY <1>2, <1>5, <1>6
<1> QED BY <1>1, <1>3, <1>4, <1>5, <1>6, <1>7, <1>8 DEF u

LEMMA FreshIs ==
    ASSUME NEW q \in Seq(Frames), Inc(q), NEW r \in Nat
    PROVE  /\ Fresh(q, r) \in Seq(Frames) /\ Inc(Fresh(q, r))
           /\ Els(Fresh(q, r)) = {x \in Els(q) : x > r}
<1> DEFINE newer == {i \in 1..Len(q) : q[i] > r}
           m == Min(newer)
           f == SubSeq(q, m, Len(q))
<1>1. Len(q) \in Nat /\ \A i \in 1..Len(q) : q[i] \in Frames /\ q[i] \in Nat
  <2>1. Len(q) \in Nat /\ \A i \in 1..Len(q) : q[i] \in Frames
    OBVIOUS
  <2> QED BY <2>1, FrameIsNat
<1>2. CASE newer = {}
  <2>1. Fresh(q, r) = <<>>
    BY <1>2 DEF Fresh
  <2>2. {x \in Els(q) : x > r} = {}
    BY <1>2 DEF Els
  <2>3. <<>> \in Seq(Frames) /\ Len(<<>>) = 0
    OBVIOUS
  <2>4. Els(<<>>) = {} /\ Inc(<<>>)
    BY <2>3 DEF Els, Inc
  <2> QED BY <2>1, <2>2, <2>3, <2>4
<1>3. CASE newer # {}
  <2>1. m \in newer /\ \A t \in newer : m <= t
    <3>1. newer \in SUBSET Nat
      OBVIOUS
    <3> HIDE DEF newer
    <3> QED BY <1>3, <3>1, MinOf
  <2>2. m \in 1..Len(q) /\ q[m] > r
    <3> HIDE DEF m
    <3> QED BY <2>1
  <2>3. Fresh(q, r) = f
    BY <1>3 DEF Fresh
  <2> HIDE DEF m
  <2>4. m \in Int /\ Len(q) \in Int /\ \A i \in m..Len(q) : q[i] \in Frames
    BY <1>1, <2>2
  <2>5. /\ f \in Seq(Frames) /\ Len(f) = Len(q) - m + 1
        /\ \A i \in 1..Len(q) - m + 1 : f[i] = q[m + i - 1]
    BY <2>2, <2>4, SubSeqProperties
  <2> HIDE DEF f
  <2>6. Inc(f)
    BY <1>1, <2>2, <2>5 DEF Inc
  <2>7. ASSUME NEW x \in Els(f) PROVE x \in Els(q) /\ x > r
    <3>1. PICK i \in 1..Len(f) : x = f[i]
      BY DEF Els
    <3>2. m + i - 1 \in 1..Len(q) /\ x = q[m + i - 1] /\ m <= m + i - 1
      BY <1>1, <2>2, <2>5, <3>1
    <3>3. q[m] <= q[m + i - 1]
      BY <1>1, <2>2, <3>2 DEF Inc
    <3>4. x > r
      BY <1>1, <2>2, <3>2, <3>3
    <3> QED BY <3>2, <3>4 DEF Els
  <2>8. ASSUME NEW x \in Els(q), x > r PROVE x \in Els(f)
    <3>1. PICK i \in 1..Len(q) : x = q[i]
      BY DEF Els
    <3>2. m <= i
      BY <2>1, <2>8, <3>1
    <3>3. i - m + 1 \in 1..Len(f) /\ f[i - m + 1] = q[i]
      <4>1. i - m + 1 \in 1..Len(q) - m + 1 /\ m + (i - m + 1) - 1 = i
        BY <1>1, <2>2, <3>2
      <4> QED BY <2>5, <4>1
    <3> QED BY <3>1, <3>3 DEF Els
  <2> QED BY <2>3, <2>5, <2>6, <2>7, <2>8
<1> QED BY <1>2, <1>3

-----------------------------------------------------------------------------
(* Types *)

LEMMA PaneTypes ==
    ASSUME IInv, NEW p \in Panes
    PROVE  /\ inbox[p] \in Seq(Frames) /\ pend[p] \in Seq(Frames) /\ screen[p] \in Seq(Frames)
           /\ hist[p] \subseteq Frames /\ listed[p] \subseteq Frames /\ skipped[p] \subseteq Frames
           /\ restored[p] \in Nat /\ restored[p] \in 0..MaxSeq /\ seq \in Nat /\ first[p] \in Nat
           /\ Fence(p) \in Nat /\ phase[p] \in Phases
           /\ Inc(pend[p]) /\ Inc(inbox[p])
<1>1. /\ inbox[p] \in Seq(Frames) /\ pend[p] \in Seq(Frames) /\ screen[p] \in Seq(Frames)
      /\ hist[p] \subseteq Frames /\ listed[p] \subseteq Frames /\ skipped[p] \subseteq Frames
      /\ restored[p] \in 0..MaxSeq /\ seq \in 0..MaxSeq /\ first[p] \in 1..(MaxSeq + 1)
      /\ phase[p] \in Phases
  BY DEF IInv, TypeOK
<1>2. restored[p] \in Nat /\ seq \in Nat /\ first[p] \in Nat
  BY <1>1, OutputBounds
<1>3. Fence(p) \in Nat
  BY <1>2 DEF Fence
<1> QED BY <1>1, <1>2, <1>3 DEF IInv, PaneInv, OrderInv

\* A frame is written on the terminal.
LEMMA WritesType ==
    ASSUME IInv, NEW p \in Panes, NEW n \in Frames, Writes(p, n)
    PROVE  /\ screen' \in [Panes -> Seq(Frames)]
           /\ Els(screen'[p]) = Els(screen[p]) \union {n}
           /\ IsInjective(screen[p]) /\ n \notin Els(screen[p]) => IsInjective(screen'[p])
           /\ \A o \in Panes \ {p} : screen'[o] = screen[o]
<1>1. screen \in [Panes -> Seq(Frames)]
  BY DEF IInv, TypeOK
<1>2. screen[p] \in Seq(Frames)
  BY <1>1
<1>3. /\ Append(screen[p], n) \in Seq(Frames)
      /\ Els(Append(screen[p], n)) = Els(screen[p]) \union {n}
      /\ IsInjective(screen[p]) /\ n \notin Els(screen[p]) => IsInjective(Append(screen[p], n))
  BY <1>2, Appended
<1>4. screen' = [screen EXCEPT ![p] = Append(screen[p], n)]
  BY DEF Writes
<1>5. screen'[p] = Append(screen[p], n)
  BY <1>1, <1>4
<1> QED BY <1>1, <1>3, <1>4, <1>5

\* What Flush does.
LEMMA FlushIs ==
    ASSUME IInv, NEW p \in Panes, NEW q \in Seq(Frames), Inc(q), NEW r \in 0..MaxSeq, Flush(p, q, r)
    PROVE  /\ restored' = [restored EXCEPT ![p] = r] /\ pend' = [pend EXCEPT ![p] = Fresh(q, r)]
           /\ Fresh(q, r) \in Seq(Frames) /\ Inc(Fresh(q, r)) /\ Els(Fresh(q, r)) = {x \in Els(q) : x > r}
           /\ \/ /\ Fresh(q, r) = <<>>
                 /\ phase' = [phase EXCEPT ![p] = "live"] /\ screen' = screen
              \/ /\ Fresh(q, r) # <<>>
                 /\ Head(Fresh(q, r)) \in Frames
                 /\ phase' = [phase EXCEPT ![p] = "pending"] /\ Writes(p, Head(Fresh(q, r)))
<1>1. r \in Nat
  BY OutputBounds
<1>2. Fresh(q, r) \in Seq(Frames) /\ Inc(Fresh(q, r)) /\ Els(Fresh(q, r)) = {x \in Els(q) : x > r}
  BY <1>1, FreshIs
<1>3. Fresh(q, r) # <<>> => Head(Fresh(q, r)) \in Frames
  BY <1>2, Taken
<1> QED BY <1>2, <1>3 DEF Flush

LEMMA FlushTypes ==
    ASSUME IInv, NEW p \in Panes, NEW q \in Seq(Frames), Inc(q), NEW r \in 0..MaxSeq, Flush(p, q, r)
    PROVE  /\ restored' \in [Panes -> 0..MaxSeq] /\ pend' \in [Panes -> Seq(Frames)]
           /\ phase' \in [Panes -> Phases] /\ screen' \in [Panes -> Seq(Frames)]
<1>1. restored' \in [Panes -> 0..MaxSeq] /\ pend' \in [Panes -> Seq(Frames)]
  <2> DEFINE f == Fresh(q, r)
  <2>1. restored' = [restored EXCEPT ![p] = r] /\ pend' = [pend EXCEPT ![p] = f] /\ f \in Seq(Frames)
    BY FlushIs
  <2> HIDE DEF f
  <2> QED BY <2>1 DEF IInv, TypeOK
<1>2. phase' \in [Panes -> Phases]
  <2>1. phase' = [phase EXCEPT ![p] = "live"] \/ phase' = [phase EXCEPT ![p] = "pending"]
    BY FlushIs
  <2> QED BY <2>1 DEF IInv, TypeOK, Phases
<1>3. screen' \in [Panes -> Seq(Frames)]
  <2>1. screen \in [Panes -> Seq(Frames)]
    BY DEF IInv, TypeOK
  <2> QED BY <2>1, FlushIs, WritesType
<1> QED BY <1>1, <1>2, <1>3

LEMMA RestoreTypes ==
    ASSUME IInv, NEW p \in Panes, NEW S \in SUBSET Frames, NEW r \in 0..MaxSeq, Restore(p, S, r)
    PROVE  /\ restored' \in [Panes -> 0..MaxSeq] /\ pend' \in [Panes -> Seq(Frames)]
           /\ phase' \in [Panes -> Phases] /\ screen' \in [Panes -> Seq(Frames)]
           /\ hist' \in [Panes -> SUBSET Frames]
<1>1. hist' \in [Panes -> SUBSET Frames]
  BY DEF IInv, TypeOK, Restore
<1>2. CASE S = {}
  <2>1. Flush(p, pend[p], r)
    BY <1>2 DEF Restore
  <2> QED BY <1>1, <2>1, PaneTypes, FlushTypes
<1>3. CASE S # {}
  <2>1. Min(S) \in Frames
    BY <1>3, MinOf, FrameIsNat
  <2>2. /\ phase' = [phase EXCEPT ![p] = "history"] /\ restored' = [restored EXCEPT ![p] = r]
        /\ Writes(p, Min(S)) /\ pend' = pend
    BY <1>3 DEF Restore
  <2>3. screen' \in [Panes -> Seq(Frames)]
    BY <2>1, <2>2, WritesType
  <2>4. phase' \in [Panes -> Phases] /\ restored' \in [Panes -> 0..MaxSeq] /\ pend' \in [Panes -> Seq(Frames)]
    BY <2>2 DEF IInv, TypeOK, Phases
  <2> QED BY <1>1, <2>3, <2>4
<1> QED BY <1>2, <1>3

LEMMA HandlerTypes ==
    ASSUME IInv, FrameArrives \/ Handle
    PROVE  TypeOK'
<1>1. TypeOK /\ RowsInv
  BY DEF IInv
<1>2. CASE FrameArrives
  <2>1. seq' \in 0..MaxSeq
    BY <1>1, <1>2, OutputBounds DEF FrameArrives, TypeOK
  <2> QED BY <1>1, <1>2, <2>1 DEF FrameArrives, TypeOK, hubVars, paneVars, ghostVars
<1>3. CASE Persist
  <2>1. rows' \subseteq Frames
    BY <1>1, <1>3 DEF Persist, TypeOK, RowsInv
  <2> QED BY <1>1, <1>3, <2>1 DEF Persist, TypeOK, hubVars, paneVars, ghostVars
<1>4. CASE TakeSubscribers
  BY <1>1, <1>4 DEF TakeSubscribers, TypeOK, hubVars, paneVars, ghostVars
<1>5. ASSUME NEW p \in Panes, SendFrame(p) PROVE TypeOK'
  <2>1. \E done \in SUBSET Panes : SentTo(done)
    BY <1>1, <1>5 DEF SendFrame, TypeOK
  <2>2. /\ targets' \subseteq Panes /\ at' \in {"idle", "send"}
        /\ UNCHANGED <<seq, rows, subs, sock, paneVars, listed, first>>
    BY <1>1, <2>1 DEF SentTo, TypeOK
  <2>3. seq \in Frames /\ Append(inbox[p], seq) \in Seq(Frames)
    <3>1. seq \in Frames
      BY <1>1, <1>5 DEF SendFrame, RowsInv
    <3> QED BY <3>1, PaneTypes, Appended
  <2>4. inbox' \in [Panes -> Seq(Frames)]
    BY <1>1, <1>5, <2>3 DEF SendFrame, TypeOK
  <2>5. skipped' \in [Panes -> SUBSET Frames]
    BY <1>1, <1>5, <2>3 DEF SendFrame, TypeOK
  <2> QED BY <1>1, <2>2, <2>4, <2>5 DEF TypeOK, paneVars
<1> QED BY <1>2, <1>3, <1>4, <1>5 DEF Handle

LEMMA SocketTypes ==
    ASSUME IInv, NEW p \in Panes,
           Subscribe(p) \/ SocketBreaks(p) \/ Unsubscribe(p) \/ Mount(p) \/ Unmount(p) \/ ServerLists(p)
    PROVE  TypeOK'
<1>1. TypeOK /\ RowsInv /\ <<>> \in Seq(Frames)
  BY DEF IInv
<1>2. CASE Subscribe(p)
  <2>1. seq + 1 \in 1..(MaxSeq + 1) /\ (at # "idle" => seq \in 1..(MaxSeq + 1))
    BY <1>1, OutputBounds DEF TypeOK, RowsInv, Frames
  <2>2. first' \in [Panes -> 1..(MaxSeq + 1)]
    BY <1>1, <1>2, <2>1 DEF Subscribe, TypeOK
  <2> QED BY <1>1, <1>2, <2>2 DEF Subscribe, TypeOK, handlerVars, paneVars
<1>3. CASE SocketBreaks(p)
  BY <1>1, <1>3 DEF SocketBreaks, TypeOK, handlerVars, paneVars, ghostVars
<1>4. CASE Unsubscribe(p)
  BY <1>1, <1>4 DEF Unsubscribe, TypeOK, handlerVars, paneVars, ghostVars
<1>5. CASE Mount(p)
  BY <1>1, <1>5 DEF Mount, TypeOK, Phases, handlerVars, ghostVars
<1>6. CASE Unmount(p)
  <2>1. 0 \in 0..MaxSeq /\ MaxSeq + 1 \in 1..(MaxSeq + 1)
    BY OutputBounds
  <2> QED BY <1>1, <1>6, <2>1 DEF Unmount, TypeOK, Phases, handlerVars
<1>7. CASE ServerLists(p)
  BY <1>1, <1>7 DEF ServerLists, TypeOK, Phases, handlerVars, hubVars
<1> QED BY <1>2, <1>3, <1>4, <1>5, <1>6, <1>7

\* The chunk that a pane has in hand.
LEMMA ChunkIs ==
    ASSUME IInv, NEW p \in Panes, phase[p] = "history", NEW n, n = Min(hist[p])
    PROVE  /\ n \in hist[p] /\ n \in Frames /\ n \in Nat /\ \A x \in hist[p] : n <= x
           /\ restored[p] < n /\ AfterChunk(restored[p], n) = n
           /\ n \in 0..MaxSeq /\ hist[p] \ {n} \in SUBSET Frames
<1>1. hist[p] # {} /\ restored[p] < n
  BY DEF IInv, PaneInv, ScreenInv
<1>2. hist[p] \subseteq Frames /\ hist[p] \in SUBSET Nat /\ restored[p] \in Nat
  BY PaneTypes, FrameIsNat
<1>3. n \in hist[p] /\ \A x \in hist[p] : n <= x
  BY <1>1, <1>2, MinOf
<1>4. n \in Frames /\ n \in Nat
  BY <1>2, <1>3
<1>5. n \in 0..MaxSeq
  BY <1>4, OutputBounds DEF Frames
<1>6. AfterChunk(restored[p], n) = n
  BY <1>1, <1>2, <1>4 DEF AfterChunk
<1> QED BY <1>1, <1>2, <1>3, <1>4, <1>5, <1>6

\* The pending frame that a pane has in hand.
LEMMA PendingIs ==
    ASSUME IInv, NEW p \in Panes, phase[p] = "pending", NEW n, n = Head(pend[p]),
           NEW u, u = Tail(pend[p])
    PROVE  /\ n \in Els(pend[p]) /\ n \in Els(screen[p])
           /\ n \in Frames /\ n \in Nat /\ n \in 0..MaxSeq
           /\ u \in Seq(Frames) /\ Inc(u) /\ Els(u) = Els(pend[p]) \ {n}
           /\ \A x \in Els(u) : n < x
<1>1. pend[p] # <<>> /\ n \in Els(screen[p])
  BY DEF IInv, PaneInv, ScreenInv
<1>2. pend[p] \in Seq(Frames) /\ Inc(pend[p])
  BY PaneTypes
<1>3. /\ n \in Frames /\ n \in Els(pend[p]) /\ u \in Seq(Frames) /\ Inc(u)
      /\ Els(u) = Els(pend[p]) \ {n} /\ \A x \in Els(u) : n < x
  BY <1>1, <1>2, Taken
<1>4. n \in Nat /\ n \in 0..MaxSeq
  BY <1>3, OutputBounds DEF Frames
<1> QED BY <1>1, <1>3, <1>4

\* The frame that comes next on the socket.
LEMMA NextIs ==
    ASSUME IInv, NEW p \in Panes, inbox[p] # <<>>, NEW n, n = Head(inbox[p]),
           NEW u, u = Tail(inbox[p])
    PROVE  /\ n \in Els(inbox[p]) /\ n \in Frames /\ n \in Nat /\ n \in 0..MaxSeq
           /\ u \in Seq(Frames) /\ Inc(u) /\ Els(u) = Els(inbox[p]) \ {n}
           /\ \A x \in Els(u) : n < x
<1>1. inbox[p] \in Seq(Frames) /\ Inc(inbox[p])
  BY PaneTypes
<1>2. /\ n \in Frames /\ n \in Els(inbox[p]) /\ u \in Seq(Frames) /\ Inc(u)
      /\ Els(u) = Els(inbox[p]) \ {n} /\ \A x \in Els(u) : n < x
  BY <1>1, Taken
<1>3. n \in Nat /\ n \in 0..MaxSeq
  BY <1>2, OutputBounds DEF Frames
<1> QED BY <1>2, <1>3

LEMMA ScriptTypes ==
    ASSUME IInv, NEW p \in Panes, Script(p)
    PROVE  TypeOK'
<1>1. TypeOK
  BY DEF IInv
<1>2. 0 \in 0..MaxSeq /\ {} \in SUBSET Frames
  BY OutputBounds
<1>3. CASE HistoryArrives(p)
  <2>1. Restore(p, hist[p], 0) /\ hist[p] \in SUBSET Frames
    BY <1>3, PaneTypes DEF HistoryArrives
  <2>2. /\ restored' \in [Panes -> 0..MaxSeq] /\ pend' \in [Panes -> Seq(Frames)]
        /\ phase' \in [Panes -> Phases] /\ screen' \in [Panes -> Seq(Frames)]
        /\ hist' \in [Panes -> SUBSET Frames]
    BY <1>2, <2>1, RestoreTypes
  <2> QED BY <1>1, <1>3, <2>2 DEF HistoryArrives, PaneOnly, TypeOK, handlerVars, hubVars, ghostVars
<1>4. CASE HistoryFails(p)
  <2>1. Restore(p, {}, 0)
    BY <1>4 DEF HistoryFails
  <2>2. /\ restored' \in [Panes -> 0..MaxSeq] /\ pend' \in [Panes -> Seq(Frames)]
        /\ phase' \in [Panes -> Phases] /\ screen' \in [Panes -> Seq(Frames)]
        /\ hist' \in [Panes -> SUBSET Frames]
    BY <1>2, <2>1, RestoreTypes
  <2> QED BY <1>1, <1>2, <1>4, <2>2 DEF HistoryFails, TypeOK, handlerVars, hubVars
<1>5. CASE ChunkTaken(p)
  <2> DEFINE n == Min(hist[p])
  <2>1. Restore(p, hist[p] \ {n}, AfterChunk(restored[p], n)) /\ phase[p] = "history"
    BY <1>5 DEF ChunkTaken
  <2>2. n \in 0..MaxSeq /\ hist[p] \ {n} \in SUBSET Frames /\ AfterChunk(restored[p], n) = n
    BY <2>1, ChunkIs
  <2>3. /\ restored' \in [Panes -> 0..MaxSeq] /\ pend' \in [Panes -> Seq(Frames)]
        /\ phase' \in [Panes -> Phases] /\ screen' \in [Panes -> Seq(Frames)]
        /\ hist' \in [Panes -> SUBSET Frames]
    <3> HIDE DEF n
    <3> QED BY <2>1, <2>2, RestoreTypes
  <2> QED BY <1>1, <1>5, <2>3 DEF ChunkTaken, PaneOnly, TypeOK, handlerVars, hubVars, ghostVars
<1>6. CASE FrameTaken(p)
  <2>1. Flush(p, Tail(pend[p]), Head(pend[p])) /\ phase[p] = "pending"
    BY <1>6 DEF FrameTaken
  <2>2. /\ restored' \in [Panes -> 0..MaxSeq] /\ pend' \in [Panes -> Seq(Frames)]
        /\ phase' \in [Panes -> Phases] /\ screen' \in [Panes -> Seq(Frames)]
    BY <2>1, PendingIs, FlushTypes
  <2> QED BY <1>1, <1>6, <2>2 DEF FrameTaken, PaneOnly, TypeOK, handlerVars, hubVars, ghostVars
<1>7. CASE Message(p)
  <2> DEFINE n == Head(inbox[p])
  <2>1. n \in Frames /\ n \in 0..MaxSeq /\ Tail(inbox[p]) \in Seq(Frames)
    BY <1>7, NextIs DEF Message
  <2>2. Append(pend[p], n) \in Seq(Frames)
    BY <2>1, PaneTypes, Appended
  <2>3. inbox' \in [Panes -> Seq(Frames)]
    BY <1>1, <1>7, <2>1 DEF Message, TypeOK
  <2>4. pend' \in [Panes -> Seq(Frames)]
    BY <1>1, <1>7, <2>2 DEF Message, TypeOK
  <2>5. restored' \in [Panes -> 0..MaxSeq]
    BY <1>1, <1>7, <2>1 DEF Message, TypeOK
  <2>6. screen' = screen \/ Writes(p, n)
    BY <1>7 DEF Message
  <2>7. screen' \in [Panes -> Seq(Frames)]
    <3> HIDE DEF n
    <3> QED BY <1>1, <2>1, <2>6, WritesType DEF TypeOK
  <2> QED BY <1>1, <1>7, <2>3, <2>4, <2>5, <2>7 DEF Message, TypeOK, handlerVars, ghostVars
<1> QED BY <1>3, <1>4, <1>5, <1>6, <1>7 DEF Script

-----------------------------------------------------------------------------
(* The rows, and the steps of the handler *)

LEMMA NextRows ==
    ASSUME IInv, [Next]_vars
    PROVE  RowsInv'
<1>1. RowsInv /\ TypeOK /\ seq \in Nat
  BY OutputBounds DEF IInv, TypeOK
<1>2. CASE FrameArrives
  <2>1. /\ seq' = seq + 1 /\ seq' \in Frames /\ rows' = rows /\ targets' = {} /\ at' = "persist"
        /\ \A n \in rows : n \in Nat /\ n <= seq
    BY <1>1, <1>2, OutputBounds, FrameIsNat DEF FrameArrives, RowsInv, TypeOK, Frames
  <2>2. \A n \in rows : n <= seq + 1 /\ n # seq + 1
    BY <1>1, <2>1
  <2> QED BY <2>1, <2>2 DEF RowsInv
<1>3. CASE Persist
  BY <1>1, <1>3 DEF Persist, RowsInv
<1>4. CASE TakeSubscribers
  BY <1>1, <1>4 DEF TakeSubscribers, RowsInv
<1>5. ASSUME NEW p \in Panes, SendFrame(p) PROVE RowsInv'
  BY <1>1, <1>5 DEF SendFrame, SentTo, RowsInv
<1>6. ASSUME UNCHANGED <<handlerVars, rows>> PROVE RowsInv'
  BY <1>1, <1>6 DEF RowsInv, handlerVars
<1>7. ASSUME NEW p \in Panes,
             \/ Mount(p) \/ Unmount(p) \/ Script(p) \/ ServerLists(p)
             \/ Subscribe(p) \/ SocketBreaks(p) \/ Unsubscribe(p)
      PROVE  UNCHANGED <<handlerVars, rows>>
  BY <1>7 DEF Mount, Unmount, Script, ServerLists, Subscribe, SocketBreaks, Unsubscribe,
     HistoryArrives, HistoryFails, ChunkTaken, FrameTaken, Message, PaneOnly
<1>8. CASE UNCHANGED vars
  BY <1>6, <1>8 DEF vars
<1> QED BY <1>2, <1>3, <1>4, <1>5, <1>6, <1>7, <1>8 DEF Next, Handle

\* A step leaves pane p as it is.
Same(p) ==
    /\ inbox'[p] = inbox[p] /\ pend'[p] = pend[p] /\ screen'[p] = screen[p] /\ hist'[p] = hist[p]
    /\ listed'[p] = listed[p] /\ restored'[p] = restored[p] /\ phase'[p] = phase[p]

LEMMA SameKeeps ==
    ASSUME IInv, NEW p \in Panes, Same(p), rows' = rows,
           NEW d, d = Fence(p)', d \in Nat, Fence(p) <= d
    PROVE  OrderInv(p)' /\ ScreenInv(p)' /\ ListInv(p)'
<1>1. /\ OrderInv(p) /\ ScreenInv(p) /\ ListInv(p)
      /\ Fence(p) \in Nat /\ restored[p] \in Nat
      /\ \A x \in Els(inbox[p]) : x \in Nat
      /\ \A x \in Els(pend[p]) : x \in Nat
      /\ \A x \in Els(screen[p]) : x \in Nat
  <2>1. /\ \A i \in 1..Len(inbox[p]) : inbox[p][i] \in Frames
        /\ \A i \in 1..Len(pend[p]) : pend[p][i] \in Frames
        /\ \A i \in 1..Len(screen[p]) : screen[p][i] \in Frames
    BY PaneTypes
  <2> QED BY <2>1, PaneTypes, FrameIsNat DEF IInv, PaneInv, Els
<1>2. \A x \in Nat : x < Fence(p) => x < d
  BY <1>1
<1>3. OrderInv(p)'
  BY <1>1, <1>2 DEF OrderInv, Same, Restoring
<1>4. \A x \in Els(screen[p]) : Came(p, x) => Came(p, x)'
  BY <1>1, <1>2 DEF Came, Same
<1>5. ScreenInv(p)'
  BY <1>1, <1>4 DEF ScreenInv, Same
<1>6. ListInv(p)'
  BY <1>1, <1>2 DEF ListInv, Same
<1> QED BY <1>3, <1>5, <1>6

LEMMA ArrivesKeeps ==
    ASSUME IInv, NEW p \in Panes, FrameArrives
    PROVE  PaneInv(p)'
<1>1. seq \in Nat /\ Fence(p) \in Nat /\ targets = {} /\ seq' = seq + 1 /\ at' = "persist" /\ at = "idle"
  BY PaneTypes DEF FrameArrives, IInv, RowsInv
<1>2. Fence(p)' = Fence(p)
  BY <1>1 DEF Fence
<1>3. Same(p) /\ rows' = rows
  BY DEF FrameArrives, Same, hubVars, paneVars, ghostVars
<1>4. OrderInv(p)' /\ ScreenInv(p)' /\ ListInv(p)'
  BY <1>1, <1>2, <1>3, SameKeeps
<1>5. HubInv(p)'
  BY DEF FrameArrives, IInv, PaneInv, HubInv, Mounted, hubVars, paneVars
<1>6. SentInv(p)'
  BY <1>2, <1>3 DEF FrameArrives, IInv, PaneInv, SentInv, hubVars, paneVars, ghostVars
<1> QED BY <1>4, <1>5, <1>6 DEF PaneInv

LEMMA PersistKeeps ==
    ASSUME IInv, NEW p \in Panes, Persist
    PROVE  PaneInv(p)'
<1>1. /\ seq \in Nat /\ Fence(p) = seq /\ seq' = seq /\ at = "persist" /\ at' = "broadcast"
      /\ seq \notin rows /\ \A n \in rows : n <= seq /\ n \in Nat
  BY PaneTypes, FrameIsNat DEF Persist, IInv, RowsInv, Fence, TypeOK
<1>2. Fence(p)' = seq
  BY <1>1 DEF Fence
<1>3. Same(p) /\ (rows' = rows \/ rows' = rows \union {seq})
  BY DEF Persist, Same, hubVars, paneVars, ghostVars
<1>4. OrderInv(p) /\ ScreenInv(p) /\ ListInv(p) /\ HubInv(p) /\ SentInv(p)
  BY DEF IInv, PaneInv
<1>5. OrderInv(p)' /\ ScreenInv(p)'
  BY <1>1, <1>2, <1>3, <1>4 DEF OrderInv, ScreenInv, Came, Same, Restoring
<1>6. ListInv(p)'
  <2>1. listed'[p] \subseteq rows'
    BY <1>3, <1>4 DEF ListInv, Same
  <2>2. \A m \in listed'[p], n \in rows' : n <= m => n \in listed'[p]
    <3>1. \A m \in listed[p] : m \in Nat /\ m <= seq /\ m # seq
      BY <1>1, <1>4 DEF ListInv
    <3>2. \A m \in listed[p] : ~(seq <= m)
      BY <1>1, <3>1
    <3> QED BY <1>3, <1>4, <3>2 DEF ListInv, Same
  <2> QED BY <1>1, <1>2, <1>3, <1>4, <2>1, <2>2 DEF ListInv, Same
<1>7. HubInv(p)'
  BY <1>4 DEF Persist, HubInv, Mounted, hubVars, paneVars
<1>8. SentInv(p)'
  <2>1. \A n \in rows' : n < seq => n \in rows
    BY <1>1, <1>3
  <2>2. sock' = sock /\ first' = first /\ skipped' = skipped
    BY DEF Persist, hubVars, ghostVars
  <2> QED BY <1>1, <1>2, <1>3, <1>4, <2>1, <2>2 DEF SentInv, Same
<1> QED BY <1>5, <1>6, <1>7, <1>8 DEF PaneInv

LEMMA TakeKeeps ==
    ASSUME IInv, NEW p \in Panes, TakeSubscribers
    PROVE  PaneInv(p)'
<1>1. /\ seq \in Nat /\ Fence(p) = seq /\ seq' = seq /\ at = "broadcast" /\ at' \in {"idle", "send"}
      /\ targets' = subs
  BY PaneTypes DEF TakeSubscribers, Fence
<1>2. Fence(p)' = (IF p \in subs THEN seq ELSE seq + 1)
  BY <1>1 DEF Fence
<1>3. Same(p) /\ rows' = rows /\ sock' = sock /\ first' = first /\ skipped' = skipped /\ subs' = subs
  BY DEF TakeSubscribers, Same, hubVars, paneVars, ghostVars
<1>4. Fence(p)' \in Nat /\ Fence(p) <= Fence(p)'
  BY <1>1, <1>2
<1>5. OrderInv(p)' /\ ScreenInv(p)' /\ ListInv(p)'
  BY <1>3, <1>4, SameKeeps
<1>6. HubInv(p) /\ SentInv(p)
  BY DEF IInv, PaneInv
<1>7. HubInv(p)'
  BY <1>1, <1>3, <1>6 DEF HubInv, Mounted, Same
<1>8. SentInv(p)'
  <2>1. sock[p] = "open" => Fence(p)' = Fence(p)
    BY <1>1, <1>2, <1>6 DEF HubInv
  <2> QED BY <1>3, <1>6, <2>1 DEF SentInv, Same
<1> QED BY <1>5, <1>7, <1>8 DEF PaneInv

\* A send to another pane, or to a broken socket.
LEMMA SendOthersKeeps ==
    ASSUME IInv, NEW p \in Panes, NEW o \in Panes, SendFrame(p), inbox'[o] = inbox[o],
           o \in targets /\ o \notin targets' /\ sock[o] = "open" => seq \in skipped'[o]
    PROVE  PaneInv(o)'
<1>1. /\ seq \in Nat /\ seq' = seq /\ at = "send" /\ at' \in {"idle", "send"} /\ targets' \subseteq targets
      /\ UNCHANGED <<rows, subs, sock, paneVars, listed, first>>
  BY PaneTypes DEF SendFrame, SentTo
<1>2. /\ Fence(o) = (IF o \in targets THEN seq ELSE seq + 1)
      /\ Fence(o)' = (IF o \in targets' THEN seq ELSE seq + 1)
  BY <1>1 DEF Fence
<1>3. Fence(o)' \in Nat /\ Fence(o) <= Fence(o)'
  BY <1>1, <1>2
<1>4. Same(o) /\ rows' = rows
  BY <1>1 DEF Same, paneVars
<1>5. OrderInv(o)' /\ ScreenInv(o)' /\ ListInv(o)'
  BY <1>3, <1>4, SameKeeps
<1>6. HubInv(o) /\ SentInv(o)
  BY DEF IInv, PaneInv
<1>7. HubInv(o)'
  BY <1>1, <1>4, <1>6 DEF HubInv, Mounted, Same
<1>8. SentInv(o)'
  <2>1. skipped[o] \subseteq skipped'[o]
    BY DEF SendFrame, IInv, TypeOK
  <2> SUFFICES ASSUME sock[o] = "open", NEW n \in rows, first[o] <= n, n < Fence(o)'
               PROVE  n \in Els(inbox[o]) \union Els(pend[o]) \union Els(screen[o]) \union skipped'[o]
    BY <1>1, <1>4 DEF SentInv, Same
  <2>2. n \in Nat
    BY FrameIsNat DEF IInv, TypeOK
  <2>3. CASE n < Fence(o)
    BY <1>6, <2>1, <2>3 DEF SentInv
  <2>4. CASE ~(n < Fence(o))
    <3>1. o \in targets /\ o \notin targets' /\ n = seq
      BY <1>1, <1>2, <2>2, <2>4
    <3> QED BY <3>1
  <2> QED BY <2>3, <2>4
<1> QED BY <1>5, <1>7, <1>8 DEF PaneInv

\* A send to an open socket.
LEMMA SendOpenKeeps ==
    ASSUME IInv, NEW p \in Panes, SendFrame(p), sock[p] = "open"
    PROVE  PaneInv(p)'
<1>1. /\ seq \in Nat /\ seq' = seq /\ at = "send" /\ at' \in {"idle", "send"}
      /\ p \in targets /\ targets' = targets \ {p} /\ seq \in Frames
      /\ UNCHANGED <<rows, subs, sock, paneVars, listed, first, skipped>>
      /\ inbox'[p] = Append(inbox[p], seq)
  BY PaneTypes DEF SendFrame, SentTo, IInv, RowsInv, TypeOK
<1>2. Fence(p) = seq /\ Fence(p)' = seq + 1
  BY <1>1 DEF Fence
<1>3. /\ OrderInv(p) /\ ScreenInv(p) /\ ListInv(p) /\ HubInv(p) /\ SentInv(p)
      /\ inbox[p] \in Seq(Frames) /\ rows \subseteq Nat
  BY PaneTypes, FrameIsNat DEF IInv, PaneInv, TypeOK
<1>4. Inc(inbox'[p]) /\ Els(inbox'[p]) = Els(inbox[p]) \union {seq}
  <2>1. \A x \in Els(inbox[p]) : x < seq
    BY <1>2, <1>3 DEF OrderInv
  <2> QED BY <1>1, <1>3, <2>1, Appended DEF OrderInv
<1>5. \A q \in Seq(Frames) : \A x \in Els(q) : x \in Nat
  <2>1. \A q \in Seq(Frames) : \A i \in 1..Len(q) : q[i] \in Frames
    OBVIOUS
  <2> QED BY <2>1, FrameIsNat DEF Els
<1>6. /\ \A x \in Els(inbox[p]) \union Els(pend[p]) \union Els(screen[p]) : x \in Nat
      /\ restored[p] \in Nat
  BY <1>5, PaneTypes
<1>7. /\ pend' = pend /\ screen' = screen /\ phase' = phase /\ hist' = hist /\ listed' = listed
      /\ restored' = restored /\ rows' = rows /\ sock' = sock /\ subs' = subs /\ first' = first
  BY <1>1 DEF paneVars
<1>8. \A x \in Nat : x < seq => x < seq + 1
  BY <1>1
<1>9. OrderInv(p)'
  BY <1>1, <1>2, <1>3, <1>4, <1>6, <1>7, <1>8 DEF OrderInv, Restoring
<1>10. \A x \in Els(screen[p]) : Came(p, x) => Came(p, x)'
  BY <1>2, <1>4, <1>6, <1>7, <1>8 DEF Came
<1>11. ScreenInv(p)'
  BY <1>3, <1>7, <1>10 DEF ScreenInv
<1>12. ListInv(p)'
  BY <1>2, <1>3, <1>4, <1>6, <1>7, <1>8 DEF ListInv
<1>13. HubInv(p)'
  BY <1>1, <1>3, <1>7 DEF HubInv, Mounted
<1>14. SentInv(p)'
  <2>1. \A n \in rows : n < seq + 1 => n < seq \/ n = seq
    BY <1>1, <1>3
  <2> QED BY <1>1, <1>2, <1>3, <1>4, <1>7, <2>1 DEF SentInv
<1> QED BY <1>9, <1>11, <1>12, <1>13, <1>14 DEF PaneInv

LEMMA SendKeeps ==
    ASSUME IInv, NEW p \in Panes, NEW o \in Panes, SendFrame(p)
    PROVE  PaneInv(o)'
<1>1. CASE o = p /\ sock[p] = "open"
  BY <1>1, SendOpenKeeps
<1>2. CASE ~(o = p /\ sock[p] = "open")
  <2>1. inbox'[o] = inbox[o]
    BY <1>2 DEF SendFrame, IInv, TypeOK
  <2>2. o \in targets /\ o \notin targets' /\ sock[o] = "open" => seq \in skipped'[o]
    BY <1>2 DEF SendFrame, SentTo, IInv, TypeOK
  <2> QED BY <2>1, <2>2, SendOthersKeeps
<1> QED BY <1>1, <1>2

-----------------------------------------------------------------------------
(* The steps of a pane *)

\* The steps that concern pane p alone.
Own(p) == \/ Mount(p) \/ Unmount(p) \/ Script(p) \/ ServerLists(p)
          \/ Subscribe(p) \/ SocketBreaks(p) \/ Unsubscribe(p)

LEMMA OthersSame ==
    ASSUME IInv, NEW p \in Panes, NEW o \in Panes, o # p, Own(p)
    PROVE  /\ Same(o) /\ UNCHANGED <<handlerVars, rows>>
           /\ sock'[o] = sock[o] /\ first'[o] = first[o] /\ skipped'[o] = skipped[o]
           /\ o \in subs' <=> o \in subs
<1>1. TypeOK
  BY DEF IInv
<1>2. CASE Mount(p)
  BY <1>1, <1>2 DEF Mount, Same, TypeOK, ghostVars
<1>3. CASE Unmount(p)
  BY <1>1, <1>3 DEF Unmount, Same, TypeOK
<1>4. CASE ServerLists(p)
  BY <1>1, <1>4 DEF ServerLists, Same, TypeOK, hubVars
<1>5. CASE Subscribe(p)
  BY <1>1, <1>5 DEF Subscribe, Same, TypeOK, paneVars
<1>6. CASE SocketBreaks(p)
  BY <1>1, <1>6 DEF SocketBreaks, Same, TypeOK, paneVars, ghostVars
<1>7. CASE Unsubscribe(p)
  BY <1>1, <1>7 DEF Unsubscribe, Same, TypeOK, paneVars, ghostVars
<1>8. ASSUME NEW q, NEW r, Flush(p, q, r)
      PROVE  /\ pend'[o] = pend[o] /\ screen'[o] = screen[o]
             /\ restored'[o] = restored[o] /\ phase'[o] = phase[o]
  BY <1>1, <1>8 DEF Flush, Writes, TypeOK
<1>9. ASSUME NEW S, NEW r, Restore(p, S, r)
      PROVE  /\ pend'[o] = pend[o] /\ screen'[o] = screen[o] /\ hist'[o] = hist[o]
             /\ restored'[o] = restored[o] /\ phase'[o] = phase[o]
  <2>1. hist'[o] = hist[o]
    BY <1>1, <1>9 DEF Restore, TypeOK
  <2>2. CASE S = {}
    BY <1>8, <1>9, <2>1, <2>2 DEF Restore
  <2>3. CASE S # {}
    BY <1>1, <1>9, <2>1, <2>3 DEF Restore, Writes, TypeOK
  <2> QED BY <2>2, <2>3
<1>10. CASE HistoryArrives(p)
  BY <1>9, <1>10 DEF HistoryArrives, PaneOnly, Same, hubVars, ghostVars
<1>11. CASE HistoryFails(p)
  <2>1. listed'[o] = listed[o]
    BY <1>1, <1>11 DEF HistoryFails, TypeOK
  <2> QED BY <1>9, <1>11, <2>1 DEF HistoryFails, Same, hubVars
<1>12. CASE ChunkTaken(p)
  BY <1>9, <1>12 DEF ChunkTaken, PaneOnly, Same, hubVars, ghostVars
<1>13. CASE FrameTaken(p)
  BY <1>8, <1>13 DEF FrameTaken, PaneOnly, Same, hubVars, ghostVars
<1>14. CASE Message(p)
  BY <1>1, <1>14 DEF Message, Writes, Same, TypeOK, ghostVars
<1> QED BY <1>2, <1>3, <1>4, <1>5, <1>6, <1>7, <1>10, <1>11, <1>12, <1>13, <1>14 DEF Own, Script

LEMMA OthersKeep ==
    ASSUME IInv, NEW p \in Panes, NEW o \in Panes, o # p, Own(p)
    PROVE  PaneInv(o)'
<1>1. /\ Same(o) /\ UNCHANGED <<handlerVars, rows>>
      /\ sock'[o] = sock[o] /\ first'[o] = first[o] /\ skipped'[o] = skipped[o]
      /\ o \in subs' <=> o \in subs
  BY OthersSame
<1>2. Fence(o)' = Fence(o) /\ Fence(o) \in Nat /\ Fence(o) <= Fence(o)
  BY <1>1, PaneTypes DEF Fence, handlerVars
<1>3. OrderInv(o)' /\ ScreenInv(o)' /\ ListInv(o)'
  BY <1>1, <1>2, SameKeeps
<1>4. HubInv(o)'
  BY <1>1 DEF IInv, PaneInv, HubInv, Mounted, Same, handlerVars
<1>5. SentInv(o)'
  BY <1>1, <1>2 DEF IInv, PaneInv, SentInv, Same
<1> QED BY <1>3, <1>4, <1>5 DEF PaneInv

LEMMA PaneParts ==
    ASSUME IInv, NEW p \in Panes
    PROVE  HubInv(p) /\ OrderInv(p) /\ ScreenInv(p) /\ ListInv(p) /\ SentInv(p)
BY DEF IInv, PaneInv

LEMMA Numbers ==
    ASSUME IInv, NEW p \in Panes
    PROVE  /\ \A x \in Els(inbox[p]) : x \in Nat /\ x > 0
           /\ \A x \in Els(pend[p]) : x \in Nat /\ x > 0
           /\ \A x \in Els(screen[p]) : x \in Nat /\ x > 0
           /\ \A x \in rows \union listed[p] \union hist[p] : x \in Nat /\ x > 0
<1>1. \A n \in Frames : n \in Nat /\ n > 0
  BY OutputBounds DEF Frames
<1>2. /\ \A i \in 1..Len(inbox[p]) : inbox[p][i] \in Frames
      /\ \A i \in 1..Len(pend[p]) : pend[p][i] \in Frames
      /\ \A i \in 1..Len(screen[p]) : screen[p][i] \in Frames
  BY PaneTypes
<1>3. rows \union listed[p] \union hist[p] \subseteq Frames
  BY PaneTypes DEF IInv, TypeOK
<1> QED BY <1>1, <1>2, <1>3 DEF Els

LEMMA NoElements == Els(<<>>) = {} /\ Inc(<<>>) /\ IsInjective(<<>>)
<1>1. Len(<<>>) = 0 /\ DOMAIN <<>> = {}
  OBVIOUS
<1> QED BY <1>1 DEF Els, Inc, IsInjective

LEMMA SocketKeeps ==
    ASSUME IInv, NEW p \in Panes, Subscribe(p) \/ SocketBreaks(p) \/ Unsubscribe(p)
    PROVE  PaneInv(p)'
<1>1. TypeOK /\ Fence(p) \in Nat /\ seq \in Nat
  BY PaneTypes DEF IInv
<1>2. UNCHANGED <<handlerVars, rows, paneVars, listed, skipped>> /\ Fence(p)' = Fence(p)
  BY DEF Subscribe, SocketBreaks, Unsubscribe, ghostVars, Fence, handlerVars
<1>3. inbox'[p] = inbox[p] => OrderInv(p)' /\ ScreenInv(p)' /\ ListInv(p)'
  <2>1. inbox'[p] = inbox[p] => Same(p)
    BY <1>2 DEF Same, paneVars
  <2> QED BY <1>1, <1>2, <2>1, SameKeeps
<1>4. CASE Subscribe(p)
  <2>1. /\ sock[p] = "connecting" /\ Mounted(p) /\ sock'[p] = "open" /\ subs' = subs \union {p}
        /\ inbox' = inbox /\ inbox[p] = <<>> /\ p \notin targets
        /\ first'[p] = (IF at \in {"persist", "broadcast"} THEN seq ELSE seq + 1)
    BY <1>1, <1>4, PaneParts DEF Subscribe, TypeOK, HubInv
  <2>2. HubInv(p)'
    BY <1>2, <2>1, PaneParts DEF HubInv, Mounted, paneVars, handlerVars
  <2>3. first'[p] = Fence(p)
    BY <2>1 DEF Fence
  <2>4. SentInv(p)'
    <3>1. \A n \in rows : ~(Fence(p) <= n /\ n < Fence(p))
      BY <1>1, Numbers
    <3> QED BY <1>2, <2>3, <3>1 DEF SentInv
  <2> QED BY <1>3, <2>1, <2>2, <2>4 DEF PaneInv
<1>5. CASE SocketBreaks(p)
  <2>1. sock'[p] = "broken" /\ inbox'[p] = <<>> /\ subs' = subs /\ sock[p] # "none"
    BY <1>1, <1>5 DEF SocketBreaks, TypeOK
  <2>2. HubInv(p)'
    BY <1>2, <2>1, PaneParts DEF HubInv, Mounted, paneVars, handlerVars
  <2>3. SentInv(p)'
    BY <2>1 DEF SentInv
  <2>4. OrderInv(p)'
    BY <1>2, <2>1, PaneParts, NoElements DEF OrderInv, Restoring, paneVars
  <2>5. ScreenInv(p)'
    BY <1>2, <2>1, PaneParts, NoElements DEF ScreenInv, Came, paneVars
  <2>6. ListInv(p)'
    BY <1>2, <2>1, PaneParts, NoElements DEF ListInv, paneVars
  <2> QED BY <2>2, <2>3, <2>4, <2>5, <2>6 DEF PaneInv
<1>6. CASE Unsubscribe(p)
  <2>1. sock' = sock /\ sock[p] = "broken" /\ inbox' = inbox /\ subs' = subs \ {p} /\ first' = first
    BY <1>6 DEF Unsubscribe, ghostVars
  <2>2. HubInv(p)'
    BY <1>2, <2>1, PaneParts DEF HubInv, Mounted, paneVars, handlerVars
  <2>3. SentInv(p)'
    BY <2>1 DEF SentInv
  <2> QED BY <1>3, <2>1, <2>2, <2>3 DEF PaneInv
<1> QED BY <1>4, <1>5, <1>6

LEMMA MountKeeps ==
    ASSUME IInv, NEW p \in Panes, Mount(p) \/ Unmount(p) \/ ServerLists(p)
    PROVE  PaneInv(p)'
<1>1. TypeOK /\ Fence(p) \in Nat
  BY PaneTypes DEF IInv
<1>2. UNCHANGED <<handlerVars, rows, subs>> /\ Fence(p)' = Fence(p)
  BY DEF Mount, Unmount, ServerLists, hubVars, Fence, handlerVars
<1>3. CASE Mount(p)
  <2>1. /\ phase[p] = "off" /\ phase'[p] = "fetch" /\ sock[p] = "none" /\ sock'[p] = "connecting"
        /\ UNCHANGED <<inbox, hist, pend, restored, screen, listed>>
    BY <1>1, <1>3, PaneParts DEF Mount, TypeOK, HubInv, ghostVars
  <2>2. HubInv(p)'
    BY <1>2, <2>1, PaneParts DEF HubInv, Mounted, handlerVars
  <2>3. SentInv(p)'
    BY <2>1 DEF SentInv
  <2>4. OrderInv(p)'
    BY <1>2, <2>1, PaneParts DEF OrderInv, Restoring
  <2>5. ScreenInv(p)'
    BY <1>2, <2>1, PaneParts DEF ScreenInv
  <2>6. ListInv(p)'
    BY <1>2, <2>1, PaneParts DEF ListInv
  <2> QED BY <2>2, <2>3, <2>4, <2>5, <2>6 DEF PaneInv
<1>4. CASE Unmount(p)
  <2>1. /\ phase'[p] = "closed" /\ sock'[p] = "broken" /\ inbox'[p] = <<>> /\ hist'[p] = {}
        /\ pend'[p] = <<>> /\ restored'[p] = 0 /\ screen'[p] = <<>> /\ listed'[p] = {}
        /\ Mounted(p)
    BY <1>1, <1>4 DEF Unmount, TypeOK
  <2>2. HubInv(p)'
    BY <1>2, <2>1, PaneParts DEF HubInv, Mounted, handlerVars
  <2>3. SentInv(p)'
    BY <2>1 DEF SentInv
  <2>4. OrderInv(p)'
    BY <2>1, NoElements DEF OrderInv
  <2>5. ScreenInv(p)'
    BY <2>1, NoElements DEF ScreenInv
  <2>6. ListInv(p)'
    BY <2>1, NoElements DEF ListInv
  <2> QED BY <2>2, <2>3, <2>4, <2>5, <2>6 DEF PaneInv
<1>5. CASE ServerLists(p)
  <2>1. /\ phase[p] = "fetch" /\ phase'[p] = "answered" /\ hist'[p] = rows /\ listed'[p] = rows
        /\ UNCHANGED <<hubVars, pend, restored, screen, first, skipped>>
    BY <1>1, <1>5 DEF ServerLists, TypeOK
  <2>2. HubInv(p)'
    BY <1>2, <2>1, PaneParts DEF HubInv, Mounted, handlerVars, hubVars
  <2>3. SentInv(p)'
    BY <1>2, <2>1, PaneParts DEF SentInv, hubVars
  <2>4. OrderInv(p)'
    BY <1>2, <2>1, PaneParts DEF OrderInv, Restoring, hubVars
  <2>5. ScreenInv(p)'
    BY <2>1, PaneParts DEF ScreenInv
  <2>6. ListInv(p)'
    <3>1. restored'[p] = 0
      BY <2>1, PaneParts DEF ScreenInv
    <3> QED BY <1>2, <2>1, <3>1 DEF ListInv
  <2> QED BY <2>2, <2>3, <2>4, <2>5, <2>6 DEF PaneInv
<1> QED BY <1>3, <1>4, <1>5

\* The history goes on with the chunks S after r, and after the last one with the
\* pending frames.
LEMMA RestoreKeeps ==
    ASSUME IInv, NEW p \in Panes, NEW S \in SUBSET Frames, NEW r \in 0..MaxSeq, Restore(p, S, r),
           Restoring(p), UNCHANGED <<handlerVars, rows, hubVars, first, skipped>>,
           NEW L, L = listed'[p], L \subseteq rows, \A m \in L, n \in rows : n <= m => n \in L,
           S \subseteq L, L \subseteq Els(screen[p]) \union S, r = 0 \/ r \in L,
           \A x \in S : r < x, \A x \in Els(screen[p]) : x <= r
    PROVE  PaneInv(p)'
<1>1. /\ TypeOK /\ Fence(p) \in Nat /\ Fence(p)' = Fence(p) /\ r \in Nat /\ inbox'[p] = inbox[p]
      /\ sock'[p] = sock[p] /\ first'[p] = first[p] /\ skipped'[p] = skipped[p] /\ rows' = rows
      /\ restored \in [Panes -> 0..MaxSeq] /\ phase \in [Panes -> Phases]
      /\ pend \in [Panes -> Seq(Frames)] /\ hist \in [Panes -> SUBSET Frames]
  BY PaneTypes, OutputBounds DEF IInv, TypeOK, handlerVars, hubVars, Fence
<1>2. pend[p] \in Seq(Frames) /\ Inc(pend[p]) /\ IsInjective(screen[p])
  BY PaneTypes, PaneParts DEF ScreenInv
<1>3. hist'[p] = S
  BY <1>1 DEF Restore
<1>4. CASE S = {}
  <2> DEFINE f == Fresh(pend[p], r)
             h == Head(f)
  <2>1. Flush(p, pend[p], r)
    BY <1>4 DEF Restore
  <2>2. /\ restored' = [restored EXCEPT ![p] = r] /\ pend' = [pend EXCEPT ![p] = f]
        /\ f \in Seq(Frames) /\ Inc(f) /\ Els(f) = {x \in Els(pend[p]) : x > r}
        /\ \/ f = <<>> /\ phase' = [phase EXCEPT ![p] = "live"] /\ screen' = screen
           \/ /\ f # <<>> /\ h \in Frames
              /\ phase' = [phase EXCEPT ![p] = "pending"] /\ Writes(p, h)
    BY <1>2, <2>1, FlushIs
  <2>3. f # <<>> => h \in Els(f)
    <3> HIDE DEF f
    <3> QED BY <2>2, Taken
  <2> HIDE DEF f, h
  <2>4. /\ restored'[p] = r /\ pend'[p] = f
        /\ phase'[p] = "live" \/ phase'[p] = "pending"
    BY <1>1, <2>2
  <2>5. \A x \in Els(screen[p]) : x \in Nat
    BY Numbers
  <2>8. Els(screen[p]) \subseteq Els(screen'[p]) => HubInv(p)' /\ ListInv(p)' /\ SentInv(p)'
    <3> SUFFICES ASSUME Els(screen[p]) \subseteq Els(screen'[p])
                 PROVE  HubInv(p)' /\ ListInv(p)' /\ SentInv(p)'
      OBVIOUS
    <3>1. HubInv(p)'
      BY <1>1, <2>4, PaneParts DEF HubInv, Mounted, Restoring, handlerVars, hubVars
    <3>2. ListInv(p)'
      BY <1>1, <1>4, <2>4 DEF ListInv
    <3>3. SentInv(p)'
      <4>1. \A n \in rows : n \in Els(pend[p]) => n \in Els(f) \/ n \in Els(screen[p])
        <5> SUFFICES ASSUME NEW n \in rows, n \in Els(pend[p]), n \notin Els(f) PROVE n \in L
          BY <1>4
        <5>1. n \in Nat /\ n > 0 /\ n <= r
          BY <1>1, <2>2, Numbers
        <5> QED BY <1>1, <5>1
      <4> QED BY <1>1, <2>4, <4>1, PaneParts DEF SentInv
    <3> QED BY <3>1, <3>2, <3>3
  <2>6. CASE phase'[p] = "live"
    <3>1. screen' = screen /\ f = <<>>
      BY <1>1, <2>2, <2>6
    <3>2. OrderInv(p)'
      BY <1>1, <2>4, <3>1, PaneParts, NoElements DEF OrderInv
    <3>3. ScreenInv(p)'
      BY <1>2, <2>4, <2>6, <3>1 DEF ScreenInv
    <3> QED BY <2>8, <3>1, <3>2, <3>3 DEF PaneInv
  <2>7. CASE phase'[p] = "pending"
    <3>1. f # <<>> /\ h \in Frames /\ Writes(p, h) /\ h \in Els(f) /\ h > r /\ h \in Nat
      BY <1>1, <2>2, <2>3, <2>7, FrameIsNat
    <3>2. h \notin Els(screen[p])
      BY <1>1, <2>5, <3>1
    <3>3. Els(screen'[p]) = Els(screen[p]) \union {h} /\ IsInjective(screen'[p])
      BY <1>2, <3>1, <3>2, WritesType
    <3>4. OrderInv(p)'
      <4>1. Inc(f) /\ \A x \in Els(f) : x \in Els(pend[p])
        BY <2>2
      <4>2. /\ Inc(inbox[p]) /\ \A x \in Els(pend[p]) : x < Fence(p)
            /\ \A x \in Els(inbox[p]) : x < Fence(p) /\ \A y \in Els(pend[p]) : y < x
        BY PaneParts DEF OrderInv
      <4> QED BY <1>1, <2>4, <2>7, <4>1, <4>2, Zenon DEF OrderInv
    <3>5. ScreenInv(p)'
      <4>1. \A x \in Els(screen[p]) : x <= h
        BY <1>1, <2>5, <3>1
      <4> QED BY <2>4, <2>7, <3>1, <3>3, <4>1 DEF ScreenInv, h
    <3> QED BY <2>8, <3>3, <3>4, <3>5 DEF PaneInv
  <2> QED BY <2>4, <2>6, <2>7
<1>5. CASE S # {}
  <2> DEFINE m == Min(S)
  <2>1. /\ phase' = [phase EXCEPT ![p] = "history"] /\ restored' = [restored EXCEPT ![p] = r]
        /\ Writes(p, m) /\ pend' = pend
    BY <1>5 DEF Restore
  <2>2. m \in S /\ m \in Frames /\ m \in Nat /\ r < m
    BY <1>5, MinOf, FrameIsNat
  <2> HIDE DEF m
  <2>3. phase'[p] = "history" /\ restored'[p] = r /\ pend'[p] = pend[p]
    BY <1>1, <2>1
  <2>4. m \notin Els(screen[p])
    BY <1>1, <2>2, Numbers
  <2>5. Els(screen'[p]) = Els(screen[p]) \union {m} /\ IsInjective(screen'[p])
    BY <1>2, <2>1, <2>2, <2>4, WritesType
  <2>6. OrderInv(p)'
    BY <1>1, <2>3, PaneParts DEF OrderInv, Restoring
  <2>7. ScreenInv(p)'
    BY <1>3, <1>5, <2>2, <2>3, <2>5 DEF ScreenInv, m
  <2>8. ListInv(p)'
    BY <1>1, <1>3, <2>3, <2>5 DEF ListInv
  <2>9. SentInv(p)'
    BY <1>1, <2>3, <2>5, PaneParts DEF SentInv
  <2>10. HubInv(p)'
    BY <1>1, <2>3, PaneParts DEF HubInv, Mounted, Restoring, handlerVars, hubVars
  <2> QED BY <2>6, <2>7, <2>8, <2>9, <2>10 DEF PaneInv
<1> QED BY <1>4, <1>5

LEMMA HistoryKeeps ==
    ASSUME IInv, NEW p \in Panes, HistoryArrives(p) \/ HistoryFails(p) \/ ChunkTaken(p)
    PROVE  PaneInv(p)'
<1>1. 0 \in 0..MaxSeq /\ {} \in SUBSET Frames /\ TypeOK
  BY OutputBounds DEF IInv
<1>2. /\ hist[p] \in SUBSET Frames /\ listed[p] \subseteq rows
      /\ \A m \in listed[p], n \in rows : n <= m => n \in listed[p]
  BY PaneTypes, PaneParts DEF ListInv
<1>3. CASE HistoryArrives(p)
  <2>1. /\ phase[p] = "answered" /\ Restore(p, hist[p], 0) /\ listed' = listed
        /\ UNCHANGED <<handlerVars, rows, hubVars, first, skipped>>
    BY <1>3 DEF HistoryArrives, PaneOnly, ghostVars
  <2>2. Restoring(p) /\ hist[p] = listed[p] /\ Els(screen[p]) = {}
    BY <2>1, PaneParts, NoElements DEF Restoring, ScreenInv, ListInv
  <2>3. \A x \in hist[p] : 0 < x
    BY Numbers
  <2> QED BY <1>1, <1>2, <2>1, <2>2, <2>3, RestoreKeeps
<1>4. CASE HistoryFails(p)
  <2>1. /\ phase[p] \in {"fetch", "answered"} /\ Restore(p, {}, 0) /\ listed'[p] = {}
        /\ UNCHANGED <<handlerVars, rows, hubVars, first, skipped>>
    BY <1>1, <1>4 DEF HistoryFails, TypeOK
  <2>2. Restoring(p) /\ Els(screen[p]) = {}
    BY <2>1, PaneParts, NoElements DEF Restoring, ScreenInv
  <2> QED BY <1>1, <2>1, <2>2, RestoreKeeps
<1>5. CASE ChunkTaken(p)
  <2> DEFINE n == Min(hist[p])
             S == hist[p] \ {n}
  <2>1. /\ phase[p] = "history" /\ Restore(p, S, AfterChunk(restored[p], n)) /\ listed' = listed
        /\ UNCHANGED <<handlerVars, rows, hubVars, first, skipped>>
    BY <1>5 DEF ChunkTaken, PaneOnly, ghostVars
  <2>2. /\ n \in hist[p] /\ n \in Nat /\ \A x \in hist[p] : n <= x
        /\ restored[p] < n /\ AfterChunk(restored[p], n) = n /\ n \in 0..MaxSeq /\ S \in SUBSET Frames
    BY <2>1, ChunkIs
  <2>3. /\ Restoring(p) /\ n \in Els(screen[p]) /\ hist[p] \subseteq listed[p]
        /\ listed[p] \subseteq Els(screen[p]) \union hist[p]
        /\ \A x \in Els(screen[p]) : x = n \/ x <= restored[p]
    BY <2>1, PaneParts DEF Restoring, ScreenInv, ListInv
  <2> HIDE DEF n
  <2>4. \A x \in S : n < x
    BY <2>2, Numbers
  <2>5. \A x \in Els(screen[p]) : x <= n
    <3>1. restored[p] \in Nat /\ \A x \in Els(screen[p]) : x \in Nat
      BY Numbers, PaneTypes
    <3> QED BY <2>2, <2>3, <3>1
  <2>6. S \subseteq listed[p] /\ listed[p] \subseteq Els(screen[p]) \union S /\ n \in listed[p]
    BY <2>2, <2>3
  <2> HIDE DEF S
  <2> QED BY <1>2, <2>1, <2>2, <2>3, <2>4, <2>5, <2>6, RestoreKeeps
<1> QED BY <1>3, <1>4, <1>5

LEMMA FrameTakenKeeps ==
    ASSUME IInv, NEW p \in Panes, FrameTaken(p)
    PROVE  PaneInv(p)'
<1> DEFINE n == Head(pend[p])
           u == Tail(pend[p])
           f == Fresh(u, n)
           h == Head(f)
<1>1. /\ phase[p] = "pending" /\ Flush(p, u, n) /\ TypeOK
      /\ UNCHANGED <<handlerVars, rows, hubVars, hist, listed, first, skipped>>
  BY DEF FrameTaken, PaneOnly, ghostVars, IInv
<1>2. /\ n \in Els(pend[p]) /\ n \in Els(screen[p]) /\ n \in Nat /\ n \in 0..MaxSeq
      /\ u \in Seq(Frames) /\ Inc(u) /\ Els(u) = Els(pend[p]) \ {n} /\ \A x \in Els(u) : n < x
  BY <1>1, PendingIs
<1>3. /\ restored' = [restored EXCEPT ![p] = n] /\ pend' = [pend EXCEPT ![p] = f]
      /\ f \in Seq(Frames) /\ Inc(f) /\ Els(f) = {x \in Els(u) : x > n}
      /\ \/ f = <<>> /\ phase' = [phase EXCEPT ![p] = "live"] /\ screen' = screen
         \/ /\ f # <<>> /\ h \in Frames
            /\ phase' = [phase EXCEPT ![p] = "pending"] /\ Writes(p, h)
  <2> HIDE DEF n, u
  <2> QED BY <1>1, <1>2, FlushIs
<1>4. f # <<>> => h \in Els(f) /\ \A x \in Els(f) : h <= x
  <2> HIDE DEF f
  <2> QED BY <1>3, Taken
<1> HIDE DEF n, u, f, h
<1>5. /\ Els(f) = Els(pend[p]) \ {n} /\ \A x \in Els(f) : n < x
      /\ \A x \in Els(pend[p]) \union Els(screen[p]) \union Els(inbox[p]) : x \in Nat
  BY <1>2, <1>3, Numbers
<1>6. /\ restored'[p] = n /\ pend'[p] = f /\ inbox'[p] = inbox[p] /\ sock'[p] = sock[p]
      /\ hist' = hist /\ listed' = listed /\ first' = first /\ skipped' = skipped /\ rows' = rows
      /\ Fence(p)' = Fence(p) /\ subs' = subs /\ targets' = targets
      /\ phase'[p] = "live" \/ phase'[p] = "pending"
  BY <1>1, <1>3 DEF TypeOK, hubVars, handlerVars, Fence
<1>7. /\ Inc(inbox[p]) /\ \A x \in Els(pend[p]) : x < Fence(p)
      /\ \A x \in Els(inbox[p]) : x < Fence(p) /\ \A y \in Els(pend[p]) : y < x
      /\ IsInjective(screen[p]) /\ \A x \in Els(screen[p]) : x <= n \/ Came(p, x)
      /\ listed[p] \subseteq Els(screen[p])
  BY <1>1, PaneParts DEF OrderInv, ScreenInv, ListInv, n
<1>8. \A x \in Els(screen[p]) : Came(p, x) => Came(p, x)'
  BY <1>5, <1>6 DEF Came
<1>9. Els(screen[p]) \subseteq Els(screen'[p]) => HubInv(p)' /\ ListInv(p)' /\ SentInv(p)'
  <2> SUFFICES ASSUME Els(screen[p]) \subseteq Els(screen'[p])
               PROVE  HubInv(p)' /\ ListInv(p)' /\ SentInv(p)'
    OBVIOUS
  <2>1. HubInv(p)'
    BY <1>1, <1>6, PaneParts DEF HubInv, Mounted
  <2>2. n < Fence(p) /\ \A y \in Els(inbox[p]) : n < y
    BY <1>2, <1>7
  <2>3. ListInv(p)'
    BY <1>1, <1>6, <1>7, <2>2, PaneParts DEF ListInv
  <2>4. SentInv(p)'
    BY <1>2, <1>5, <1>6, PaneParts DEF SentInv
  <2> QED BY <2>1, <2>3, <2>4
<1>10. OrderInv(p)'
  <2>1. phase'[p] = "live" => f = <<>>
    BY <1>1, <1>3, <1>6 DEF TypeOK
  <2> QED BY <1>3, <1>5, <1>6, <1>7, <2>1 DEF OrderInv
<1>11. CASE phase'[p] = "live"
  <2>1. screen' = screen
    BY <1>1, <1>3, <1>11 DEF TypeOK
  <2>2. ScreenInv(p)'
    BY <1>6, <1>7, <1>8, <1>11, <2>1 DEF ScreenInv
  <2> QED BY <1>9, <1>10, <2>1, <2>2 DEF PaneInv
<1>12. CASE phase'[p] = "pending"
  <2>1. f # <<>> /\ h \in Frames /\ Writes(p, h) /\ h \in Els(f) /\ n < h /\ h \in Nat
    BY <1>1, <1>3, <1>4, <1>5, <1>12, FrameIsNat DEF TypeOK
  <2>2. h \in Els(pend[p])
    BY <1>5, <2>1
  <2>3. h \notin Els(screen[p])
    BY <1>2, <1>5, <1>7, <2>1, <2>2 DEF Came
  <2>4. Els(screen'[p]) = Els(screen[p]) \union {h} /\ IsInjective(screen'[p])
    BY <1>7, <2>1, <2>3, WritesType
  <2>5. \A x \in Els(screen[p]) : x <= n => x <= h
    BY <1>2, <1>5, <2>1
  <2>6. ScreenInv(p)'
    BY <1>6, <1>7, <1>8, <1>12, <2>1, <2>4, <2>5 DEF ScreenInv, h
  <2> QED BY <1>9, <1>10, <2>4, <2>6 DEF PaneInv
<1> QED BY <1>6, <1>11, <1>12

LEMMA MessageKeeps ==
    ASSUME IInv, NEW p \in Panes, Message(p)
    PROVE  PaneInv(p)'
<1>0. PICK n, u : n = Head(inbox[p]) /\ u = Tail(inbox[p])
  OBVIOUS
<1>1. /\ TypeOK /\ Mounted(p) /\ inbox[p] # <<>> /\ inbox' = [inbox EXCEPT ![p] = u]
      /\ UNCHANGED <<handlerVars, rows, subs, sock, phase, hist, listed, first, skipped>>
      /\ \/ /\ Restoring(p) /\ pend' = [pend EXCEPT ![p] = Append(@, n)]
            /\ UNCHANGED <<restored, screen>>
         \/ /\ ~Restoring(p) /\ n > restored[p] /\ Writes(p, n)
            /\ restored' = [restored EXCEPT ![p] = n] /\ UNCHANGED pend
         \/ /\ ~Restoring(p) /\ n <= restored[p] /\ UNCHANGED <<pend, restored, screen>>
  BY <1>0 DEF Message, IInv, ghostVars
<1>2. /\ n \in Els(inbox[p]) /\ n \in Frames /\ n \in Nat
      /\ u \in Seq(Frames) /\ Inc(u) /\ Els(u) = Els(inbox[p]) \ {n} /\ \A x \in Els(u) : n < x
  BY <1>0, <1>1, NextIs
<1>3. /\ inbox'[p] = u /\ sock' = sock /\ phase' = phase /\ hist' = hist /\ listed' = listed
      /\ first' = first /\ skipped' = skipped /\ rows' = rows /\ subs' = subs /\ targets' = targets
      /\ Fence(p)' = Fence(p)
  BY <1>1 DEF TypeOK, handlerVars, Fence
<1>4. /\ Inc(pend[p]) /\ \A x \in Els(pend[p]) : x < Fence(p)
      /\ \A x \in Els(inbox[p]) : x < Fence(p) /\ \A y \in Els(pend[p]) : y < x
      /\ IsInjective(screen[p])
      /\ pend[p] \in Seq(Frames) /\ restored[p] \in Nat
      /\ \A x \in Els(pend[p]) \union Els(screen[p]) \union Els(inbox[p]) : x \in Nat /\ x > 0
      /\ \A x \in rows : x \in Nat /\ x > 0
  BY PaneParts, PaneTypes, Numbers DEF OrderInv, ScreenInv
<1>5. HubInv(p)'
  <2>1. sock[p] = "open"
    BY <1>1, PaneParts DEF HubInv
  <2> QED BY <1>1, <1>3, <2>1, PaneParts DEF HubInv, Mounted
<1>6. \A x \in Els(screen[p]) : pend'[p] = pend[p] /\ Came(p, x) => Came(p, x)'
  BY <1>2, <1>3 DEF Came
<1>7. CASE Restoring(p)
  <2>1. pend'[p] = Append(pend[p], n) /\ UNCHANGED <<restored, screen>>
    BY <1>1, <1>7 DEF TypeOK
  <2>2. \A x \in Els(pend[p]) : x < n
    BY <1>2, <1>4
  <2>3. Inc(pend'[p]) /\ Els(pend'[p]) = Els(pend[p]) \union {n}
    BY <1>2, <1>4, <2>1, <2>2, Appended
  <2>4. OrderInv(p)'
    BY <1>2, <1>3, <1>4, <1>7, <2>3 DEF OrderInv, Restoring
  <2>5. ScreenInv(p)'
    BY <1>3, <1>7, <2>1, PaneParts DEF ScreenInv, Restoring
  <2>6. ListInv(p)'
    BY <1>2, <1>3, <2>1, PaneParts DEF ListInv
  <2>7. SentInv(p)'
    BY <1>2, <1>3, <2>1, <2>3, PaneParts DEF SentInv
  <2> QED BY <1>5, <2>4, <2>5, <2>6, <2>7 DEF PaneInv
<1>8. CASE ~Restoring(p)
  <2>1. phase[p] \in {"pending", "live"} /\ pend' = pend
    BY <1>1, <1>8, PaneTypes DEF Restoring, Mounted, Phases
  <2>2. OrderInv(p)'
    BY <1>2, <1>3, <1>4, <1>8, <2>1, PaneParts DEF OrderInv, Restoring
  <2>3. CASE n > restored[p]
    <3>1. Writes(p, n) /\ restored'[p] = n
      BY <1>1, <1>2, <1>4, <1>8, <2>3 DEF TypeOK
    <3>2. n \notin Els(screen[p])
      <4>1. CASE phase[p] = "pending"
        <5>1. Head(pend[p]) \in Els(pend[p])
          BY <4>1, PendingIs
        <5>2. \A x \in Els(screen[p]) : x <= Head(pend[p]) \/ Came(p, x)
          BY <4>1, PaneParts DEF ScreenInv
        <5>3. Head(pend[p]) < n
          BY <1>2, <1>4, <5>1
        <5> QED BY <1>2, <1>4, <5>1, <5>2, <5>3 DEF Came
      <4>2. CASE phase[p] = "live"
        <5>1. \A x \in Els(screen[p]) : x <= restored[p] \/ Came(p, x)
          BY <4>2, PaneParts DEF ScreenInv
        <5> QED BY <1>2, <1>4, <2>3, <5>1 DEF Came
      <4> QED BY <2>1, <4>1, <4>2
    <3>3. Els(screen'[p]) = Els(screen[p]) \union {n} /\ IsInjective(screen'[p])
      BY <1>2, <1>4, <3>1, <3>2, WritesType
    <3>4. Came(p, n)'
      <4>1. n < Fence(p) /\ \A y \in Els(pend[p]) : y < n
        BY <1>2, <1>4
      <4> QED BY <1>2, <1>3, <2>1, <4>1 DEF Came
    <3>5. \A x \in Els(screen[p]) : x <= restored[p] => x <= n
      BY <1>2, <1>4, <2>3
    <3>6. ScreenInv(p)'
      <4>1. \A x \in Els(screen[p]) : Came(p, x) => Came(p, x)'
        BY <1>6, <2>1
      <4>2. CASE phase[p] = "pending"
        <5>1. /\ pend[p] # <<>> /\ Head(pend[p]) \in Els(screen[p])
              /\ \A x \in Els(screen[p]) : x <= Head(pend[p]) \/ Came(p, x)
          BY <4>2, PaneParts DEF ScreenInv
        <5> QED BY <1>3, <2>1, <3>3, <3>4, <4>1, <4>2, <5>1 DEF ScreenInv
      <4>3. CASE phase[p] = "live"
        <5>1. \A x \in Els(screen[p]) : x <= n \/ Came(p, x)
          BY <3>5, <4>3, PaneParts DEF ScreenInv
        <5> QED BY <1>3, <3>1, <3>3, <3>4, <4>1, <4>3, <5>1 DEF ScreenInv
      <4> QED BY <2>1, <4>2, <4>3
    <3>7. ListInv(p)'
      BY <1>2, <1>3, <1>4, <2>1, <3>1, <3>3, PaneParts DEF ListInv
    <3>8. SentInv(p)'
      BY <1>2, <1>3, <2>1, <3>3, PaneParts DEF SentInv
    <3> QED BY <1>5, <2>2, <3>6, <3>7, <3>8 DEF PaneInv
  <2>4. CASE n <= restored[p]
    <3>1. UNCHANGED <<restored, screen>>
      BY <1>1, <1>2, <1>4, <1>8, <2>4 DEF TypeOK
    <3>2. ScreenInv(p)'
      BY <1>3, <1>6, <2>1, <3>1, PaneParts DEF ScreenInv
    <3>3. ListInv(p)'
      BY <1>2, <1>3, <3>1, PaneParts DEF ListInv
    <3>4. n \in rows => n \in Els(screen[p])
      <4>1. restored[p] \in listed[p]
        <5>1. ~(restored[p] < n) /\ restored[p] # 0
          BY <1>2, <1>4, <2>4
        <5> QED BY <1>2, <5>1, PaneParts DEF ListInv
      <4>2. n \in rows => n \in listed[p]
        BY <2>4, <4>1, PaneParts DEF ListInv
      <4> QED BY <2>1, <4>2, PaneParts DEF ListInv
    <3>5. SentInv(p)'
      BY <1>2, <1>3, <2>1, <3>1, <3>4, PaneParts DEF SentInv
    <3> QED BY <1>5, <2>2, <3>2, <3>3, <3>5 DEF PaneInv
  <2> QED BY <1>2, <1>4, <2>3, <2>4
<1> QED BY <1>7, <1>8

-----------------------------------------------------------------------------
(* The theorems *)

LEMMA NextPanes == ASSUME IInv, [Next]_vars, NEW o \in Panes PROVE PaneInv(o)'
<1>1. CASE FrameArrives \/ Handle
  BY <1>1, ArrivesKeeps, PersistKeeps, TakeKeeps, SendKeeps DEF Handle
<1>2. ASSUME NEW p \in Panes, Own(p) PROVE PaneInv(o)'
  <2>1. CASE o # p
    BY <1>2, <2>1, OthersKeep
  <2>2. CASE o = p
    BY <1>2, <2>2, SocketKeeps, MountKeeps, HistoryKeeps, FrameTakenKeeps, MessageKeeps DEF Own, Script
  <2> QED BY <2>1, <2>2
<1>3. CASE UNCHANGED vars
  <2>1. /\ Same(o) /\ UNCHANGED <<handlerVars, rows, sock, first, skipped, subs>>
    BY <1>3 DEF vars, Same, hubVars, paneVars, ghostVars
  <2>2. Fence(o)' = Fence(o) /\ Fence(o) \in Nat /\ Fence(o) <= Fence(o)
    BY <2>1, PaneTypes DEF Fence, handlerVars
  <2>3. OrderInv(o)' /\ ScreenInv(o)' /\ ListInv(o)'
    BY <2>1, <2>2, SameKeeps
  <2>4. HubInv(o)' /\ SentInv(o)'
    BY <2>1, <2>2, PaneParts DEF HubInv, SentInv, Mounted, Same, handlerVars
  <2> QED BY <2>3, <2>4 DEF PaneInv
<1> QED BY <1>1, <1>2, <1>3 DEF Next, Own

LEMMA NextTypes == ASSUME IInv, [Next]_vars PROVE TypeOK'
<1>1. CASE UNCHANGED vars
  BY <1>1 DEF IInv, TypeOK, vars, handlerVars, hubVars, paneVars, ghostVars
<1> QED BY <1>1, HandlerTypes, SocketTypes, ScriptTypes DEF Next

LEMMA InitInv == Init => IInv
<1> SUFFICES ASSUME Init PROVE IInv
  OBVIOUS
<1>1. /\ <<>> \in Seq(Frames) /\ 0 \in 0..MaxSeq /\ MaxSeq + 1 \in 1..(MaxSeq + 1)
  BY OutputBounds
<1>2. TypeOK
  BY <1>1 DEF Init, TypeOK, Phases
<1>3. RowsInv
  BY DEF Init, RowsInv
<1>4. ASSUME NEW p \in Panes PROVE PaneInv(p)
  <2>1. /\ phase[p] = "off" /\ sock[p] = "none" /\ inbox[p] = <<>> /\ hist[p] = {} /\ pend[p] = <<>>
        /\ restored[p] = 0 /\ screen[p] = <<>> /\ listed[p] = {} /\ subs = {} /\ targets = {}
    BY DEF Init
  <2>2. HubInv(p) /\ SentInv(p)
    BY <2>1 DEF HubInv, SentInv, Mounted
  <2>3. OrderInv(p) /\ ScreenInv(p) /\ ListInv(p)
    BY <2>1, NoElements DEF OrderInv, ScreenInv, ListInv
  <2> QED BY <2>2, <2>3 DEF PaneInv
<1> QED BY <1>2, <1>3, <1>4 DEF IInv

LEMMA Invariance == Spec => []IInv
<1>1. IInv /\ [Next]_vars => IInv'
  BY NextTypes, NextRows, NextPanes DEF IInv
<1> QED BY <1>1, InitInv, PTL DEF Spec

\* The state of the handler, the hub and the panes is what the comments say.
THEOREM TypeCorrect == Spec => []TypeOK
<1>1. IInv => TypeOK
  BY DEF IInv
<1> QED BY <1>1, Invariance, PTL

\* No frame is written on a terminal twice, though restoredSeq of TerminalPane
\* goes back when frames arrive between the awaits of restoreOutput.
THEOREM RepeatCorrect == Spec => []NoRepeat
<1>1. IInv => NoRepeat
  BY DEF IInv, PaneInv, ScreenInv, NoRepeat
<1> QED BY <1>1, Invariance, PTL

\* A pane that has caught up lacks no persisted frame but those between its list
\* and its subscription, and those that FromAgent withheld for another's failure.
THEOREM MissedCorrect == Spec => []NothingElseMissed
<1>1. IInv => NothingElseMissed
  <2> SUFFICES ASSUME IInv, NEW p \in Panes, NEW n \in rows,
                      phase[p] = "live", sock[p] = "open", inbox[p] = <<>>, at = "idle",
                      n \notin Gap(p), n \notin skipped[p]
               PROVE  n \in Range(screen[p])
    BY DEF NothingElseMissed
  <2>1. Range(screen[p]) = Els(screen[p])
    <3>1. screen[p] \in Seq(Frames)
      BY PaneTypes
    <3>2. DOMAIN screen[p] = 1..Len(screen[p])
      BY <3>1
    <3> QED BY <3>2 DEF Range, Els
  <2>2. n \in Frames /\ n \in Nat /\ n <= seq /\ seq \in Nat /\ first[p] \in Nat
    BY FrameIsNat, PaneTypes DEF IInv, TypeOK, RowsInv
  <2>3. CASE n \in listed[p]
    BY <2>1, <2>3, PaneParts DEF ListInv
  <2>4. CASE n \notin listed[p]
    <3>1. first[p] <= n
      BY <2>2, <2>4 DEF Gap
    <3>2. n < Fence(p)
      <4>1. targets = {}
        BY DEF IInv, RowsInv
      <4> QED BY <2>2, <4>1 DEF Fence
    <3>3. Els(inbox[p]) = {} /\ Els(pend[p]) = {}
      BY PaneParts, NoElements DEF OrderInv, Restoring
    <3> QED BY <2>1, <3>1, <3>2, <3>3, PaneParts DEF SentInv
  <2> QED BY <2>3, <2>4
<1> QED BY <1>1, Invariance, PTL

=============================================================================
