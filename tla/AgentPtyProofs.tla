--------------------------- MODULE AgentPtyProofs ---------------------------
(***************************************************************************)
(* AgentPty for any number of sessions, chunks and closes.                 *)
(***************************************************************************)
EXTENDS AgentPty, SequenceTheorems, TLAPS

Frames == [s : Sessions, seq : Nat, data : Chunks \ {<<>>}]

-----------------------------------------------------------------------------
(* The inductive invariant *)

\* A buffer belongs to a session that is in the manager's map, or has been noted
\* as exited, or has its exit still to be sent.
MapsInv ==
    /\ \A s \in Sessions :
        /\ s \in sessions \/ s \in exited \/ s \in exits <=> next[s] > 0
        /\ s \in sessions => s \notin exited /\ s \notin exits
    /\ at # "flush" => exited = {} /\ frames = {} /\ keys = {}
    /\ at # "exits" => exits = {}
    /\ ended => at = "idle"

\* Session s has no frame that is still to be sent.
Unframed(s) == \A f \in frames : f.s # s

\* A frame that is still to be sent is the next one of its session, which has
\* a buffer and is not flushed again in this tick.
FramesInv ==
    /\ \A f \in frames : /\ f.s \notin keys
                         /\ f.seq = Len(numbers[f.s]) + 1 /\ next[f.s] = f.seq + 1
    /\ \A f, g \in frames : f.s = g.s => f = g
    /\ \A s \in Sessions :
        /\ \A i \in 1..Len(numbers[s]) : numbers[s][i] = i
        /\ next[s] > 0 /\ Unframed(s) => next[s] = Len(numbers[s]) + 1
        /\ shell[s] = "none" => numbers[s] = <<>> /\ next[s] = 0

\* q has the chunks k + 1, ..., n.
Follows(q, k, n) == k + Len(q) = n /\ \A i \in 1..Len(q) : q[i] = k + i

\* Delivered, in a frame, set aside, in the channel: in this order the chunks
\* that the shell has produced.
ChainInv ==
    /\ \A f \in frames :
        LET got == Len(delivered[f.s]) + Len(f.data)
        IN Follows(f.data, Len(delivered[f.s]), got) /\ Follows(Taken(f.s), got, produced[f.s])
    /\ \A s \in Sessions :
        /\ Follows(delivered[s], 0, Len(delivered[s])) /\ Len(delivered[s]) <= produced[s]
        /\ ~ended /\ Unframed(s) => Follows(Taken(s), Len(delivered[s]), produced[s])

IInv == TypeOK /\ MapsInv /\ FramesInv /\ ChainInv

-----------------------------------------------------------------------------
(* Lemmas about the data *)

LEMMA FrameFields ==
    ASSUME NEW s \in Sessions, NEW n \in Nat, NEW d \in Chunks \ {<<>>},
           NEW f, f = [s |-> s, seq |-> n, data |-> d]
    PROVE  f \in Frames /\ f.s = s /\ f.seq = n /\ f.data = d
BY DEF Frames

LEMMA FrameTypes ==
    ASSUME TypeOK, NEW f \in frames
    PROVE  f.s \in Sessions /\ f.seq \in Nat /\ f.data \in Chunks /\ f.data # <<>>
BY DEF TypeOK

LEMMA TakenType ==
    ASSUME TypeOK, NEW s \in Sessions
    PROVE  Taken(s) \in Chunks /\ chan[s] \in Chunks /\ pending[s] \in Chunks
<1>1. chan[s] \in Chunks /\ pending[s] \in Chunks
  BY DEF TypeOK
<1> QED BY <1>1, ConcatProperties DEF Taken, Chunks

LEMMA EmptyChunks == <<>> \in Chunks
BY DEF Chunks

\* A drain moves the channel behind what was set aside.
LEMMA Drained ==
    ASSUME TypeOK, NEW own \in SUBSET Sessions, Drain(own)
    PROVE  /\ sessions' = sessions \ Leaving /\ sessions' \subseteq Sessions /\ quit' = {}
           /\ chan' \in [Sessions -> Chunks] /\ pending' \in [Sessions -> Chunks]
           /\ \A s \in Sessions \ own : Taken(s)' = Taken(s)
           /\ \A s \in own : Taken(s)' = <<>>
<1>1. \A s \in Sessions : /\ chan'[s] = <<>>
                          /\ pending'[s] = IF s \in own THEN <<>> ELSE Taken(s)
  BY DEF Drain, Emptied, Taken
<1>2. \A s \in Sessions : Taken(s) \in Chunks
  BY TakenType
<1>3. chan' \in [Sessions -> Chunks]
  BY <1>1, EmptyChunks DEF Drain, Emptied
<1>4. pending' \in [Sessions -> Chunks]
  <2>1. pending' = [s \in Sessions |-> IF s \in own THEN <<>> ELSE Taken(s)]
    BY DEF Drain, Taken
  <2> QED BY <2>1, <1>2, EmptyChunks
<1>5. sessions' = sessions \ Leaving /\ sessions' \subseteq Sessions /\ quit' = {}
  BY DEF Drain, Emptied, TypeOK
<1>6. \A s \in Sessions \ own : Taken(s)' = Taken(s)
  <2> TAKE s \in Sessions \ own
  <2>1. chan'[s] = <<>> /\ pending'[s] = Taken(s)
    BY <1>1
  <2>2. Taken(s)' = Taken(s) \o <<>>
    BY <2>1 DEF Taken
  <2>3. Taken(s) \in Seq(1..MaxChunks)
    BY <1>2 DEF Chunks
  <2> QED BY <2>2, <2>3, ConcatEmptySeq
<1>7. \A s \in own : Taken(s)' = <<>>
  <2> TAKE s \in own
  <2>1. chan'[s] = <<>> /\ pending'[s] = <<>>
    BY <1>1
  <2>2. Taken(s)' = <<>> \o <<>>
    BY <2>1 DEF Taken
  <2>3. <<>> \in Seq(1..MaxChunks)
    OBVIOUS
  <2> QED BY <2>2, <2>3, ConcatEmptySeq
<1> QED BY <1>3, <1>4, <1>5, <1>6, <1>7

-----------------------------------------------------------------------------
(* Types *)

Reports == {"started", "stdout", "exited", "closed"}

LEMMA SendType ==
    ASSUME TypeOK, NEW s \in Sessions, NEW t \in Reports, Send(s, t)
    PROVE  sent' \in [Sessions -> Seq(Reports)]
<1>1. sent \in [Sessions -> Seq(Reports)]
  BY DEF TypeOK, Reports
<1>2. Append(sent[s], t) \in Seq(Reports)
  BY <1>1, AppendProperties
<1> QED BY <1>1, <1>2 DEF Send

\* What starts with TypeOK ends with it: the steps of the readers and shells.
LEMMA ReaderTypes ==
    ASSUME TypeOK, NEW s \in Sessions, Reader(s) \/ ShellEnds(s)
    PROVE  TypeOK'
<1>1. CASE ReadChunk(s)
  <2>1. produced[s] + 1 \in 1..MaxChunks
    BY <1>1, AgentBounds DEF ReadChunk, TypeOK
  <2>2. Append(chan[s], produced[s] + 1) \in Chunks
    BY <2>1, AppendProperties, TakenType DEF Chunks
  <2>3. chan' \in [Sessions -> Chunks]
    BY <1>1, <2>2 DEF ReadChunk, TypeOK
  <2>4. produced' \in [Sessions -> 0..MaxChunks]
    BY <1>1, <2>1, AgentBounds DEF ReadChunk, TypeOK
  <2> QED BY <1>1, <2>3, <2>4 DEF ReadChunk, TypeOK, loopVars, history
<1>2. CASE ReadEnd(s)
  BY <1>2 DEF ReadEnd, TypeOK, loopVars, history
<1>3. CASE ShellEnds(s)
  BY <1>3 DEF ShellEnds, TypeOK, ptyVars, loopVars, history
<1> QED BY <1>1, <1>2, <1>3 DEF Reader

LEMMA EndTypes == ASSUME TypeOK, AgentEnds PROVE TypeOK'
<1>1. <<>> \in Chunks
  BY EmptyChunks
<1> QED BY <1>1 DEF AgentEnds, TypeOK, history

LEMMA StartTypes == ASSUME TypeOK, NEW s \in Sessions, StartSession(s) PROVE TypeOK'
<1>1. sent' \in [Sessions -> Seq(Reports)]
  BY SendType DEF StartSession, Reports
<1> QED BY <1>1 DEF StartSession, TypeOK, Reports

LEMMA CloseTypes == ASSUME TypeOK, NEW s \in Sessions, CloseSession(s) PROVE TypeOK'
<1>1. sent' \in [Sessions -> Seq(Reports)]
  BY SendType DEF CloseSession, Reports
<1>2. closes' \in [Sessions -> 0..MaxCloses]
  BY AgentBounds DEF CloseSession, TypeOK
<1> QED BY <1>1, <1>2 DEF CloseSession, TypeOK, Reports

LEMMA BeginTypes == ASSUME TypeOK, TickBegins PROVE TypeOK'
BY DEF TickBegins, TypeOK, Buffers, threadVars, ptyVars, history

LEMMA FlushTypes == ASSUME TypeOK, NEW s \in Sessions, FlushNext(s) PROVE TypeOK'
<1>1. CASE s \notin sessions /\ UNCHANGED <<ptyVars, next, frames>>
  BY <1>1 DEF FlushNext, TypeOK, threadVars, ptyVars, history
<1>2. CASE /\ s \in sessions
           /\ Drain({s})
           /\ exited' = ExitedNow
           /\ \/ /\ Framed(Taken(s))
                 /\ next' = [next EXCEPT ![s] = @ + 1]
                 /\ frames' = frames \union {[s |-> s, seq |-> next[s], data |-> Taken(s)]}
              \/ ~Framed(Taken(s)) /\ UNCHANGED <<next, frames>>
  <2>1. /\ sessions' \subseteq Sessions /\ quit' = {}
        /\ chan' \in [Sessions -> Chunks] /\ pending' \in [Sessions -> Chunks]
    BY <1>2, Drained
  <2>2. exited' \subseteq Sessions
    BY <1>2 DEF ExitedNow, Leaving, TypeOK
  <2>3. next' \in [Sessions -> Nat] /\ \A f \in frames' : f \in Frames
    <3>1. CASE UNCHANGED <<next, frames>>
      BY <3>1 DEF TypeOK, Frames
    <3>2. CASE /\ Framed(Taken(s))
               /\ next' = [next EXCEPT ![s] = @ + 1]
               /\ frames' = frames \union {[s |-> s, seq |-> next[s], data |-> Taken(s)]}
      <4>1. Taken(s) \in Chunks \ {<<>>} /\ next[s] \in Nat
        BY <3>2, TakenType DEF Framed, TypeOK
      <4>2. [s |-> s, seq |-> next[s], data |-> Taken(s)] \in Frames
        BY <4>1, FrameFields
      <4> QED BY <3>2, <4>1, <4>2 DEF TypeOK, Frames
    <3> QED BY <1>2, <3>1, <3>2
  <2> QED BY <2>1, <2>2, <2>3 DEF FlushNext, TypeOK, Frames, threadVars, history
<1> QED BY <1>1, <1>2 DEF FlushNext

LEMMA FrameTypesKept == ASSUME TypeOK, SendFrame PROVE TypeOK'
<1>1. PICK f \in frames :
        /\ Send(f.s, "stdout")
        /\ numbers' = [numbers EXCEPT ![f.s] = Append(@, f.seq)]
        /\ delivered' = [delivered EXCEPT ![f.s] = @ \o f.data]
        /\ frames' = frames \ {f}
  BY DEF SendFrame
<1>2. f.s \in Sessions /\ f.seq \in Nat /\ f.data \in Chunks
  BY FrameTypes
<1>3. sent' \in [Sessions -> Seq(Reports)]
  BY <1>1, <1>2, SendType DEF Reports
<1>4. numbers[f.s] \in Seq(Nat) /\ delivered[f.s] \in Chunks
  BY <1>2 DEF TypeOK
<1>5. Append(numbers[f.s], f.seq) \in Seq(Nat) /\ delivered[f.s] \o f.data \in Chunks
  BY <1>2, <1>4, AppendProperties, ConcatProperties DEF Chunks
<1>6. numbers' \in [Sessions -> Seq(Nat)] /\ delivered' \in [Sessions -> Chunks]
  BY <1>1, <1>5 DEF TypeOK
<1> QED BY <1>1, <1>3, <1>6 DEF SendFrame, TypeOK, Reports, threadVars, ptyVars

LEMMA ExitTypes ==
    ASSUME TypeOK, DrainExited \/ TickEnds \/ \E s \in Sessions : SendExit(s)
    PROVE  TypeOK'
<1>1. CASE DrainExited
  <2>1. /\ sessions' \subseteq Sessions /\ quit' = {}
        /\ chan' \in [Sessions -> Chunks] /\ pending' \in [Sessions -> Chunks]
    BY <1>1, Drained DEF DrainExited
  <2> QED BY <1>1, <2>1 DEF DrainExited, ExitedNow, Leaving, TypeOK, threadVars, history
<1>2. CASE TickEnds
  BY <1>2 DEF TickEnds, TypeOK, threadVars, ptyVars, history
<1>3. ASSUME NEW s \in Sessions, SendExit(s) PROVE TypeOK'
  <2>1. sent' \in [Sessions -> Seq(Reports)]
    BY <1>3, SendType DEF SendExit, Reports
  <2> QED BY <1>3, <2>1 DEF SendExit, TypeOK, Reports, threadVars, ptyVars
<1> QED BY <1>1, <1>2, <1>3

LEMMA StutterTypes == ASSUME TypeOK, UNCHANGED vars PROVE TypeOK'
BY DEF TypeOK, vars, threadVars, ptyVars, loopVars, history

\* The steps of Next, with the four ways in which the process ends as one.
LEMMA Steps ==
    ASSUME [Next]_vars
    PROVE  \/ \E s \in Sessions : Reader(s) \/ ShellEnds(s) \/ StartSession(s)
                                  \/ CloseSession(s) \/ FlushNext(s) \/ SendExit(s)
           \/ ~ended /\ AgentEnds
           \/ TickBegins \/ SendFrame \/ DrainExited \/ TickEnds
           \/ UNCHANGED vars
BY DEF Next, Message, Tick, StartFails, InputFails, SocketEnds

LEMMA NextTypes == TypeOK /\ [Next]_vars => TypeOK'
BY Steps, ReaderTypes, EndTypes, StartTypes, CloseTypes, BeginTypes, FlushTypes,
   FrameTypesKept, ExitTypes, StutterTypes

-----------------------------------------------------------------------------
(* The maps *)

LEMMA FlushMaps ==
    ASSUME TypeOK, MapsInv, NEW s \in Sessions, FlushNext(s)
    PROVE  MapsInv'
<1>1. CASE s \notin sessions /\ UNCHANGED <<ptyVars, next, frames>>
  BY <1>1 DEF FlushNext, MapsInv, TypeOK, ptyVars
<1>2. CASE /\ s \in sessions
           /\ Drain({s})
           /\ exited' = ExitedNow
           /\ \/ next' = [next EXCEPT ![s] = @ + 1]
              \/ UNCHANGED next
  <2>1. sessions' = sessions \ Leaving /\ exited' = exited \union Leaving
    BY <1>2 DEF Drain, Emptied, ExitedNow
  <2>2. \A t \in Sessions : next'[t] > 0 <=> next[t] > 0
    <3>1. next[s] > 0 /\ next \in [Sessions -> Nat]
      BY <1>2 DEF MapsInv, TypeOK
    <3> QED BY <1>2, <3>1
  <2>3. at' = "flush" /\ exits' = exits /\ ended' = ended /\ ~ended /\ at = "flush"
    BY DEF FlushNext
  <2> QED BY <2>1, <2>2, <2>3 DEF MapsInv, Leaving
<1> QED BY <1>1, <1>2 DEF FlushNext

LEMMA NextMaps == TypeOK /\ MapsInv /\ [Next]_vars => MapsInv'
<1> SUFFICES ASSUME TypeOK, MapsInv, [Next]_vars PROVE MapsInv'
  OBVIOUS
<1>1. ASSUME NEW s \in Sessions, Reader(s) \/ ShellEnds(s) PROVE MapsInv'
  BY <1>1 DEF Reader, ReadChunk, ReadEnd, ShellEnds, MapsInv, loopVars, ptyVars
<1>2. ASSUME NEW s \in Sessions, StartSession(s) PROVE MapsInv'
  BY <1>2 DEF StartSession, MapsInv, TypeOK
<1>3. ASSUME NEW s \in Sessions, CloseSession(s) PROVE MapsInv'
  BY <1>3 DEF CloseSession, MapsInv, TypeOK
<1>4. ASSUME NEW s \in Sessions, SendExit(s) PROVE MapsInv'
  BY <1>4 DEF SendExit, MapsInv, TypeOK, ptyVars
<1>5. CASE AgentEnds
  BY <1>5 DEF AgentEnds, MapsInv
<1>6. CASE TickBegins
  BY <1>6 DEF TickBegins, MapsInv, ptyVars
<1>7. CASE SendFrame
  BY <1>7 DEF SendFrame, MapsInv, ptyVars
<1>8. CASE DrainExited
  <2>1. sessions' = sessions \ Leaving /\ exits' = exited \union Leaving
    BY <1>8 DEF DrainExited, Drain, Emptied, ExitedNow
  <2> QED BY <1>8, <2>1 DEF DrainExited, MapsInv, Leaving
<1>9. CASE TickEnds
  BY <1>9 DEF TickEnds, MapsInv, ptyVars
<1>10. CASE UNCHANGED vars
  BY <1>10 DEF vars, MapsInv, ptyVars, loopVars
<1> QED BY <1>1, <1>2, <1>3, <1>4, <1>5, <1>6, <1>7, <1>8, <1>9, <1>10, Steps, FlushMaps

-----------------------------------------------------------------------------
(* The numbers of the frames *)

LEMMA FlushFrames ==
    ASSUME TypeOK, MapsInv, FramesInv, NEW s \in Sessions, FlushNext(s)
    PROVE  FramesInv'
<1>1. CASE UNCHANGED <<next, frames>>
  BY <1>1 DEF FlushNext, FramesInv, Unframed, threadVars, history
<1>2. CASE /\ s \in sessions
           /\ Framed(Taken(s))
           /\ next' = [next EXCEPT ![s] = @ + 1]
           /\ frames' = frames \union {[s |-> s, seq |-> next[s], data |-> Taken(s)]}
  <2>1. PICK g \in frames' : /\ frames' = frames \union {g}
                             /\ g.s = s /\ g.seq = next[s]
    <3> DEFINE r == [s |-> s, seq |-> next[s], data |-> Taken(s)]
    <3>1. r.s = s /\ r.seq = next[s]
      OBVIOUS
    <3>2. frames' = frames \union {r} /\ r \in frames'
      BY <1>2
    <3> HIDE DEF r
    <3> QED BY <3>1, <3>2
  <2>2. Unframed(s) /\ keys' = keys \ {s}
    BY DEF FlushNext, FramesInv, Unframed
  <2>3. next[s] > 0 /\ next[s] \in Nat /\ next'[s] = next[s] + 1
    BY <1>2 DEF MapsInv, TypeOK
  <2>4. numbers' = numbers /\ shell' = shell /\ next[s] = Len(numbers[s]) + 1
    BY <2>2, <2>3 DEF FlushNext, FramesInv, history, threadVars
  <2>5. \A t \in Sessions : t # s => next'[t] = next[t]
    BY <1>2 DEF TypeOK
  <2>6. \A f \in frames : f.s \in Sessions /\ f.s # s /\ next'[f.s] = next[f.s]
    BY <2>2, <2>5, FrameTypes DEF Unframed
  <2>7. \A f \in frames' : /\ f.s \notin keys'
                            /\ f.seq = Len(numbers'[f.s]) + 1 /\ next'[f.s] = f.seq + 1
    BY <2>1, <2>2, <2>3, <2>4, <2>6 DEF FramesInv
  <2>8. \A f, h \in frames' : f.s = h.s => f = h
    BY <2>1, <2>6 DEF FramesInv
  <2>9. ASSUME NEW t \in Sessions
        PROVE  /\ \A i \in 1..Len(numbers'[t]) : numbers'[t][i] = i
               /\ next'[t] > 0 /\ Unframed(t)' => next'[t] = Len(numbers'[t]) + 1
               /\ shell'[t] = "none" => numbers'[t] = <<>> /\ next'[t] = 0
    <3>1. CASE t = s
      BY <3>1, <2>1, <2>3, <2>4 DEF FramesInv, Unframed
    <3>2. CASE t # s
      BY <3>2, <2>1, <2>4, <2>5 DEF FramesInv, Unframed
    <3> QED BY <3>1, <3>2
  <2> QED BY <2>7, <2>8, <2>9 DEF FramesInv
<1>3. s \notin sessions => UNCHANGED <<next, frames>>
  BY DEF FlushNext
<1> QED BY <1>1, <1>2, <1>3 DEF FlushNext

LEMMA SentFrames ==
    ASSUME TypeOK, FramesInv, SendFrame
    PROVE  FramesInv'
<1>1. PICK g \in frames :
        /\ numbers' = [numbers EXCEPT ![g.s] = Append(@, g.seq)]
        /\ frames' = frames \ {g}
  BY DEF SendFrame
<1>2. g.s \in Sessions /\ g.seq \in Nat /\ numbers[g.s] \in Seq(Nat)
  BY FrameTypes DEF TypeOK
<1>3. next' = next /\ keys' = keys /\ shell' = shell
  BY DEF SendFrame, threadVars
<1>4. \A f \in frames' : f \in frames /\ f.s # g.s /\ f.s \in Sessions
  BY <1>1, FrameTypes DEF FramesInv
<1>5. \A t \in Sessions : t # g.s => numbers'[t] = numbers[t]
  BY <1>1 DEF TypeOK
<1>6. /\ numbers'[g.s] = Append(numbers[g.s], g.seq)
      /\ Len(numbers'[g.s]) = Len(numbers[g.s]) + 1
      /\ \A i \in 1..Len(numbers[g.s]) : numbers'[g.s][i] = numbers[g.s][i]
      /\ numbers'[g.s][Len(numbers[g.s]) + 1] = g.seq
  BY <1>1, <1>2, AppendProperties DEF TypeOK
<1>7. /\ g.seq = Len(numbers[g.s]) + 1 /\ next[g.s] = g.seq + 1 /\ Len(numbers[g.s]) \in Nat
      /\ \A i \in 1..Len(numbers[g.s]) : numbers[g.s][i] = i
  BY <1>2 DEF FramesInv
<1>8. \A f \in frames' : /\ f.s \notin keys'
                          /\ f.seq = Len(numbers'[f.s]) + 1 /\ next'[f.s] = f.seq + 1
  BY <1>3, <1>4, <1>5 DEF FramesInv
<1>9. \A f, h \in frames' : f.s = h.s => f = h
  BY <1>4 DEF FramesInv
<1>10. ASSUME NEW t \in Sessions
       PROVE  /\ \A i \in 1..Len(numbers'[t]) : numbers'[t][i] = i
              /\ next'[t] > 0 /\ Unframed(t)' => next'[t] = Len(numbers'[t]) + 1
              /\ shell'[t] = "none" => numbers'[t] = <<>> /\ next'[t] = 0
  <2>1. CASE t = g.s
    BY <2>1, <1>3, <1>6, <1>7 DEF FramesInv
  <2>2. CASE t # g.s
    <3>1. Unframed(t)' => Unframed(t)
      BY <2>2, <1>1 DEF Unframed
    <3> QED BY <2>2, <3>1, <1>3, <1>5 DEF FramesInv
  <2> QED BY <2>1, <2>2
<1> QED BY <1>8, <1>9, <1>10 DEF FramesInv

LEMMA NextFrames == TypeOK /\ MapsInv /\ FramesInv /\ [Next]_vars => FramesInv'
<1> SUFFICES ASSUME TypeOK, MapsInv, FramesInv, [Next]_vars PROVE FramesInv'
  OBVIOUS
<1>1. ASSUME NEW s \in Sessions, Reader(s) \/ ShellEnds(s) PROVE FramesInv'
  BY <1>1 DEF Reader, ReadChunk, ReadEnd, ShellEnds, FramesInv, Unframed, TypeOK, loopVars, history
<1>2. ASSUME NEW s \in Sessions, StartSession(s) PROVE FramesInv'
  <2>1. frames = {} /\ frames' = {} /\ numbers[s] = <<>> /\ numbers' = numbers
    BY <1>2 DEF StartSession, MapsInv, FramesInv
  <2> QED BY <1>2, <2>1 DEF StartSession, FramesInv, Unframed, TypeOK
<1>3. ASSUME NEW s \in Sessions, CloseSession(s) PROVE FramesInv'
  <2>1. frames = {} /\ frames' = {} /\ numbers' = numbers
    BY <1>3 DEF CloseSession, MapsInv
  <2> QED BY <1>3, <2>1 DEF CloseSession, FramesInv, Unframed, TypeOK, MapsInv
<1>4. ASSUME NEW s \in Sessions, SendExit(s) PROVE FramesInv'
  <2>1. frames = {} /\ frames' = {} /\ numbers' = numbers
    BY <1>4 DEF SendExit, MapsInv
  <2> QED BY <1>4, <2>1 DEF SendExit, FramesInv, Unframed, TypeOK, threadVars
<1>5. CASE AgentEnds
  BY <1>5 DEF AgentEnds, FramesInv, history
<1>6. CASE TickBegins
  BY <1>6 DEF TickBegins, FramesInv, Unframed, MapsInv, threadVars, history
<1>7. CASE DrainExited \/ TickEnds
  BY <1>7 DEF DrainExited, TickEnds, FramesInv, Unframed, threadVars, history
<1>8. CASE UNCHANGED vars
  BY <1>8 DEF vars, FramesInv, Unframed, threadVars, loopVars, history
<1> QED BY <1>1, <1>2, <1>3, <1>4, <1>5, <1>6, <1>7, <1>8, Steps, FlushFrames, SentFrames

-----------------------------------------------------------------------------
(* The chain of the chunks *)

\* What the chain says of session s without a frame, and of a frame.
Free(s) == Follows(Taken(s), Len(delivered[s]), produced[s])

Got(f) == Len(delivered[f.s]) + Len(f.data)

Held(f) == Follows(f.data, Len(delivered[f.s]), Got(f)) /\ Follows(Taken(f.s), Got(f), produced[f.s])

LEMMA ChainParts ==
    ChainInv <=> /\ \A f \in frames : Held(f)
                 /\ \A s \in Sessions :
                      /\ Follows(delivered[s], 0, Len(delivered[s]))
                      /\ Len(delivered[s]) <= produced[s]
                      /\ ~ended /\ Unframed(s) => Free(s)
BY DEF ChainInv, Held, Got, Free

\* The chain holds as long as its parts stay.
LEMMA ChainKept ==
    ASSUME TypeOK, ChainInv, UNCHANGED <<produced, delivered, frames>>, ended' = ended,
           \A s \in Sessions : Taken(s)' = Taken(s)
    PROVE  ChainInv'
<1>1. \A f \in frames : f.s \in Sessions
  BY FrameTypes
<1>2. \A f \in frames' : Held(f)'
  BY <1>1, ChainParts DEF Held, Got
<1>3. \A s \in Sessions : Unframed(s)' => Unframed(s)
  BY DEF Unframed
<1>4. \A s \in Sessions :
         /\ Follows(delivered'[s], 0, Len(delivered'[s])) /\ Len(delivered'[s]) <= produced'[s]
         /\ ~ended' /\ Unframed(s)' => Free(s)'
  BY <1>3, ChainParts DEF Free
<1>5. \A f \in frames' :
        LET got == Len(delivered'[f.s]) + Len(f.data)
        IN /\ Follows(f.data, Len(delivered'[f.s]), got)
           /\ Follows(Taken(f.s)', got, produced'[f.s])
  BY <1>2 DEF Held, Got
<1> QED BY <1>4, <1>5 DEF ChainInv, Free

LEMMA ChainPartsNext ==
    ASSUME \A f \in frames' : Held(f)',
           \A s \in Sessions :
              /\ Follows(delivered'[s], 0, Len(delivered'[s]))
              /\ Len(delivered'[s]) <= produced'[s]
              /\ ~ended' /\ Unframed(s)' => Free(s)'
    PROVE  ChainInv'
BY DEF ChainInv, Held, Got, Free

LEMMA Associative ==
    ASSUME NEW p \in Chunks, NEW q \in Chunks, NEW r \in Chunks
    PROVE  p \o (q \o r) = (p \o q) \o r
<1>1. (p \o q) \o r = p \o (q \o r)
  BY ConcatAssociative DEF Chunks
<1> QED BY <1>1

LEMMA GotTypes ==
    ASSUME TypeOK, NEW f \in frames
    PROVE  f.s \in Sessions /\ Len(f.data) \in Nat /\ Len(delivered[f.s]) \in Nat /\ Got(f) \in Nat
<1>1. f.s \in Sessions /\ f.data \in Seq(1..MaxChunks)
  BY FrameTypes DEF Chunks
<1>2. delivered[f.s] \in Seq(1..MaxChunks)
  BY <1>1 DEF TypeOK, Chunks
<1>3. Len(f.data) \in Nat /\ Len(delivered[f.s]) \in Nat
  BY <1>1, <1>2
<1>4. \A m, n \in Nat : m + n \in Nat
  OBVIOUS
<1>5. Got(f) \in Nat
  BY <1>3, <1>4, Zenon DEF Got
<1> QED BY <1>1, <1>3, <1>5

LEMMA ReadChain ==
    ASSUME TypeOK, ChainInv, NEW s \in Sessions, ReadChunk(s)
    PROVE  ChainInv'
<1> DEFINE q == Taken(s)
           c == produced[s] + 1
<1>1. c \in 1..MaxChunks /\ produced[s] \in Nat /\ c \in Nat
  BY AgentBounds DEF ReadChunk, TypeOK
<1>2. q \in Chunks /\ chan[s] \in Chunks /\ pending[s] \in Chunks
  BY TakenType
<1>3. Taken(s)' = Append(q, c)
  <2>1. Taken(s)' = pending[s] \o Append(chan[s], c)
    BY DEF ReadChunk, Taken, TypeOK
  <2>2. pending[s] \o (chan[s] \o <<c>>) = (pending[s] \o chan[s]) \o <<c>>
    <3>1. <<c>> \in Chunks
      BY <1>1 DEF Chunks
    <3> QED BY <1>2, <3>1, Associative
  <2>3. Append(chan[s], c) = chan[s] \o <<c>> /\ Append(q, c) = q \o <<c>>
    <3> HIDE DEF c, q
    <3> QED BY <1>1, <1>2, AppendIsConcat DEF Chunks
  <2> QED BY <2>1, <2>2, <2>3 DEF Taken
<1>4. \A t \in Sessions : t # s => Taken(t)' = Taken(t) /\ produced'[t] = produced[t]
  BY DEF ReadChunk, Taken, TypeOK
<1>5. /\ Len(Append(q, c)) = Len(q) + 1 /\ Append(q, c)[Len(q) + 1] = c /\ Len(q) \in Nat
      /\ \A i \in 1..Len(q) : Append(q, c)[i] = q[i]
  <2> HIDE DEF c, q
  <2> QED BY <1>1, <1>2, AppendProperties DEF Chunks
<1>6. ASSUME NEW k \in Nat, Follows(q, k, produced[s])
      PROVE  Follows(Taken(s)', k, produced'[s])
  <2>1. produced'[s] = c
    BY DEF ReadChunk, TypeOK
  <2>2. k + Len(q) + 1 = c
    BY <1>6, <1>5 DEF Follows
  <2> HIDE DEF q
  <2> QED BY <1>1, <1>3, <1>5, <1>6, <2>1, <2>2 DEF Follows
<1>7. delivered' = delivered /\ frames' = frames /\ ended' = ended /\ ~ended
  BY DEF ReadChunk, history, loopVars
<1>8. \A t \in Sessions : Len(delivered[t]) \in Nat
  BY DEF TypeOK, Chunks
<1>9. ASSUME NEW f \in frames PROVE Held(f)'
  <2>1. f.s \in Sessions /\ Got(f) \in Nat /\ Got(f)' = Got(f)
    BY <1>7, GotTypes DEF Got
  <2>2. Follows(f.data, Len(delivered[f.s]), Got(f)) /\ Follows(Taken(f.s), Got(f), produced[f.s])
    BY ChainParts DEF Held
  <2>3. Follows(Taken(f.s)', Got(f), produced'[f.s])
    BY <1>4, <1>6, <2>1, <2>2
  <2> QED BY <1>7, <2>1, <2>2, <2>3 DEF Held
<1>10. ASSUME NEW t \in Sessions
       PROVE  /\ Follows(delivered'[t], 0, Len(delivered'[t])) /\ Len(delivered'[t]) <= produced'[t]
              /\ ~ended' /\ Unframed(t)' => Free(t)'
  <2>1. /\ Follows(delivered[t], 0, Len(delivered[t])) /\ Len(delivered[t]) <= produced[t]
        /\ Unframed(t) => Free(t)
    BY <1>7, ChainParts
  <2>2. produced'[t] \in Nat /\ produced[t] \in Nat /\ produced[t] <= produced'[t]
    BY DEF ReadChunk, TypeOK
  <2>3. Unframed(t)' => Unframed(t)
    BY <1>7 DEF Unframed
  <2>4. Free(t) => Free(t)'
    BY <1>4, <1>6, <1>7, <1>8 DEF Free
  <2> QED BY <1>7, <1>8, <2>1, <2>2, <2>3, <2>4
<1>11. \A f \in frames' : Held(f)'
  BY <1>7, <1>9
<1> QED BY <1>10, <1>11, ChainPartsNext

LEMMA FlushChain ==
    ASSUME TypeOK, FramesInv, ChainInv, NEW s \in Sessions, FlushNext(s)
    PROVE  ChainInv'
<1>1. produced' = produced /\ delivered' = delivered /\ ended' = ended /\ ~ended
  BY DEF FlushNext, threadVars, history
<1>2. CASE s \notin sessions
  <2>1. frames' = frames /\ \A t \in Sessions : Taken(t)' = Taken(t)
    BY <1>2 DEF FlushNext, Taken, ptyVars
  <2> QED BY <1>1, <2>1, ChainKept
<1>3. CASE s \in sessions
  <2>1. /\ \A t \in Sessions \ {s} : Taken(t)' = Taken(t)
        /\ Taken(s)' = <<>>
    BY <1>3, Drained DEF FlushNext
  <2>2. CASE ~Framed(Taken(s)) /\ UNCHANGED frames
    <3>1. \A t \in Sessions : Taken(t)' = Taken(t)
      BY <2>1, <2>2 DEF Framed
    <3> QED BY <1>1, <2>2, <3>1, ChainKept
  <2>3. CASE frames' = frames \union {[s |-> s, seq |-> next[s], data |-> Taken(s)]}
    <3>1. PICK g \in frames' : frames' = frames \union {g} /\ g.s = s /\ g.data = Taken(s)
      <4> DEFINE r == [s |-> s, seq |-> next[s], data |-> Taken(s)]
      <4>1. r.s = s /\ r.data = Taken(s)
        OBVIOUS
      <4>2. frames' = frames \union {r} /\ r \in frames'
        BY <2>3
      <4> HIDE DEF r
      <4> QED BY <4>1, <4>2
    <3>2. Unframed(s) /\ Free(s)
      <4>1. Unframed(s)
        BY DEF FlushNext, FramesInv, Unframed
      <4> QED BY <4>1, <1>1, ChainParts
    <3>3. produced[s] \in Nat /\ Len(delivered[s]) \in Nat
      BY DEF TypeOK, Chunks
    <3>4. Got(g)' = produced[s]
      BY <1>1, <3>1, <3>2 DEF Got, Free, Follows
    <3>5. Held(g)'
      <4>1. Follows(g.data, Len(delivered[g.s]), produced[s])
        BY <3>1, <3>2 DEF Free
      <4>2. Follows(<<>>, produced[s], produced[s])
        BY <3>3 DEF Follows
      <4> QED BY <1>1, <2>1, <3>1, <3>4, <4>1, <4>2 DEF Held
    <3>6. ASSUME NEW f \in frames PROVE Held(f)'
      <4>1. f.s \in Sessions \ {s}
        BY <3>2, GotTypes DEF Unframed
      <4> QED BY <1>1, <2>1, <4>1, ChainParts DEF Held, Got
    <3>7. \A f \in frames' : Held(f)'
      BY <3>1, <3>5, <3>6
    <3>8. ASSUME NEW t \in Sessions
          PROVE  /\ Follows(delivered'[t], 0, Len(delivered'[t])) /\ Len(delivered'[t]) <= produced'[t]
                 /\ ~ended' /\ Unframed(t)' => Free(t)'
      <4>1. Unframed(t)' => t # s /\ Unframed(t)
        BY <3>1 DEF Unframed
      <4>2. t # s => Taken(t)' = Taken(t)
        BY <2>1
      <4> QED BY <1>1, <4>1, <4>2, ChainParts DEF Free
    <3> QED BY <3>7, <3>8, ChainPartsNext
  <2> QED BY <1>3, <2>2, <2>3 DEF FlushNext
<1> QED BY <1>2, <1>3

LEMMA SentChain ==
    ASSUME TypeOK, FramesInv, ChainInv, SendFrame
    PROVE  ChainInv'
<1>1. PICK g \in frames : /\ delivered' = [delivered EXCEPT ![g.s] = @ \o g.data]
                          /\ frames' = frames \ {g}
  BY DEF SendFrame
<1>2. produced' = produced /\ ended' = ended /\ \A t \in Sessions : Taken(t)' = Taken(t)
  BY DEF SendFrame, Taken, threadVars, ptyVars
<1> DEFINE d == delivered[g.s]
           e == d \o g.data
<1>3. /\ g.s \in Sessions /\ d \in Seq(1..MaxChunks) /\ g.data \in Seq(1..MaxChunks)
      /\ produced[g.s] \in Nat /\ Taken(g.s) \in Seq(1..MaxChunks)
  <2>1. g.s \in Sessions /\ g.data \in Chunks
    BY FrameTypes
  <2> QED BY <2>1, TakenType DEF TypeOK, Chunks
<1>4. delivered'[g.s] = e /\ \A t \in Sessions : t # g.s => delivered'[t] = delivered[t]
  BY <1>1, <1>3 DEF TypeOK
<1>5. /\ Follows(d, 0, Len(d)) /\ Follows(g.data, Len(d), Got(g))
      /\ Follows(Taken(g.s), Got(g), produced[g.s]) /\ Got(g) = Len(d) + Len(g.data)
  BY <1>3, ChainParts DEF Held, Got
<1>6. /\ Len(e) = Len(d) + Len(g.data)
      /\ \A i \in 1..Len(d) + Len(g.data) :
            e[i] = IF i <= Len(d) THEN d[i] ELSE g.data[i - Len(d)]
  BY <1>3, ConcatProperties
<1>7. Len(d) \in Nat /\ Len(g.data) \in Nat /\ Len(Taken(g.s)) \in Nat
  BY <1>3
<1> HIDE DEF d, e
<1>8. Follows(e, 0, Len(e)) /\ Len(e) = Got(g) /\ Len(e) <= produced[g.s]
  <2>1. ASSUME NEW i \in 1..Len(e) PROVE e[i] = i
    <3>1. CASE i <= Len(d)
      BY <3>1, <2>1, <1>5, <1>6, <1>7 DEF Follows
    <3>2. CASE i > Len(d)
      <4>1. i - Len(d) \in 1..Len(g.data)
        BY <3>2, <2>1, <1>6, <1>7
      <4>2. g.data[i - Len(d)] = Len(d) + (i - Len(d))
        BY <4>1, <1>5 DEF Follows
      <4>3. e[i] = g.data[i - Len(d)]
        BY <3>2, <2>1, <1>6, <1>7
      <4> QED BY <4>2, <4>3, <2>1, <1>7
    <3> QED BY <3>1, <3>2, <1>7, <2>1
  <2>2. Len(e) = Got(g) /\ Len(e) \in Nat
    <3>1. \A m, n \in Nat : m + n \in Nat
      OBVIOUS
    <3> QED BY <1>5, <1>6, <1>7, <3>1, Zenon
  <2>3. Got(g) + Len(Taken(g.s)) = produced[g.s]
    BY <1>5 DEF Follows
  <2>4. Len(e) <= produced[g.s]
    BY <2>2, <2>3, <1>3, <1>7
  <2>5. \A i \in 1..Len(e) : e[i] = 0 + i
    BY <2>1, <2>2
  <2> QED BY <2>2, <2>4, <2>5 DEF Follows
<1>9. ASSUME NEW f \in frames' PROVE Held(f)'
  <2>1. f \in frames /\ f.s # g.s /\ f.s \in Sessions
    BY <1>1, GotTypes DEF FramesInv
  <2> QED BY <1>2, <1>4, <2>1, ChainParts DEF Held, Got
<1>10. ASSUME NEW t \in Sessions
       PROVE  /\ Follows(delivered'[t], 0, Len(delivered'[t])) /\ Len(delivered'[t]) <= produced'[t]
              /\ ~ended' /\ Unframed(t)' => Free(t)'
  <2>1. CASE t = g.s
    BY <2>1, <1>2, <1>4, <1>5, <1>8 DEF Free
  <2>2. CASE t # g.s
    <3>1. Unframed(t)' => Unframed(t)
      BY <2>2, <1>1 DEF Unframed
    <3> QED BY <2>2, <3>1, <1>2, <1>4, ChainParts DEF Free
  <2> QED BY <2>1, <2>2
<1>11. \A f \in frames' : Held(f)'
  BY <1>9
<1> QED BY <1>10, <1>11, ChainPartsNext

LEMMA NextChain == TypeOK /\ MapsInv /\ FramesInv /\ ChainInv /\ [Next]_vars => ChainInv'
<1> SUFFICES ASSUME TypeOK, MapsInv, FramesInv, ChainInv, [Next]_vars PROVE ChainInv'
  OBVIOUS
<1>1. ASSUME NEW s \in Sessions, ReadEnd(s) \/ ShellEnds(s) PROVE ChainInv'
  <2>1. /\ UNCHANGED <<produced, delivered, frames>> /\ ended' = ended
        /\ \A t \in Sessions : Taken(t)' = Taken(t)
    BY <1>1 DEF ReadEnd, ShellEnds, Taken, ptyVars, loopVars, history
  <2> QED BY <2>1, ChainKept
<1>2. ASSUME NEW s \in Sessions, StartSession(s) \/ CloseSession(s) \/ SendExit(s)
      PROVE  ChainInv'
  <2>1. /\ UNCHANGED <<produced, delivered, frames>> /\ ended' = ended
        /\ \A t \in Sessions : Taken(t)' = Taken(t)
    BY <1>2 DEF StartSession, CloseSession, SendExit, Taken, threadVars, ptyVars
  <2> QED BY <2>1, ChainKept
<1>3. CASE AgentEnds
  BY <1>3, ChainParts, ChainPartsNext DEF AgentEnds, history
<1>4. CASE TickBegins \/ TickEnds \/ UNCHANGED vars
  <2>1. /\ UNCHANGED <<produced, delivered, frames>> /\ ended' = ended
        /\ \A t \in Sessions : Taken(t)' = Taken(t)
    BY <1>4 DEF TickBegins, TickEnds, vars, Taken, threadVars, ptyVars, loopVars, history
  <2> QED BY <2>1, ChainKept
<1>5. CASE DrainExited
  <2>1. \A t \in Sessions : Taken(t)' = Taken(t)
    BY <1>5, Drained DEF DrainExited
  <2>2. UNCHANGED <<produced, delivered, frames>> /\ ended' = ended
    BY <1>5 DEF DrainExited, threadVars, history
  <2> QED BY <2>1, <2>2, ChainKept
<1> QED BY <1>1, <1>2, <1>3, <1>4, <1>5, Steps, ReadChain, FlushChain, SentChain DEF Reader

-----------------------------------------------------------------------------
(* The theorems *)

LEMMA InitInv == Init => IInv
<1> SUFFICES ASSUME Init PROVE IInv
  OBVIOUS
<1>1. <<>> \in Chunks /\ <<>> \in Seq(Nat) /\ <<>> \in Seq({"started", "stdout", "exited", "closed"})
  BY EmptyChunks
<1>2. TypeOK
  <2>1. 0 \in Nat /\ 0 \in 0..MaxChunks /\ 0 \in 0..MaxCloses
    BY AgentBounds
  <2> QED BY <1>1, <2>1 DEF Init, TypeOK
<1>3. MapsInv
  BY DEF Init, MapsInv
<1>4. FramesInv
  BY DEF Init, FramesInv
<1>5. ChainInv
  <2>1. \A s \in Sessions : Taken(s) = <<>>
    <3>1. <<>> \in Seq(1..MaxChunks)
      OBVIOUS
    <3>2. \A s \in Sessions : Taken(s) = <<>> \o <<>>
      BY DEF Init, Taken
    <3> QED BY <3>1, <3>2, ConcatEmptySeq
  <2> QED BY <2>1 DEF Init, ChainInv, Follows
<1> QED BY <1>2, <1>3, <1>4, <1>5 DEF IInv

LEMMA Invariance == Spec => []IInv
<1>1. IInv /\ [Next]_vars => IInv'
  BY NextTypes, NextMaps, NextFrames, NextChain DEF IInv
<1> QED BY <1>1, InitInv, PTL DEF Spec

\* The state of the agent is what its comments say, and a frame is never empty.
THEOREM TypeCorrect == Spec => []TypeOK
<1>1. IInv => TypeOK
  BY DEF IInv
<1> QED BY <1>1, Invariance, PTL

\* Between two ticks the loop's buffers and the manager's map name the same
\* sessions, whatever the drains of flush_pty_outputs and drain_exited found.
THEOREM MapsCorrect == Spec => []MapsAgree
<1>1. IInv => MapsAgree
  BY DEF IInv, MapsInv, MapsAgree, Buffers, TypeOK
<1> QED BY <1>1, Invariance, PTL

\* What the frames of a session have brought is a prefix of its output, in
\* order, and OutputBuffer's numbers have no gap: whichever way a chunk took.
THEOREM PrefixCorrect == Spec => []DeliveredIsPrefix
<1>1. IInv => DeliveredIsPrefix
  <2> SUFFICES ASSUME IInv, NEW s \in Sessions
               PROVE  /\ Len(delivered[s]) <= produced[s]
                      /\ \A i \in 1..Len(delivered[s]) : delivered[s][i] = i
                      /\ \A i \in 1..Len(numbers[s]) : numbers[s][i] = i
    BY DEF DeliveredIsPrefix
  <2>1. Follows(delivered[s], 0, Len(delivered[s])) /\ Len(delivered[s]) <= produced[s]
    BY DEF IInv, ChainInv
  <2>2. \A i \in 1..Len(delivered[s]) : delivered[s][i] = 0 + i
    BY <2>1 DEF Follows
  <2>3. \A i \in 1..Len(delivered[s]) : delivered[s][i] = i
    BY <2>2
  <2> QED BY <2>1, <2>3 DEF IInv, FramesInv
<1> QED BY <1>1, Invariance, PTL

\* The buffers do not change, nor do the reports.
LEMMA Stutters ==
    ASSUME TypeOK, ended' = ended, sent' = sent,
           \A s \in Sessions : next'[s] > 0 <=> next[s] > 0
    PROVE  UNCHANGED Abstract!avars
BY DEF Buffers, Abstract!avars

LEMMA StepsAbstract == IInv /\ [Next]_vars => [Abstract!Next]_(Abstract!avars)
<1> SUFFICES ASSUME IInv, [Next]_vars PROVE Abstract!Next \/ UNCHANGED Abstract!avars
  OBVIOUS
<1>1. TypeOK /\ MapsInv /\ FramesInv /\ next \in [Sessions -> Nat]
  BY DEF IInv, TypeOK
<1>2. ASSUME NEW s \in Sessions, Reader(s) \/ ShellEnds(s) PROVE UNCHANGED Abstract!avars
  BY <1>1, <1>2, Stutters DEF Reader, ReadChunk, ReadEnd, ShellEnds, loopVars, history
<1>3. CASE TickBegins \/ DrainExited \/ TickEnds \/ UNCHANGED vars
  BY <1>1, <1>3, Stutters DEF TickBegins, DrainExited, TickEnds, vars, loopVars, history
<1>4. ASSUME NEW s \in Sessions, FlushNext(s) PROVE UNCHANGED Abstract!avars
  <2>1. s \in sessions => next[s] > 0
    BY <1>1 DEF MapsInv
  <2>2. \A t \in Sessions : next'[t] > 0 <=> next[t] > 0
    <3>1. next' = next \/ (s \in sessions /\ next' = [next EXCEPT ![s] = @ + 1])
      <4>1. s \notin sessions => next' = next
        BY <1>4 DEF FlushNext
      <4>2. s \in sessions => next' = next \/ next' = [next EXCEPT ![s] = @ + 1]
        BY <1>4 DEF FlushNext
      <4> QED BY <4>1, <4>2
    <3> QED BY <1>1, <2>1, <3>1
  <2>3. ended' = ended /\ sent' = sent
    BY <1>4 DEF FlushNext, history
  <2> QED BY <1>1, <2>2, <2>3, Stutters
<1>5. ASSUME NEW s \in Sessions, StartSession(s) PROVE Abstract!Next
  <2>1. s \notin Buffers /\ Buffers' = Buffers \union {s}
    BY <1>1, <1>5 DEF StartSession, Buffers, FramesInv
  <2> QED BY <1>5, <2>1 DEF StartSession, Send, Abstract!Next, Abstract!Start, Abstract!Report
<1>6. ASSUME NEW s \in Sessions, CloseSession(s) PROVE Abstract!Next
  <2>1. Buffers' = Buffers \ {s}
    BY <1>1, <1>6 DEF CloseSession, Buffers
  <2> QED BY <1>6, <2>1 DEF CloseSession, Send, Abstract!Next, Abstract!Close, Abstract!Report
<1>7. ASSUME NEW s \in Sessions, SendExit(s) PROVE Abstract!Next
  <2>1. s \in Buffers /\ Buffers' = Buffers \ {s}
    BY <1>1, <1>7 DEF SendExit, Buffers, MapsInv
  <2> QED BY <1>7, <2>1 DEF SendExit, Send, Abstract!Next, Abstract!Exit, Abstract!Report
<1>8. CASE SendFrame
  <2>1. PICK f \in frames : Send(f.s, "stdout")
    BY <1>8 DEF SendFrame
  <2>2. f.s \in Sessions /\ f.seq \in Nat /\ next[f.s] = f.seq + 1
    BY <1>1, FrameTypes DEF FramesInv
  <2>3. f.s \in Buffers /\ Buffers' = Buffers
    BY <1>8, <2>2 DEF SendFrame, Buffers
  <2>4. ~ended /\ ended' = ended
    BY <1>8 DEF SendFrame
  <2> QED BY <2>1, <2>2, <2>3, <2>4 DEF Send, Abstract!Next, Abstract!Output, Abstract!Report
<1>9. CASE ~ended /\ AgentEnds
  <2>1. Buffers' = {}
    BY <1>9 DEF AgentEnds, Buffers
  <2> QED BY <1>9, <2>1 DEF AgentEnds, history, Abstract!Next, Abstract!End
<1> QED BY <1>2, <1>3, <1>4, <1>5, <1>6, <1>7, <1>8, <1>9, Steps

\* The control loop with its threads, drains and ticks reports of each session
\* as AgentShells promises: a start first, output only while the shell is kept,
\* and every end once.
THEOREM ShellsCorrect == Spec => ImplementsShells
<1>1. Init => Abstract!Init
  BY DEF Init, Abstract!Init, Buffers
<1> QED BY <1>1, StepsAbstract, Invariance, PTL DEF Spec, ImplementsShells, Abstract!Spec

=============================================================================
