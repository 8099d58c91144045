--------------------------- MODULE SessionOutput ---------------------------
(***************************************************************************)
(* The output of one session on its way to the browsers: the server's      *)
(* handling of stdout frames (router.go: persistOutputChunk, hub.go:       *)
(* FromAgent), the list of persisted output (handleSessionOutput), and the *)
(* panes that show it (TerminalPane.tsx).                                  *)
(*                                                                         *)
(* A frame is its sequence number; the agent numbers the frames of a       *)
(* session 1, 2, 3... (module AgentPty) and its connection's handler takes *)
(* them one at a time.  A pane is one mounted TerminalPane: it fetches the *)
(* history over HTTP and, at the same time, opens a socket and subscribes. *)
(*                                                                         *)
(* Grain.  A pane's script runs from one await or event to the next in one *)
(* step.  In the server each statement, each lock-protected call and each  *)
(* send is one step, except that a chunk's file is written together with   *)
(* its row: nobody looks for the file of a row that is not there.          *)
(***************************************************************************)
EXTENDS Naturals, Sequences, Functions, FiniteSetsExt

CONSTANTS
    Panes,          \* mounted panes of the session, in one browser or several
    MaxSeq,         \* bound: frames of the session
    PersistMayFail  \* may the writing of a chunk fail?

ASSUME OutputBounds == MaxSeq \in Nat /\ PersistMayFail \in BOOLEAN

VARIABLES
    \* the agent connection's handler: the frame it has in hand or handled
    \* last, its place, and the subscribers it has still to send it to
    seq, at, targets,
    rows,       \* table terminal_output_chunks with its files
    subs,       \* Hub.webSubscribers of the session
    sock,       \* the socket of a pane
    inbox,      \* frames on their way to a pane
    \* the pane: its place, the chunks it has still to write (in the order of
    \* their numbers), pendingStdout, restoredSeq, and what it has written on
    \* the terminal, in order
    phase, hist, pend, restored, screen,
    \* history: the rows of the pane's list, the first frame whose broadcast met
    \* the pane's subscription, and the frames that it was not sent because
    \* another subscriber failed
    listed, first, skipped

handlerVars == <<seq, at, targets>>
hubVars     == <<subs, sock, inbox>>
paneVars    == <<phase, hist, pend, restored, screen>>
ghostVars   == <<listed, first, skipped>>
vars == <<handlerVars, rows, hubVars, paneVars, ghostVars>>

\* "fetch": waiting for the list; "answered": the answer is on its way;
\* "history" and "pending": waiting for the terminal to take a chunk or a
\* pending frame; "live": frames are written as they come.
Phases == {"off", "fetch", "answered", "history", "pending", "live", "closed"}
Mounted(p) == phase[p] \notin {"off", "closed"}
Restoring(p) == phase[p] \in {"fetch", "answered", "history"}

Init ==
    /\ seq = 0 /\ at = "idle" /\ targets = {}
    /\ rows = {}
    /\ subs = {}
    /\ sock = [p \in Panes |-> "none"]
    /\ inbox = [p \in Panes |-> <<>>]
    /\ phase = [p \in Panes |-> "off"]
    /\ hist = [p \in Panes |-> {}]
    /\ pend = [p \in Panes |-> <<>>]
    /\ restored = [p \in Panes |-> 0]
    /\ screen = [p \in Panes |-> <<>>]
    /\ listed = [p \in Panes |-> {}]
    /\ first = [p \in Panes |-> MaxSeq + 1]
    /\ skipped = [p \in Panes |-> {}]

-----------------------------------------------------------------------------
(* The server handles a stdout frame *)

\* handleAgentEnvelope receives the next frame of the session.
FrameArrives ==
    /\ at = "idle" /\ seq < MaxSeq
    /\ seq' = seq + 1
    /\ at' = "persist"
    /\ UNCHANGED <<targets, rows, hubVars, paneVars, ghostVars>>

\* persistOutputChunk: the file and the row, or neither when the write fails;
\* the frame is broadcast all the same.
Persist ==
    /\ at = "persist"
    /\ \/ rows' = rows \union {seq}
       \/ PersistMayFail /\ UNCHANGED rows
    /\ at' = "broadcast"
    /\ UNCHANGED <<seq, targets, hubVars, paneVars, ghostVars>>

\* Hub.FromAgent takes the subscribers of the moment ...
TakeSubscribers ==
    /\ at = "broadcast"
    /\ targets' = subs
    /\ at' = IF subs = {} THEN "idle" ELSE "send"
    /\ UNCHANGED <<seq, rows, hubVars, paneVars, ghostVars>>

SentTo(done) ==
    /\ targets' = targets \ done
    /\ at' = IF targets' = {} THEN "idle" ELSE "send"
    /\ UNCHANGED <<seq, rows, subs, sock, paneVars, listed, first>>

\* ... and sends to one after the other, in any order (a Go map).  A send on a
\* broken socket may be swallowed; if it fails FromAgent returns and the
\* subscribers that are left get nothing.
SendFrame(p) ==
    /\ at = "send" /\ p \in targets
    /\ \/ /\ sock[p] = "open"
          /\ inbox' = [inbox EXCEPT ![p] = Append(@, seq)]
          /\ SentTo({p})
          /\ UNCHANGED skipped
       \/ /\ sock[p] = "broken"
          /\ SentTo({p})
          /\ UNCHANGED <<inbox, skipped>>
       \/ /\ sock[p] = "broken"
          /\ SentTo(targets)
          /\ skipped' = [q \in Panes |-> IF q \in targets \ {p} THEN skipped[q] \union {seq}
                                                              ELSE skipped[q]]
          /\ UNCHANGED inbox

-----------------------------------------------------------------------------
(* Sockets of the web *)

\* The socket opens, the pane subscribes, and the server adds it: SubscribeWeb.
Subscribe(p) ==
    /\ Mounted(p) /\ sock[p] = "connecting"
    /\ sock' = [sock EXCEPT ![p] = "open"]
    /\ subs' = subs \union {p}
    /\ first' = [first EXCEPT ![p] = IF at \in {"persist", "broadcast"} THEN seq ELSE seq + 1]
    /\ UNCHANGED <<handlerVars, rows, inbox, paneVars, listed, skipped>>

\* The network drops the socket and what is on its way.  The pane says so and
\* does not open another one.
SocketBreaks(p) ==
    /\ sock[p] \in {"connecting", "open"}
    /\ sock' = [sock EXCEPT ![p] = "broken"]
    /\ inbox' = [inbox EXCEPT ![p] = <<>>]
    /\ UNCHANGED <<handlerVars, rows, subs, paneVars, ghostVars>>

\* The socket's handler in the server sees the break: UnsubscribePeer.
Unsubscribe(p) ==
    /\ sock[p] = "broken" /\ p \in subs
    /\ subs' = subs \ {p}
    /\ UNCHANGED <<handlerVars, rows, sock, inbox, paneVars, ghostVars>>

-----------------------------------------------------------------------------
(* The pane *)

\* The effect runs: the history is requested and the socket created.
Mount(p) ==
    /\ phase[p] = "off"
    /\ phase' = [phase EXCEPT ![p] = "fetch"]
    /\ sock' = [sock EXCEPT ![p] = "connecting"]
    /\ UNCHANGED <<handlerVars, rows, subs, inbox, hist, pend, restored, screen, ghostVars>>

\* The page is left or another session chosen: the socket is closed, the
\* terminal disposed, and nothing that comes later is written.
Unmount(p) ==
    /\ Mounted(p)
    /\ phase' = [phase EXCEPT ![p] = "closed"]
    /\ sock' = [sock EXCEPT ![p] = "broken"]
    /\ inbox' = [inbox EXCEPT ![p] = <<>>]
    /\ hist' = [hist EXCEPT ![p] = {}]
    /\ pend' = [pend EXCEPT ![p] = <<>>]
    /\ restored' = [restored EXCEPT ![p] = 0]
    /\ screen' = [screen EXCEPT ![p] = <<>>]
    /\ listed' = [listed EXCEPT ![p] = {}]
    /\ first' = [first EXCEPT ![p] = MaxSeq + 1]
    /\ skipped' = [skipped EXCEPT ![p] = {}]
    /\ UNCHANGED <<handlerVars, rows, subs>>

\* handleSessionOutput: the rows in order of their numbers, with their files.
ServerLists(p) ==
    /\ phase[p] = "fetch"
    /\ phase' = [phase EXCEPT ![p] = "answered"]
    /\ hist' = [hist EXCEPT ![p] = rows]
    /\ listed' = [listed EXCEPT ![p] = rows]
    /\ UNCHANGED <<handlerVars, rows, hubVars, pend, restored, screen, first, skipped>>

Writes(p, n) == screen' = [screen EXCEPT ![p] = Append(@, n)]

\* Slips: pending frames are all written; or none of them.
FreshAll(frames, r) == frames
FreshNone(frames, r) == <<>>

\* The pending frames from the first that is newer than restoredSeq: the
\* numbers increase, so the loop skips the ones before it and no other.
Fresh(frames, r) ==
    LET newer == {i \in 1..Len(frames) : frames[i] > r}
    IN IF newer = {} THEN <<>> ELSE SubSeq(frames, Min(newer), Len(frames))

\* The loop of restoreOutput's finally, from frames on, until its next await.
Flush(p, frames, r) ==
    LET fresh == Fresh(frames, r)
    IN  /\ restored' = [restored EXCEPT ![p] = r]
        /\ pend' = [pend EXCEPT ![p] = fresh]
        /\ IF fresh = <<>>
           THEN phase' = [phase EXCEPT ![p] = "live"] /\ UNCHANGED screen
           ELSE phase' = [phase EXCEPT ![p] = "pending"] /\ Writes(p, Head(fresh))

\* The loop over the chunks of the history, from chunks on, until its next await.
Restore(p, chunks, r) ==
    /\ hist' = [hist EXCEPT ![p] = chunks]
    /\ IF chunks = {}
       THEN Flush(p, pend[p], r)
       ELSE /\ phase' = [phase EXCEPT ![p] = "history"]
            /\ restored' = [restored EXCEPT ![p] = r]
            /\ Writes(p, Min(chunks))
            /\ UNCHANGED pend

PaneOnly == UNCHANGED <<handlerVars, rows, hubVars, ghostVars>>

\* The list arrives ...
HistoryArrives(p) == phase[p] = "answered" /\ Restore(p, hist[p], 0) /\ PaneOnly

\* ... or the request fails, and the pane goes on without history.
HistoryFails(p) ==
    /\ phase[p] \in {"fetch", "answered"}
    /\ Restore(p, {}, 0)
    /\ listed' = [listed EXCEPT ![p] = {}]
    /\ UNCHANGED <<handlerVars, rows, hubVars, first, skipped>>

\* Slip: one more than the chunk's last number.
AfterChunkNext(r, n) == IF r > n THEN r ELSE n + 1

AfterChunk(r, n) == IF r > n THEN r ELSE n

\* The terminal has taken a chunk of the history.
ChunkTaken(p) ==
    /\ phase[p] = "history"
    /\ LET n == Min(hist[p]) IN Restore(p, hist[p] \ {n}, AfterChunk(restored[p], n))
    /\ PaneOnly

\* The terminal has taken a pending frame: restoredSeq is set to its number,
\* also when a frame that came in the meantime has set it higher.
FrameTaken(p) ==
    /\ phase[p] = "pending"
    /\ Flush(p, Tail(pend[p]), Head(pend[p]))
    /\ UNCHANGED hist
    /\ PaneOnly

\* A frame comes on the socket: it is kept while the history is restored, and
\* written at once otherwise, also while pending frames are still being written.
Message(p) ==
    /\ Mounted(p) /\ inbox[p] # <<>>
    /\ LET n == Head(inbox[p]) IN
       \/ /\ Restoring(p)
          /\ pend' = [pend EXCEPT ![p] = Append(@, n)]
          /\ UNCHANGED <<restored, screen>>
       \/ /\ ~Restoring(p) /\ n > restored[p]
          /\ Writes(p, n)
          /\ restored' = [restored EXCEPT ![p] = n]
          /\ UNCHANGED pend
       \/ /\ ~Restoring(p) /\ n <= restored[p]
          /\ UNCHANGED <<pend, restored, screen>>
    /\ inbox' = [inbox EXCEPT ![p] = Tail(@)]
    /\ UNCHANGED <<handlerVars, rows, subs, sock, phase, hist, ghostVars>>

-----------------------------------------------------------------------------
Handle == Persist \/ TakeSubscribers \/ \E p \in Panes : SendFrame(p)

Script(p) == \/ HistoryArrives(p) \/ HistoryFails(p) \/ ChunkTaken(p)
             \/ FrameTaken(p) \/ Message(p)

Next == \/ FrameArrives \/ Handle
        \/ \E p \in Panes : \/ Mount(p) \/ Unmount(p) \/ Script(p) \/ ServerLists(p)
                            \/ Subscribe(p) \/ SocketBreaks(p) \/ Unsubscribe(p)

Spec == Init /\ [][Next]_vars

-----------------------------------------------------------------------------
(* Properties *)

Frames == 1..MaxSeq

TypeOK ==
    /\ seq \in 0..MaxSeq
    /\ at \in {"idle", "persist", "broadcast", "send"}
    /\ targets \subseteq Panes /\ subs \subseteq Panes
    /\ rows \subseteq Frames
    /\ sock \in [Panes -> {"none", "connecting", "open", "broken"}]
    /\ phase \in [Panes -> Phases]
    /\ restored \in [Panes -> 0..MaxSeq]
    /\ inbox \in [Panes -> Seq(Frames)] /\ pend \in [Panes -> Seq(Frames)]
    /\ screen \in [Panes -> Seq(Frames)]
    /\ hist \in [Panes -> SUBSET Frames] /\ listed \in [Panes -> SUBSET Frames]
    /\ first \in [Panes -> 1..(MaxSeq + 1)]
    /\ skipped \in [Panes -> SUBSET Frames]

\* No frame is written on a terminal twice, though it may reach the pane both
\* in the history and over the socket, and though restoredSeq can go back when
\* frames arrive between the awaits of the pending loop.
NoRepeat == \A p \in Panes : IsInjective(screen[p])

\* A frame that was persisted after the pane's list and broadcast before its
\* subscription reaches it on neither way.
Gap(p) == {n \in Frames \ listed[p] : n < first[p]}

\* A pane that has caught up has written every persisted frame, but for those
\* of that gap and those that another subscriber's failure withheld: whatever
\* the order of list, subscription, broadcast and callbacks, there is no third
\* way to lose a frame.
NothingElseMissed ==
    \A p \in Panes :
        phase[p] = "live" /\ sock[p] = "open" /\ inbox[p] = <<>> /\ at = "idle"
            => rows \subseteq Range(screen[p]) \union Gap(p) \union skipped[p]

-----------------------------------------------------------------------------
(* What the documentation says and the code does not do *)

\* README, features: terminal output is synchronised.  So a terminal shows
\* the frames in the order in which the shell wrote them.
OutputInOrder ==
    \A p \in Panes : \A i, j \in 1..Len(screen[p]) : i < j => screen[p][i] < screen[p][j]
=============================================================================
