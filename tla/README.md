# A TLA+ model of vibe-terminal

vibe-terminal gives a browser terminals on remote machines. A Go server keeps
the users, devices and sessions in SQLite and relays messages; an agent written
in Rust runs on every device, connects to the server with a websocket, and owns
the shells; a React page shows the terminals. This directory models the parts
in which several of these act at once, checks them with TLC on small instances,
and proves with TLAPS, for any number of devices, sessions, connections,
requests, tokens, files and browsers, what the session routing, the shells of an
agent, their output, two-factor authentication, the failure limiter with its locks,
registration with its tokens, and the file operations guarantee.

Source paths are relative to `src/`; `router.go` and `router_2fa.go` are in
`server/internal/httpapi`, `store.go` in `server/internal/store`, `hub.go` in
`server/internal/ws`, `service.go` (unless said otherwise) in
`server/internal/files`, and the `.rs` files in `agent/src`.

## 1. Inventory

| Component | State | Operations | Talks to |
|---|---|---|---|
| Session control (`router.go`) | rows of `terminal_sessions` (SQLite) | create, close, rename, list; `agent_hello`, `sync_sessions`, `session_started`, `stdout`, `session_exit`; deferred clean-up of a connection | Hub, Presence, store, agents |
| Hub (`hub.go`), Presence (`devices/service.go`) | `agents`, `sessionDevices`, `webSubscribers`; `online`, capabilities; memory only, each call under a lock | attach, detach, bind, subscribe, unsubscribe, send to a device, a session's agent, a session's browsers | both websocket handlers, HTTP handlers |
| Agent control loop (`client.rs`, `main.rs`) | `buffers`, `registry`, `uploads` of one connection | start, close, stdin, resize, output tick, file requests; ends with its socket | server, PTY manager |
| PTY manager (`pty_manager.rs`, `buffer.rs`) | `sessions`, the channel of the reader threads, `pending_output`, `pending_exits`, numbers of frames | start, write, resize, kill, read_available, drain_exited | shells, reader threads |
| Output storage (`terminal/service.go`, `store.go`) | chunk files and `terminal_output_chunks` | write a chunk, list chunks | handler of stdout, history request |
| Terminal pane (`TerminalPane.tsx`) | `restoring`, `restoredSeq`, `pendingStdout`, the terminal | mount, history, frames, unmount | HTTP, web socket |
| File service (`service.go`) | `pending` requests, `active` slots | list, download, upload, agent responses | agent, HTTP client |
| File handlers of the agent (`fs.rs`) | `uploads`, temporary files | list, read, open, write, close, stale clean-up | file system |
| Login (`router.go`, `router_2fa.go`, `auth/challenge.go`) | `login_challenges` in SQLite, signed tokens | password, second factor | store, limiters |
| Failure limiters (`auth/limiter.go`) and management locks (`router_2fa.go:348-373`) | failures, window and block of each key in memory; 256 mutexes | allow, record a failure, clear, evict; lock and unlock | login and management requests |
| Two-factor settings (`router_2fa.go`, `store.go`) | `user_two_factor` with configuration and last TOTP counter, `two_factor_recovery_codes` | setup, enable, recovery codes, disable; each reads, checks, then compares and sets | store, management limiter and locks |
| Agent tokens, registration (`router.go`, `store.go`, `client.rs`, `config.rs`) | `agent_tokens`, `devices`; `agent.json` on each machine | create, list, revoke, delete; register: use the token, insert the device, write the file | page, machines |
| Token list of the page (`App.tsx`) | `tokens`, `loading` | load, create, revoke, delete, each with an answer that comes at any time | HTTP |
| Tabs of the page (`App.tsx`, `TerminalTabs.tsx`) | sessions as loaded, `localSessions`, active tab, its subscription | load, create, close, rename a device, choose a tab, `session_state` | HTTP, web socket |
| Other page state (panels) | directory lists, login and security forms | requests, guarded by generation counters | HTTP |
| Snippets, names, audit log, configuration, static files, i18n | rows or nothing | single statements | - |

What is hard, component by component:

* **Session control.** The handler of an agent connection, the deferred
  clean-up of the previous connection of the same device, and HTTP requests
  interleave at every SQL statement; status changes are read-then-write or
  list-then-mark; a restart of the server loses all routing. Correct means: a
  shell only on the owner's machine, no route to a dead connection, rows that
  agree with the agent when nothing is in flight, and no row that stays active
  with nothing behind it.
* **Agent.** Reader threads send output and exits on one channel, which two places
  drain for all shells at once, and errors of one shell end the loop for all. Correct means: every session's
  output once and in order, its exit once.
* **Output to browsers.** History and live frames reach a pane on two ways that
  nobody synchronises. Correct means: each frame once, none lost.
* **Files.** Timeouts race answers, the server never aborts an upload it gives
  up, the file system changes. Correct means: no part of a file ever takes the
  place of the file, reported results are true.
* **Login and two-factor.** Concurrent requests must consume a challenge, a
  TOTP counter or a recovery code once, and what one has checked may be gone
  when it commits. Correct means: each credential makes one success, nothing
  is enabled unproved, nothing that is enabled is lost but by disable.
* **Registration.** A token is used, the device inserted and the file written
  in three steps on two machines, any of which may fail or lose its answer, and
  is then tried again; the page revokes and deletes tokens meanwhile. Correct
  means: one device of a token at most, and no credential on a machine for a
  device that does not exist.
* **Lists of the page.** Answers replace or amend a list in the order in which
  they come. Correct means: what is shown as over is over, and the list is old
  only for reasons that can be named.
* **Limiter and locks.** Attempts in flight were allowed before the block;
  windows and blocks end at different times; the table is full. Correct means:
  a bound on failures that no interleaving exceeds, blocks that last, locks
  that nobody waits for in a circle.

## 2. Modules

| Module | Models | Runs |
|---|---|---|
| `SessionControl` | session control, Hub and Presence, the agent as seen from the server, restarts | `sc_*` |
| `SessionLife` | abstract: what the control plane promises about the life of a session | refined by `SessionControl` in `sc_overlap` |
| `SessionControlProofs` | theorems about `SessionControl` | - |
| `SessionSettleProofs` | the agreement of rows and shells (`SettledAgrees`), with its invariant; the refinement of `SessionLife`; `EndedStays` | - |
| `AgentPty` | the agent's control loop with the PTY manager and its threads | `agent*` |
| `AgentShells` | abstract: what an agent promises about its sessions | refined by `AgentPty` in `agent` |
| `AgentPtyProofs` | theorems about `AgentPty`, the refinement among them | - |
| `SessionOutput` | frames from the handler of stdout to the panes | `output*` |
| `SessionOutputProofs` | theorems about `SessionOutput` | - |
| `FileTransfer` | file operations, server and agent | `files` |
| `WholeFiles` | abstract: what file operations promise about the file at a path | refined by `FileTransfer` in `files` |
| `FileTransferProofs` | theorems about `FileTransfer`, the refinement among them | - |
| `TwoFactor` | login challenges, second factors and the two-factor settings of a user | `two_factor` |
| `CodeLedger` | abstract: what two-factor authentication promises about codes, challenges and the configuration | refined by `TwoFactor` in `two_factor` |
| `TwoFactorProofs` | theorems about `TwoFactor`, the refinement among them | - |
| `FailureLimit` | the failure limiter under concurrent attempts, and the management locks | `limit` |
| `FailureLimitProofs` | theorems about `FailureLimit` | - |
| `AgentTokens` | the table of tokens, registrations on machines, the token list of the page | `tokens` |
| `TokenLedger` | abstract: what registration tokens promise | refined by `AgentTokens` in `tokens` |
| `AgentTokensProofs` | theorems about `AgentTokens` | - |
| `PageTabs` | the tabs of the page, the requests that change them and the states that their sockets report | `page_closed` |
| `MC...` | model values, sets and symmetry for TLC | |

Operators introduced with the comment *Slip* are mistakes that somebody could
make in the operator that follows them. Nothing uses them; they document which
property notices the mistake, and `PROJECT.json` lists the pairs ("mutants").

### SessionControl and SessionLife

`status` and `owner` are the table; `route`, `agents`, `online` are the Hub's
and Presence's maps, emptied by `ServerRestart`. A connection `c` is one
websocket with the agent process behind it (the agent connects once and ends
with its socket, `client.rs:93-119`). `pc[c]` is the place of its handler in
`handleAgentWebSocket` (`router.go:1006-1060`), with `todo[c]` the rows it has
listed and not yet marked, `cur[c]` the message it handles, `rd[c]` the status
it read for it. `creq[s]` and `clreq[s]` are the places of a create and a close
request. `up[c]` and `down[c]` are the messages on the socket, `ptys[c]` the
agent's shells.

Every SQL statement, every lock-protected call and every send is an action of
its own, so all interleavings of handlers are explored. `CreateCheck`,
`CreateInsert`, `CreateBind`, `CreateSend` or `CreateSendFails`,
`CreateMarkLost` are the steps of `handleCreateSession`; `ServerHello`,
`ServerAttach`, `ServerSyncList`, `ServerSyncMark`, `ServerSyncDone` those of a
hello; `CleanUpList`, `CleanUpMark`, `CleanUpMarked`, `CleanUpOffline`,
`CleanUpDetach` those of the deferred function. The lookup and the send of
`Hub.FromWeb` are one action: between the two a peer can only disappear, and a
send to a broken socket is one of its outcomes anyway.

`Faulty` are the connections whose agents may crash and whose links may break; a
restart of the server breaks every link. One agent process runs per device
(`AgentConnect` asks that no other is alive), but a new connection
may come while the handlers of older ones are anywhere in their code: nothing in the
server waits for them. A message that a dead handler or agent has not read goes with it.

`Settled` is what quiet means: the connection is live, its handler waits for a
message and is the only one of its device, and nothing about the session is under
way. `SettledAgrees` has two sides. That a row says neither starting, nor running
without a shell, holds on any such connection. That a shell has a row that says
running holds on an attached one only: the late clean-up of an older connection may
have detached this one and marked the rows of its shells lost, which `sc_stale`
shows. `CloseReaps` has the same exception (`CutOff`), and `ConnectedIsReachable`
speaks of agents whose hello comes after the older handlers have gone.

The status of a closed row may be set to closed again; the bounds are one close
request and one close message in flight for a session, and no reports in flight when
a closed row is closed once more (`CloseMark`). A hello lists no session and no
`sync_sessions` is sent, since the registry of a new agent process is empty
(`main.rs`, `registry.rs`), so the first loop of `syncAgentSessions` has nothing to do.

Left out: pid and last sequence number of a row, titles, heartbeats, the
error replies to undecodable messages. Store statements succeed.

`begun` is a history variable: the sessions for which `PtyManager::start` has ever
spawned a shell. No guard reads it; the abstract specification needs it.

`SessionLife` has neither connections that come and go in the server nor routes,
requests or messages: a row is inserted once, with an owner that it keeps (Insert); a
shell is spawned for a session once, at an agent of the owner's device (Spawn); shells
end (End); and the row may say something else at any time, but running only if the
shell was spawned, and never starting again (Write). It does not say that a row is
true at a given moment, which only `SettledAgrees` can, and it lets a row change
after it says closed, for the code does (`sc_closed`). The mapping is `Life == INSTANCE
SessionLife WITH row <- status, shells <- [s \in Sessions |-> ShellsOf(s)]`, where
`ShellsOf(s)` are the connections whose agents have a shell of s.

### AgentPty and AgentShells

The reader thread of a shell (`ReadChunk`, `ReadEnd`), the shell's end
(`ShellEnds`), and the select loop: messages (`StartSession`, `CloseSession`,
`InputFails`) and the tick, which goes session by session through
`FlushNext`, `SendFrame`, `DrainExited`, `SendExit`, `TickEnds`. A chunk is
its number; that `from_utf8_lossy` of each read (`pty_manager.rs:80`) damages a
character which two reads share is left out. `Taken` and `Drain` are what
`read_available` takes from the pending list and the shared channel.

Both drains empty the channel, so between two drains only the order of the
events of one session can be told: `chan[s]` has its Output events, `quit` the
sessions of the Exited events. `BTreeMap` and `BTreeSet` give the sessions an
order that no property is about; `keys`, `frames` and `exits` are sets, and any
order is explored. `sent[s]` is the kinds of the reports of a session,
`numbers[s]` and `delivered[s]` what its stdout frames carried: history, for
the properties only.

`AgentShells` has the sessions that the agent keeps a shell for (`live`) and the
reports sent of each (`log`); its steps are Start, Output, Exit, Close and End.
The mapping is `Abstract == INSTANCE AgentShells WITH live <- Buffers,
log <- sent`.

### SessionOutput

A frame is its sequence number. `FrameArrives`, `Persist`, `TakeSubscribers`
and `SendFrame` are the handling of one stdout frame; `ServerLists` is the
history request. A pane is in `fetch`, `answered`, `history`, `pending` or
`live` according to the await that its script waits at, and `Restore` and
`Flush` are the code between two awaits. `screen[p]` is what the terminal was
given, in order; `hist[p]` the chunks it has still to write, lowest number first;
`listed`, `first` and `skipped` only record history for `NothingElseMissed`.
With two panes, one can fail while the other receives.

### FileTransfer and WholeFiles

An operation is at the round trip that it waits for (`at[o]`); `pend` is
`Service.pending`. Timers and cancelled requests are the action `TimesOut`,
possible at any wait, also when the answer is already in the channel, since
select picks any ready case. A file is the pair (writer, length), so that a
file which is not what somebody sent as a whole can be seen. Time is not
modelled: an upload may be stale whenever it is open. Requests, sizes and
bodies come from the constant `Requests`.

`raced` records for which operations the path was free at their begin or has
changed since. The agent looks at the path when an upload opens (`MayOpen`,
`fs.rs:239-244`) and renames at the close without looking again, so a file that
appears in between is replaced also without overwrite; `OldFileKept` therefore
speaks of the uploads outside `raced`: a file that was there all the time is
kept, whichever opens, closes, errors and retries of others come in between.

`WholeFiles` has neither messages nor chunks nor an agent: an operation is asked
for (Begin) and told of (Tell), an upload becomes the file in one step (Replace),
and programs on the device change the file (Change). Replace asks for a whole
body, for overwrite or a path that was free or has changed, and that the upload has
neither become the file before nor been reported as failed; it may come after an
"unknown", since nothing calls back a close that is on its way. Tell reports "ok"
of an upload only after Replace and "failed" only without it. The mapping is
`Files == INSTANCE WholeFiles WITH ...`: `asked` are the requests, `told` the
results, `replaced` and `loose` are `committed` and `raced`. `OldFileKept` is a part
of it, and no run checks it separately.

### TwoFactor and CodeLedger

`setting`, `codes` and `row` are the three tables for one user; all queries are
by user. A login (`login[l]`) reads the setting, then stores its challenge; a
second factor (`second[s]`) is verified against the setting it reads, then
consumed in one transaction; a management request (`manage[m]`) reads and
checks, then commits. So `LoginReads`, `SecondVerifies`, `SetupReads`,
`EnableReads` and `RotateReads` are one half of a handler and `LoginAsks`,
`SecondConsumes`, `SetupSaves`, `EnableCommits` and `RotateCommits` the other,
with everything else possible between the halves; `Disable` reads nothing that
it uses later. Every transaction may also fail and change nothing. A request
keeps the time it read at its start, as the handlers do.

`Unlocked` is the effect of the striped locks on requests of one user: they
exclude one another from check to commit, but setup unlocks before it reads
(`router_2fa.go:74-80`). `OneServer` says whether the requests share the locks of
one process; the theorems hold without them, so correctness rests on the
compare-and-set statements alone.

Random identifiers are names: a configuration is named by the setup request
that made it. A TOTP code is a configuration and a counter, a recovery code a
set and a number. `last` is -1 for no counter.

`CodeLedger` knows one step for a login, an enable and a replacement, in which a code
is taken that nobody has taken before; it has no requests under way, no expiry and
no counter in a row, but all codes that were taken. The mapping is `Codes ==
INSTANCE CodeLedger WITH ...`: codes are taken by the second factors that are
logged in and by the management requests that have changed something
(`CodesTaken`), a challenge is open while its row is (`OpenRows`), and a setup, with
everything else that reads or only refuses, stutters.

### FailureLimit

`entries` is the table of one limiter, `req[r]` an attempt: the locks it holds
and the key it asks, records or clears next. Each call of the limiter is a step
(`Allow`, `Fail`, `Clear`), so that attempts of the same user or source overlap
between their three keys, and between the question and the failure. `kind`
distinguishes the limiters of logins and of second factors, which nothing
guards ("login"), from that of the management requests ("management"), whose
attempts hold their locks
from before the first `Allow` to the last record. `Recorded` is `RecordFailure`
with its order: the key is taken out, room is made, then it is put back.
`Evicted` leaves open which of several keys that were seen at the same time
goes first, as the iteration over a map does.

### AgentTokens and TokenLedger

`table[t]` is the row of token t (used, revoked), or says that there is none yet
or none any more. An attempt (`reg[a]`) is a run of `vibe-agent register`:
`Register` sends, `UseToken` is the transaction of `UseAgentTokenByHash`,
`CreateDevice` the insert with its failure (`DeviceFails`: the token stays
used), then the answer is lost or comes and the file is written or left broken
(`config.rs:29` truncates it first). `config[m]` is the file of the machine. An
expired token is one of the reasons for which its use fails.

The page has requests (`ask[q]`) of four kinds. `Handles...` is the server's
side, with the check and the delete of a token as two steps (`HandlesDelete`,
`DeletesRow`), the `Gets...` actions are what `useAgentTokenState` does with an
answer. `behind` and the flag `stale` of a request record the events after
which the list may differ from the table, for `NothingElseStale`.

`TokenLedger` has the tokens that were issued, those that are open, who took
each and which registrations were enrolled. The mapping is `Ledger == INSTANCE
TokenLedger WITH ...`: a token is open if its row is fresh.

### PageTabs

`loaded` are the sessions as they were loaded on entry, `tabs` the list that the
page changes (`localSessions`), `active` the tab whose pane is mounted. `Shows`
is every change of the tabs with the effect that keeps the active tab among the
visible ones; `Activate` mounts a pane, which subscribes: the server reads the
status (`SubscribeReads`), subscribes (`Subscribes`) and answers. The rows change
by an agent as `SessionControl` says; one page and one device are modelled.

## 3. What the runs check

| Run | Instance | Shows |
|---|---|---|
| `sc_overlap` | 1 device, 1 session, 2 connections that overlap, one of them faulty, 1 server restart, an agent adds output to an empty queue only, fairness | `NoDeadPeer`, `OnlineHasHandler`, `SettledAgrees`; refinement of `SessionLife`; `EndedStays`; `ZombiesResolved`, `CloseReaps`, `ConnectedIsReachable` |
| `agent` | 2 sessions, 2 chunks each, failing writes and starts, fairness | `MapsAgree`, `DeliveredIsPrefix`; `OutputArrives`, `ExitArrives`; refinement of `AgentShells` |
| `output` | 2 panes, 3 frames, persisting may fail, sockets break | `NoRepeat`, `NothingElseMissed` |
| `files` | 2 operations of 5 kinds, chunk of 2 bytes, 1 change of the file, 1 end of the agent | `ResultIsTrue`; `TempsGo`; refinement of `WholeFiles` |
| `two_factor` | 2 logins, 2 second factors, 3 management requests, 1 recovery code in a set, 2 periods of time, one server | `CodeOnce`, `CodesAreCurrent`, `EnabledIsProved`, `OnlyDisableTurnsOff`; refinement of `CodeLedger` |
| `limit` | 3 attempts, 2 users, 2 sources, 2 slots, 2 failures to a block, 3 entries of 4 keys, times 0 to 3 | `CheckedUnblocked`, `FailuresBounded`, `TableBounded`, `BlockKept`, `NobodyStuck` |
| `tokens` | 1 token, 2 registrations on 1 machine, 3 requests of the page at once, symmetric | `OneDevicePerToken`, `ShownIsTrue`, `NothingElseStale`; refinement of `TokenLedger` |

Two connections are what the races of a hand-over need: every step of a
handler concerns its own connection and at most the one that is attached. One of
them is faulty, so that it can break while the other one takes over, and a restart
of the server breaks both; the theorems hold for any set of faulty connections. One
session suffices there because no action relates two sessions, except the list
of a synchronisation, whose marks are separate steps. Output is added to an empty
queue only, and the queue is empty again as soon as the handler has taken the
frame: any number of frames is still handled, with every other step in between.
Three frames are the least for which an order can be wrong around a list and a
subscription, and two panes the least for which a send can fail before another. An
upload of one and a half chunks has a full and a partial chunk, and a file of exactly
one chunk has its end found by an empty read.
`two_factor` has the fewest requests for which a code, a challenge or a
configuration can be contended: two of each kind, and a third management
request, since it takes three to set up, enable and replace. With one code in
a set two logins contend for it; a second period lets challenges and pending
configurations of the first expire and a code of the first be used late. In `limit`, r1 and r2 share the
user and r2 and r3 the source, and r1 and r3 need the same two locks for keys
in opposite orders. Of the three keys of an attempt the instance has the first
two; the third is locked and counted in the same way. A window of 1 and a block
of 2 let a window end during a block, and three entries of four keys let the
table be full. In `tokens` two registrations contend for a token or try again with
one on the same machine; two requests are the least for which an answer can
be overtaken, and with three a create, a change and a load of the token overlap.
One token suffices there because a request changes one row and no rule relates two.
That a session stays with its owner where there are several devices (`OnlyOnOwner`) is
not left to an instance: `OwnerCorrect` proves it for all of them, and so does
`LifeCorrect`, since `SessionLife` spawns a shell only on its owner's device.

Deadlock is checked in `limit`; the other systems may really stop: all frames
handled, all operations or requests done, or, in `sc_overlap`, a connection that an
older clean-up has detached, on a device that shows as offline and has no session.

Five further runs expect a violation. Each states
a sentence of the documentation or a test and shows how the code departs from
it (`findings` in `PROJECT.json` quotes the sentences):

* `sc_closed`: a session that is closed while the hello of its agent is being
  synchronised, or while a stdout frame is handled, is written back as lost or
  running.
* `sc_stale`: the clean-up of an old connection runs after the next one of the
  device has attached. It marks the rows of the new shells lost, sets the device
  offline and detaches the new connection (`router.go:1042-1046`, `hub.go:73-77`),
  which stays connected for good and cannot be reached; the output of its shells
  writes back the status that it read, so the rows stay lost.
* `agent_exit`: a session is reported as exited though its last output is never
  delivered. The reader sends `Exited` after its last chunk, but when one drain,
  made by `drain_exited` or for another session, finds both, or the chunk was set aside
  by an earlier one of these, the chunk is in `pending_output` and its session no
  longer in `sessions`, and nothing reads the one without the other.
* `output_order`: a live frame is written before pending older ones.
* `page_closed`: a tab that was closed comes back when the user renames a
  device, for the effect in `App.tsx:359-361` puts the sessions that were loaded
  on entry in the place of the tabs (2 sessions, one request of a kind at a time).

Two more departures need no run. `README.md:16` lets the agent synchronise its
sessions after a restart of the server, but the agent's process ends with its
socket and its shells with it, so `AgentConnect` starts with no sessions. And
overwrite is asked for at the open of an upload only (see `FileTransfer` above).

### Fairness

`SessionControl!FairSpec`: weak fairness of each connection's handler and of
the agent's loop (goroutines and a tokio task that are runnable get to run),
of create and close requests under way, and of `AgentConnect` (the service
manager restarts the agent, `deploy/systemd/vibe-agent.service:8`). Strong
fairness of the first message of a connection being read is an assumption
about the network: an agent that keeps connecting gets through in the end.
Users, link failures, crashes and restarts have no fairness.
`AgentPty!FairSpec`: weak fairness of the tick (30 ms interval), of the reader
threads and of the phases of the loop. `FileTransfer!FairSpec`: only the clean-up
of stale uploads, which every tick calls (`client.rs:186-204`). `SessionOutput`,
`TwoFactor`, `FailureLimit`, `AgentTokens` and `PageTabs` have no fairness and no
liveness properties: users need not ask, and nothing retries by itself.

## 4. What is proved

`SessionControlProofs` proves for every set of devices, sessions and
connections and for every value of the bounds, from `ConnAssumption` and
`BoundAssumption` alone:

* `TypeCorrect`: `Spec => []TypeOK`;
* `PeersCorrect`: `Spec => []NoDeadPeer`, whatever number of connections of a
  device overlap. Inductive with `TypeOK`: a handler puts itself into
  `Hub.agents` on its way into the receive loop and leaves only by a clean-up
  that removes whatever is attached;
* `OnlineCorrect`: `Spec => []OnlineHasHandler`;
* `RoutingCorrect`, `OwnerCorrect`: `Spec => []OnlyOnOwner`. A start message
  is routed by `Hub.sessionDevices`, then by `Hub.agents`, so the ownership of
  shells is not inductive alone. `RoutingInv` adds `RowInv` (a create request
  that is past its insert, a route and a row agree on the owner) and
  `NoDeadPeer` (the connection that is attached for a device presented the
  credential of that device).

`TwoFactorProofs` proves the properties of `two_factor`, and two more,
`LastIsGreatest` (the counter in the row is the greatest that was accepted) and
`OneOpenChallenge` (a login voids the challenges before it), for any sets of
requests, any lives of challenges and pending configurations, any time, and
with or without shared locks, from `TwoFactorAssumption` alone: `TypeCorrect`,
`CodeOnceCorrect`, `LastCorrect`, `SessionCorrect`, `ChallengeCorrect`,
`CodesCorrect`, `EnabledCorrect`, the action property `DisableCorrect`, and the
refinement `LedgerCorrect` (`Spec => ImplementsCodes`). `SessionCorrect` is about
`OneSessionPerChallenge`, which no run checks any more, since the ledger has it: a
session takes an open challenge, and none is opened twice.
They follow from one inductive invariant (`Inductive`), `IInv == TypeOK /\
Known /\ Ledger /\ Challenges`:

* `Known`: a configuration or a set of codes that anything refers to was made
  by a request that has ended, so a request that is still to come makes a new
  one. Without it an identifier could be used again and a code with it;
* `Ledger`: the counters that were accepted for the present configuration are
  not above `last` (`Bounded`), accepted recovery codes are not in the table
  (`Used`), `CodeOnce`, `CodesAreCurrent`, `EnabledIsProved`. `CodeOnce` alone is
  not inductive: that a counter is new follows only from `Bounded`;
* `Challenges`: a challenge from which a session was made is spent
  (`Consumable`), an open one was asked for (`OpenIsAsked`), and the two properties.

The proof has a step for each action, most of them by a lemma that says which
accepted codes a step leaves as they are (`SameSeconds`, `SameManagers`).

The refinement needs `Bounds` beside it: what a request has read of the time and of
the configuration is within the sets that the ledger chooses from. A step that stores
a challenge is Ask (`AskRefines`), the transaction of a second factor is Enter
(`EnterRefines`), an enable and a replacement are Enable and Replace (`GiveRefines`:
the new set of codes was never given, so none of it is taken), and every other step
leaves the ledger alone (`QuietLedger`, `RowsStay`). `NewerIsFree` carries
over the difference between the two: the code compares a counter with one number
in a row, the ledger with all codes that were ever taken of the configuration.

In `SessionControlProofs` the queues of messages need four lemmas about
`Append`, `Head` and `Tail` (`PushType`, `PushElements`, `TailElements`,
`HeadElement`).

`SessionSettleProofs` proves `SettledCorrect` (`Spec => []SettledAgrees`) for any
number of devices, sessions and connections, with and without overlap, faults and
restarts. `SettledAgrees` is about a quiet moment and says nothing of how it was
reached, so its invariant has to say, of every moment before, who is going to
correct a row that is wrong. `SettleInv` (theorem `SettleCorrect`) says so on two
sides, like the property:

* `LinkInv`, `HandInv`: a connection before its attach has no shells and no messages,
  and a live agent has a handler and is the only one of its device; a handler holds a
  message exactly between its read and its write, and a listing exactly while it marks;
* `NewInv`: a session whose create request is not over is unknown to every agent;
* `RouteInv`: a shell, or a start on its way to one, has a route, so a close finds it;
* `ShellInv`, the side of the shell, for a connection that is attached while every other
  handler of its device has gone or has not said hello (`Sole`): the row of a shell
  says running, with no handler about to write anything else, unless a report that it
  has started or a close is on its way. A connection that an older handler has
  detached is left out, because there nothing corrects the row;
* `StartInv`: on any live connection, the row of a shell says starting only while
  the report that it has started is on its way;
* `ReportInv`: where no shell of a session is left or to come (`Bare`), an exit follows
  every report of one on the socket (`ExitFinal`);
* `EndedInv`, the side of the row, for every live connection, attached or not, unless
  another handler has still to list the rows of the device (`Clear`): the row of a
  session without a shell says neither starting nor running, unless an exit is the
  last word on the socket or in the handler, or a listing has still to be made by
  this handler or to be marked by any.

The lemmas `HasAppend`, `HasTail`, `ExitAppend` and `ExitTail` say what `Append` and
`Tail` do to the messages on a queue and to the last word. `LinksKept`, `NewsKept`,
`ShellsKept`, `StartKept`, `ReportKept` and `EndedKept` each carry one part over a step:
`PairQuiet` deals with the many steps that leave a connection alone, `SoleKept` and
`ClearStep` with those after which it is still alone, and the rest have one case each.

The module also proves the refinement `LifeCorrect` (`Spec => ImplementsLife`), for
any sets and bounds. That a start message is sent once is a matter of its request; that it spawns one
shell also depends on what the queues of old and new connections still hold. `LifeInv`
says, beside `SettleInv` and `RoutingInv`:

* `RowLife`: a row exists exactly if it has an owner, and every create request past its
  insert has one, so each of the updates without a look at the row (a failed send, a
  mark, a report) finds it;
* `PlaceLife`, `HandLife`: a start of a session stands in one queue, once (`Single`),
  and its shell is at one agent; a handler has read the status of a row that exists;
* `BegunLife`: once the shell was spawned, the create request is over and no queue
  has a start of it; and no message, handler or agent knows of a shell that was not
  spawned. This is why a late stdout or started can only say running of a session
  that had a shell.

Six lemmas say what a step does to one part of the state: to requests (`ReqStep`),
queues (`DownStep`, `UpStep`), handlers (`HandStep`), shells (`ShellStep`) and rows
(`RowStep`); both the invariant and the refinement follow from them. The start that an
agent takes is the last one, for a session nobody has (`StartOnce`), hence a Spawn; an
agent that loses shells ends those sessions for good (`EndLives`); a row is inserted or
written, and every other step stutters.

The same lemmas prove the action property `EndedStays` (`EndedCorrect`). A row that says
closed may say running again (`sc_closed`), so closing alone does not end a session;
`Ended` says what does: the row is over, no agent has a shell or a start of the session,
and no handler that runs has a started or stdout of it to read or to write. `RunStep`
names the only ways to a row that says starting or running (the insert, and those two
reports), and `PeerStep` says that a handler or an agent comes into being only with a new
connection, whose queues are empty, so what stands in the queues of a dead one is never
read.

`FailureLimitProofs` proves the six properties of `limit` for any requests,
keys, assignment of keys to locks, size of the table and times, from
`LimitAssumption` (finitely many requests; the keys of a request differ; a block is
at least as long as a window): `TypeCorrect`, `CheckedCorrect`,
`FailuresCorrect`, `TableCorrect`, `BlockCorrect`, `StuckCorrect`. `IInv` adds to
the types:

* `LocksInv`: the locks that a request holds are below those that it still wants
  (`managementLockIndexes` sorts them), and all of its locks while it asks, checks
  and records;
* `OpenInv`: what a management request was told of a key stays true until it
  records, for everybody else who could change that key waits for its lock;
* `TimesInv`: windows and blocks lie around the present, and a block outlasts the
  window in which it was made, so no new window begins during a block;
* `CountInv`: failures above the limit come from requests that were allowed
  before the block (`Failers`), each of which can add one;
* `TableInv`: the number of entries.

`NobodyStuck` follows: among requests that wait, the one that holds the greatest
lock wants a lock that is greater still, which none of them holds. That there is a
greatest and a least lock is the least-number principle, from the library's
`WellFoundedInduction`.

`AgentTokensProofs` proves `TypeOK`, `OneDevicePerToken`, `ShownIsTrue`,
`NothingElseStale` and the
refinement (`LedgerCorrect`: `Spec => ImplementsLedger`) for any tokens,
machines, registrations and requests, from `MachineAssumption`. `IInv` has

* `TypeInv`: types, and the token that an attempt or a request names, if it names one;
* `Uses`: a registration past its use has taken its token (`RegOK`), a token has
  one taker (`OneTaker`), what was taken is used in its row or the row is gone
  (`UsedIsTaken`), and the file of a machine names a device that was made
  (`SavedIsMade`);
* `Checked`: a token between the check and the delete can no longer be taken;
* `Shown`: what `ShownIsTrue` says of the list, said of every answer that is still
  on its way, since an answer becomes the list.

`StaleCorrect` (`Spec => []NothingElseStale`) needs one invariant more, `Agrees`
(lemma `AgreeInductive`). A change that the server has made and whose answer has not
come *pends* (`Pends`). While nothing is known to be outdated, the list may differ from
the table only by changes that pend (`ListClose`), and so may the answer to a load, and
that to a create in the row it brings (`AnswerClose`); an answer that brings a change
tells the truth about it (`AnswerTrue`), so that when it comes it ends the difference
it leaves. A change made behind an answer outdates it (`Marked`), and so does one whose
own answer is lost.

The refinement has a step for each action: a use is `Take`, a created device
`Enroll`, a revocation of a fresh token `Shut`, and whatever the page does, and
every failure, stutters.

`FileTransferProofs` proves the safety properties of `files` for any number
of operations, any sizes and any chunk, from `TransferAssumption` (a body has no
more bytes than announced: `net/http` hands a handler at most `Content-Length` bytes):
`TypeCorrect`, `TruncatedCorrect` (`NeverTruncated`, which no run checks any more, since
Replace of `WholeFiles` asks for it), `ResultCorrect`, the action property
`KeptCorrect`, and the refinement `FilesCorrect` (`Spec => ImplementsFiles`). The
difficulty is that an operation which has given up leaves a request or a reply on
its way, which has an effect later. `IInv` says:

* `Single`: one message of an operation is on its way at most, in either
  direction. It holds because an operation asks only when it has an answer, and
  one that has given up never asks again;
* `DownOf`, `ReplyOf`: what each message means for the place at which its
  operation waits or has stopped. A close on its way carries the announced size,
  and its operation was reported as failed only if the body was short; a reply to
  a close says ok exactly if the upload has become the file;
* `PlaceOf`, `CommittedOf`, `SeenOf`, `UploadOf`: for each operation, what its place
  implies for its request, its answer, its result, the versions that a download
  has read (`PartSeen`: if it has read one, `off` is within it, and at its end
  exactly at the end) and the bytes that the agent has written (part of the body,
  so one that was cut short never has the announced size);
* `FileInv`: the file of an upload is its whole body.

Steps are proved in groups: `QuietKeeps` (the server, when nothing of the operation
is on its way), `EndKeeps`, `ServerKeeps`, `AgentKeeps` (the agent answers a
request) and `OutsideKeeps` (connection and device) say once what a step of
the group leaves as it is.

For the refinement `Begun` adds that an operation without a place has no request and
one that is over has a result, so those that `WholeFiles` waits for are those
that hold a slot (`WaitingIs`). Every step of a handler after its first either ends
the operation or takes it to its next place (`Served`); only a close and a program on
the device touch the file (`NotServed`). `ClosesRefines` is the point of it: that the
close on its way is still good, for a body that is whole and an upload that nobody has
refused, is what `DownOf`, `CommittedOf` and `UploadOf` say together.

`AgentPtyProofs` proves the three invariants of `agent` and the refinement for any
number of sessions, chunks and closes, from `AgentBounds`: `TypeCorrect`,
`MapsCorrect`, `PrefixCorrect`, and `ShellsCorrect` (`Spec => ImplementsShells`).
`IInv` has four parts:

* `TypeOK`;
* `MapsInv`: a session has a buffer exactly if it is in the manager's map, noted as
  exited, or listed in this tick's exits. `MapsAgree` is what is left of it when the
  loop is between two ticks, where the last two are empty; it is not inductive alone,
  since a drain in the middle of a tick takes sessions out of the map;
* `FramesInv`: a collected frame is the next one of its session, which has a buffer,
  and no session has two (its key is gone from `keys`). So a frame is only sent
  while the shell is kept, which the refinement needs;
* `ChainInv`: what was delivered, what a collected frame has, what was set aside and
  what is in the channel are, in this order, the chunks that the shell has produced.
  A chunk may move from the channel to the pending list in a drain for another
  session; the chain stays since `Taken` puts what was set aside first (`Drained`).

In the refinement a step of the loop that reports is a step of `AgentShells`, and
everything else, a flush among it (it changes the number of a buffer, not whether
there is one), stutters.

`SessionOutputProofs` proves the three invariants of `output` for any number of
panes and frames, from `OutputBounds`: `TypeCorrect`, `RepeatCorrect` and
`MissedCorrect`. `Fence(p)` is the first frame for which the handler has not yet
dealt with pane p: below it a frame was sent, withheld, or broadcast before the
pane subscribed. Beside the types and `RowsInv` (rows are frames that have come), `IInv`
says of each pane:

* `HubInv`: a subscription, a target of a broadcast and the socket belong together;
* `OrderInv`: pending frames increase, frames on the socket increase and are
  newer, and all are below `Fence`;
* `ScreenInv`: no frame is on the terminal twice, and what is there is not still to
  be written. `restoredSeq` alone does not say so, since `FrameTaken` sets it back
  below frames that came in the meantime. What keeps the screen free of
  repetitions is that such a frame (`Came`) is newer than everything pending and
  older than everything on the socket;
* `ListInv`: the list is a lower part of the rows, and is on the screen or still to be
  written. `restoredSeq` is either in the list or older than every frame that is
  still to come, so a frame that the pane drops for its number was in the list;
* `SentInv`: a persisted frame from the subscription on and below `Fence` is on
  the socket, pending, on the screen, or withheld. `NothingElseMissed` is what is left
  of it when the pane is live and nothing is on its way.

The lowest number of a set of chunks is the library's well-founded order again;
`NextIs`, `PendingIs` and `Taken` say what heads and tails of increasing sequences are.

Only model-checked: everything under fairness (`ZombiesResolved`, `CloseReaps`,
`ConnectedIsReachable`, `OutputArrives`, `ExitArrives`, `TempsGo`), which the
prover cannot reach. Every invariant, action property and refinement that a passing
run checks is a theorem. No module of the project has a RECURSIVE operator.

## 5. Not modelled

The page's directory lists, login form and security view, whose answers are
guarded by generation counters; the cookie of a web session, password hashing,
encryption of TOTP secrets, signatures of challenge tokens, equal digits of
different TOTP codes; a restart of the server in `FailureLimit`, which empties
the table; keyboard input on its way to the shell beyond its
error path, resize, search; paths, permissions and attributes of files;
encoding of messages and validation of payloads; capacity of the ring buffer;
rows that only one statement touches (snippets, names); audit log;
configuration and migrations; `workspace.go`, which nothing calls; characters
that two reads of a shell's output share.

Of the hazards in `PROJECT.json` two have no property: the status in the answer to
subscribe may be older than one that was broadcast before it (`PageTabs` has both
ways, but no document says which status a tab shows), and a download of a file
that is replaced meanwhile mixes two versions (`FileTransfer` has it, and no
document promises a snapshot).

## 6. Plan

1. Done: `SessionControl` with its proofs, `AgentPty` refining `AgentShells`,
   `SessionOutput`, `FileTransfer`, `TwoFactor` with its proofs, `FailureLimit`.
2. Done: `AgentTokens` refining `TokenLedger`, with its proofs; `PageTabs`; proofs of
   `FailureLimit`, `FileTransfer`, `AgentPty` and `SessionOutput`.
3. Composition: the messages of `AgentPty` as the agent of `SessionControl`,
   the frames of `AgentPty` as the input of `SessionOutput`.
4. Done: proofs of `SettledAgrees` of `SessionControl`, `NothingElseStale` of `AgentTokens`.
5. Done: `CodeLedger`, in which each credential is accepted at most once,
   implemented by `TwoFactor`; `WholeFiles`, in which a file is replaced as a whole
   or not at all, implemented by `FileTransfer`; both with their proofs.
6. Done: `SessionLife`, in which a session has one shell in its life, implemented by
   `SessionControl`, with its proof.
7. Abstract specifications of `SessionOutput` (a terminal as a sequence of frames
   with gaps) and of `FailureLimit` (a key that is open or blocked), with their
   refinements.
