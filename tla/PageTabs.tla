------------------------------ MODULE PageTabs ------------------------------
(***************************************************************************)
(* The tabs of the page: the sessions that it loads once (App.tsx), those  *)
(* that it creates and closes, and the states that the socket of the       *)
(* active tab reports (TerminalTabs.tsx, TerminalPane.tsx; the handler of  *)
(* subscribe_session in router.go).                                        *)
(*                                                                         *)
(* The rows change as SessionControl says, here by one page and one agent; *)
(* a shell starts and ends at any time.  Of a session the page keeps its   *)
(* status.                                                                 *)
(* All sessions are of one device, whose name the user may change.         *)
(***************************************************************************)
EXTENDS Sequences

CONSTANTS Sessions, NoSession

VARIABLES
    rows,       \* status of terminal_sessions, "none" without a row
    shell,      \* the shells of the agent
    loaded,     \* App: sessions, what was loaded on entry
    tabs,       \* AuthenticatedAppView: localSessions
    active,     \* TerminalTabs: active, whose pane is mounted
    ask,        \* ask[k]: the page's request of kind k, and the answer
    sub,        \* the subscription of the pane: its place and what it has read
    frames      \* session_state on the way to the pane

vars == <<rows, shell, loaded, tabs, active, ask, sub, frames>>

Kinds == {"load", "create", "close", "rename"}
NoAsk == [at |-> "idle", s |-> NoSession]
NoSub == [at |-> "none", status |-> "none"]

\* Sessions that are not in a list have the status "absent" there.
NoTabs == [s \in Sessions |-> "absent"]
Visible(t) == {s \in Sessions : t[s] \notin {"absent", "closed"}}

\* Somebody has logged in and the page asks for the sessions.
Init ==
    /\ rows \in [Sessions -> {"none", "running", "exited"}]
    /\ shell = [s \in Sessions |-> CASE rows[s] = "none" -> "none"
                                     [] rows[s] = "running" -> "on" [] OTHER -> "over"]
    /\ loaded = NoTabs /\ tabs = NoTabs
    /\ active = NoSession
    /\ ask = [k \in Kinds |-> IF k = "load" THEN [at |-> "asked", s |-> NoSession] ELSE NoAsk]
    /\ sub = NoSub /\ frames = <<>>

\* The effect of TerminalTabs after a change of the tabs; which of them is the
\* first is left open.  A pane that is not active any more is unmounted.
Activate(s) ==
    /\ active' = s
    /\ IF s = active THEN UNCHANGED sub
       ELSE sub' = IF s = NoSession THEN NoSub ELSE [at |-> "asked", status |-> "none"]

Shows(t) ==
    /\ tabs' = t
    /\ IF active \in Visible(t) THEN Activate(active) /\ UNCHANGED frames
       ELSE /\ \/ Visible(t) = {} /\ Activate(NoSession)
               \/ \E s \in Visible(t) : Activate(s)
            /\ frames' = <<>>

-----------------------------------------------------------------------------
(* The server *)

\* session_started, which is no session_state; it writes over a close.
Starts(s) ==
    /\ shell[s] = "asked"
    /\ shell' = [shell EXCEPT ![s] = "on"]
    /\ rows' = [rows EXCEPT ![s] = "running"]
    /\ UNCHANGED <<loaded, tabs, active, ask, sub, frames>>

\* session_exit: a closed session stays closed; the status is broadcast.
Exits(s) ==
    /\ shell[s] = "on"
    /\ shell' = [shell EXCEPT ![s] = "over"]
    /\ rows' = [rows EXCEPT ![s] = IF @ = "closed" THEN @ ELSE "exited"]
    /\ frames' = IF sub.at \in {"added", "done"} /\ active = s THEN Append(frames, rows'[s]) ELSE frames
    /\ UNCHANGED <<loaded, tabs, active, ask, sub>>

\* subscribe_session: the row is read ...
SubscribeReads ==
    /\ sub.at = "asked"
    /\ sub' = [at |-> "read", status |-> rows[active]]
    /\ UNCHANGED <<rows, shell, loaded, tabs, active, ask, frames>>

\* ... the subscriber is added ...
Subscribes ==
    /\ sub.at = "read"
    /\ sub' = [sub EXCEPT !.at = "added"]
    /\ UNCHANGED <<rows, shell, loaded, tabs, active, ask, frames>>

\* ... and the status that was read is sent.
SubscribeAnswers ==
    /\ sub.at = "added"
    /\ sub' = [sub EXCEPT !.at = "done"]
    /\ frames' = Append(frames, sub.status)
    /\ UNCHANGED <<rows, shell, loaded, tabs, active, ask>>

Handles(k, s) ==
    /\ ask[k].at = "asked"
    /\ ask' = [ask EXCEPT ![k] = [at |-> "answered", s |-> s]]
    /\ UNCHANGED <<loaded, tabs, active, sub, frames>>

\* handleCreateSession
HandlesCreate(s) ==
    /\ Handles("create", s) /\ rows[s] = "none"
    /\ rows' = [rows EXCEPT ![s] = "starting"]
    /\ shell' = [shell EXCEPT ![s] = "asked"]

\* handleCloseSession, which broadcasts nothing.
HandlesClose ==
    /\ Handles("close", ask["close"].s)
    /\ rows' = [rows EXCEPT ![ask["close"].s] = "closed"]
    /\ UNCHANGED shell

\* handleRenameDevice
HandlesRename == Handles("rename", NoSession) /\ UNCHANGED <<rows, shell>>

-----------------------------------------------------------------------------
(* The page *)

Asks(k, s) ==
    /\ ask[k].at = "idle" /\ ask["load"].at = "idle"
    /\ ask' = [ask EXCEPT ![k] = [at |-> "asked", s |-> s]]
    /\ UNCHANGED <<rows, shell, loaded, tabs, active, sub, frames>>

AsksCreate == Asks("create", NoSession)
AsksRename == Asks("rename", NoSession)
AsksClose(s) == s \in Visible(tabs) /\ Asks("close", s)

Gets(k) == ask[k].at = "answered" /\ ask' = [ask EXCEPT ![k] = NoAsk] /\ UNCHANGED <<rows, shell>>

\* loadDevicesAndSessions: the sessions that are not closed, as the server lists
\* them when it is asked.
Loads ==
    /\ ask["load"].at = "asked" /\ ask' = [ask EXCEPT !["load"] = NoAsk]
    /\ loaded' = [s \in Sessions |-> IF rows[s] \in {"none", "closed"} THEN "absent" ELSE rows[s]]
    /\ Shows(loaded')
    /\ UNCHANGED <<rows, shell>>

\* createAndAppend
GetsCreate ==
    /\ Gets("create")
    /\ Shows([tabs EXCEPT ![ask["create"].s] = "starting"])
    /\ UNCHANGED loaded

\* confirmCloseSession
GetsClose ==
    /\ Gets("close")
    /\ Shows([tabs EXCEPT ![ask["close"].s] = "absent"])
    /\ UNCHANGED loaded

\* handleRenameDevice: setDevices makes a new devicesById and so new
\* initialSessions, whose effect puts them in place of localSessions.
GetsRename ==
    /\ Gets("rename")
    /\ Shows(loaded)
    /\ UNCHANGED loaded

\* The request fails, before or after the server has handled it.
Fails(k) ==
    /\ k # "load" /\ ask[k].at \in {"asked", "answered"}
    /\ ask' = [ask EXCEPT ![k] = NoAsk]
    /\ UNCHANGED <<rows, shell, loaded, tabs, active, sub, frames>>

\* The user chooses a tab.
Chooses(s) ==
    /\ s \in Visible(tabs) \ {active}
    /\ Activate(s)
    /\ frames' = <<>>
    /\ UNCHANGED <<rows, shell, loaded, tabs, ask>>

\* handleSessionStateChange
FrameArrives ==
    /\ frames # <<>> /\ active # NoSession
    /\ LET t == [tabs EXCEPT ![active] = IF @ = "absent" THEN @ ELSE Head(frames)] IN
       /\ tabs' = t
       /\ IF active \in Visible(t)
          THEN frames' = Tail(frames) /\ UNCHANGED <<active, sub>>
          ELSE /\ frames' = <<>>
               /\ \/ Visible(t) = {} /\ Activate(NoSession)
                  \/ \E s \in Visible(t) : Activate(s)
    /\ UNCHANGED <<rows, shell, loaded, ask>>

-----------------------------------------------------------------------------
Server ==
    \/ \E s \in Sessions : Starts(s) \/ Exits(s) \/ HandlesCreate(s)
    \/ SubscribeReads \/ Subscribes \/ SubscribeAnswers \/ HandlesClose \/ HandlesRename

Page ==
    \/ Loads \/ AsksCreate \/ AsksRename
    \/ \E s \in Sessions : AsksClose(s) \/ Chooses(s)
    \/ GetsCreate \/ GetsClose \/ GetsRename \/ FrameArrives
    \/ \E k \in Kinds : Fails(k)

Next == Server \/ Page

Spec == Init /\ [][Next]_vars

-----------------------------------------------------------------------------
(* What the documentation says and the code does not do *)

\* README, table of session states: a closed session is not on the list of tabs.
\* So a tab whose close was answered does not come back.
ClosedStaysHidden ==
    [][\A s \in Sessions : rows[s] = "closed" /\ s \notin Visible(tabs) => s \notin Visible(tabs')]_vars

=============================================================================
