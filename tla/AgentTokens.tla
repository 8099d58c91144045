---------------------------- MODULE AgentTokens ----------------------------
(***************************************************************************)
(* Registration tokens: the table agent_tokens with the requests that      *)
(* change it (router.go, store.go), the registrations that use the tokens  *)
(* (handleAgentRegister; client.rs, main.rs, config.rs on the machines),   *)
(* and the list of tokens that the page shows (App.tsx:                    *)
(* useAgentTokenState).                                                    *)
(*                                                                         *)
(* Grain.  A transaction or single statement of the server is one step;    *)
(* so is what the page does when an answer comes.  A request and its       *)
(* answer may be lost, and answers come in any order.  Rows keep only      *)
(* whether used_at and revoked_at are set, the list shows the same; that a *)
(* token has expired is one of the reasons for which a registration fails. *)
(***************************************************************************)

CONSTANTS
    Tokens,
    Attempts,       \* runs of "vibe-agent register"
    Machines,
    MachineOf,      \* MachineOf[a]: where the attempt runs
    Requests        \* requests of the page that may be under way at once

ASSUME MachineAssumption ==
    MachineOf \in [Attempts -> Machines] /\ "none" \notin Attempts /\ "broken" \notin Attempts

VARIABLES
    table,      \* agent_tokens
    devices,    \* the table devices; a device is named by the attempt that made it
    reg,        \* the attempts
    config,     \* config[m]: agent.json of the machine
    ask,        \* the page's requests, with their answers
    list,       \* the page: tokens
    loading,    \* the page: loading
    known,      \* the tokens whose text the page has shown
    behind      \* history: may the list differ from the table? See NothingElseStale

serverVars == <<table, devices>>
agentVars  == <<reg, config>>
pageVars   == <<ask, list, loading, known, behind>>
vars == <<serverVars, agentVars, pageVars>>

Row == [used : BOOLEAN, revoked : BOOLEAN]
New    == [state |-> "new"]     \* no row yet
Gone   == [state |-> "gone"]    \* deleted
Absent == [state |-> "absent"]
Fresh  == [used |-> FALSE, revoked |-> FALSE]

\* took: history, the attempt has used its token.
Unsent == [at |-> "idle", t |-> "none", took |-> FALSE]
\* view: what the answer says of each token, or of token t; lost: the page has
\* given the request up; stale: history, see Finished.
NoAsk == [at |-> "idle", kind |-> "none", t |-> "none", ok |-> FALSE,
          view |-> [t \in Tokens |-> Absent], lost |-> FALSE, stale |-> FALSE]

Moved(r, place) == [r EXCEPT !.at = place]
Taken(r)     == [r EXCEPT !.at = "used", !.took = TRUE]
Used(row)    == [row EXCEPT !.used = TRUE]
Revoked(row) == [row EXCEPT !.revoked = TRUE]
Sent(t) == [Unsent EXCEPT !.at = "sent", !.t = t]
Question(kind, t) == [NoAsk EXCEPT !.at = "asked", !.kind = kind, !.t = t]
Reply(r, t, ok, view) == [r EXCEPT !.at = "answered", !.t = t, !.ok = ok, !.view = view]
Stale(r)   == [r EXCEPT !.stale = TRUE]
GivenUp(r) == [r EXCEPT !.lost = TRUE]

Present(t) == table[t] \notin {New, Gone}
View(t) == IF Present(t) THEN table[t] ELSE Absent

\* The page has just been opened, tokens may be left from earlier days.
Init ==
    \E old \in SUBSET Tokens :
        /\ table = [t \in Tokens |-> IF t \in old THEN Fresh ELSE New]
        /\ known = old
        /\ behind = (old # {})
        /\ devices = {}
        /\ reg = [a \in Attempts |-> Unsent]
        /\ config = [m \in Machines |-> "none"]
        /\ ask = [q \in Requests |-> NoAsk]
        /\ list = [t \in Tokens |-> Absent]
        /\ loading = FALSE

-----------------------------------------------------------------------------
(* Registration *)

\* vibe-agent register --token t: the request is sent.
Register(a, t) ==
    /\ reg[a].at = "idle" /\ t \in known
    /\ reg' = [reg EXCEPT ![a] = Sent(t)]
    /\ UNCHANGED <<config, serverVars, pageVars>>

\* The attempt ends with an error, in the server or on the machine.
Fails(a) == reg' = [reg EXCEPT ![a] = Moved(@, "failed")]

\* Slip: a token that was used is accepted again.
UsableAgain(a) ==
    LET t == reg[a].t IN Present(t) /\ ~table[t].revoked

Usable(a) ==
    LET t == reg[a].t IN Present(t) /\ ~table[t].used /\ ~table[t].revoked

\* handleAgentRegister, UseAgentTokenByHash: one transaction, of a token that is
\* neither used nor revoked nor expired.
UseToken(a) ==
    /\ reg[a].at = "sent"
    /\ \/ /\ Usable(a)
          /\ table' = [table EXCEPT ![reg[a].t] = Used(@)]
          /\ reg' = [reg EXCEPT ![a] = Taken(@)]
       \/ Fails(a) /\ UNCHANGED table
    /\ UNCHANGED <<devices, config, pageVars>>

\* Slip: the token is given back.
DeviceFailsGivenBack(a) ==
    /\ Fails(a)
    /\ table' = [table EXCEPT ![reg[a].t] = IF @ \in Row THEN [@ EXCEPT !.used = FALSE] ELSE @]

\* The device cannot be inserted, or the client has gone and the context of the
\* request with it: the token stays used.
DeviceFails(a) == Fails(a) /\ UNCHANGED table

CreateDevice(a) ==
    /\ reg[a].at = "used"
    /\ \/ /\ devices' = devices \union {a}
          /\ reg' = [reg EXCEPT ![a] = Moved(@, "made")]
          /\ UNCHANGED table
       \/ DeviceFails(a) /\ UNCHANGED devices
    /\ UNCHANGED <<config, pageVars>>

\* The credential reaches register_agent, or its answer is lost; config::save
\* truncates the file and then writes it, and may fail before, between or after.
SaveConfig(a) ==
    /\ reg[a].at = "made"
    /\ \/ /\ config' = [config EXCEPT ![MachineOf[a]] = a]
          /\ reg' = [reg EXCEPT ![a] = Moved(@, "saved")]
       \/ Fails(a) /\ UNCHANGED config
       \/ Fails(a) /\ config' = [config EXCEPT ![MachineOf[a]] = "broken"]
    /\ UNCHANGED <<serverVars, pageVars>>

-----------------------------------------------------------------------------
(* The page asks *)

Asks(q, kind, t) ==
    /\ ask[q].at = "idle"
    /\ ask' = [ask EXCEPT ![q] = Question(kind, t)]
    /\ loading' = TRUE
    /\ UNCHANGED <<list, known, behind, serverVars, agentVars>>

\* load: on entry, or by the button, which is disabled while loading.
Load(q) == ~loading /\ Asks(q, "load", "none")

\* create: the form is disabled while it submits.
Create(q) ==
    /\ \A r \in Requests : ask[r].kind = "create" => ask[r].lost
    /\ Asks(q, "create", "none")

\* The button of a row that is not shown as revoked, or that is.
Revoke(q, t) == list[t] # Absent /\ ~list[t].revoked /\ Asks(q, "revoke", t)
Delete(q, t) == list[t] # Absent /\ list[t].revoked /\ Asks(q, "delete", t)

-----------------------------------------------------------------------------
(* The server answers *)

AllViews == [t \in Tokens |-> View(t)]
Only(t, row) == [NoAsk.view EXCEPT ![t] = row]

\* A change was made or told too late for the answers in aks that were computed
\* before: lists, and the row of the same token that was just created.
Outdated(aks, t) ==
    [r \in Requests |->
        IF aks[r].at = "answered" /\ aks[r].ok /\ (aks[r].kind = "load" \/ (aks[r].kind = "create" /\ aks[r].t = t))
        THEN Stale(aks[r]) ELSE aks[r]]

\* The answer is sent.  If the page has given up, a change remains unseen.
Answers(q, t, ok, view) ==
    IF ask[q].lost
    THEN /\ ask' = IF ok THEN Outdated([ask EXCEPT ![q] = NoAsk], t) ELSE [ask EXCEPT ![q] = NoAsk]
         /\ behind' = (behind \/ (ok /\ ask[q].kind # "load"))
    ELSE /\ ask' = [ask EXCEPT ![q] = Reply(@, t, ok, view)]
         /\ UNCHANGED behind

Handles(q, kind, at) ==
    /\ ask[q].kind = kind /\ ask[q].at = at
    /\ UNCHANGED <<devices, agentVars, list, loading, known>>

\* A statement that fails, or that does not find the row.
HandlesInVain(q) ==
    /\ \E kind \in {"load", "create", "revoke", "delete"} :
          Handles(q, kind, "asked") \/ Handles(q, kind, "checked")
    /\ Answers(q, ask[q].t, FALSE, ask[q].view)
    /\ UNCHANGED table

HandlesLoad(q) ==
    /\ Handles(q, "load", "asked")
    /\ Answers(q, "none", TRUE, AllViews)
    /\ UNCHANGED table

HandlesCreate(q, t) ==
    /\ Handles(q, "create", "asked")
    /\ table[t] = New
    /\ table' = [table EXCEPT ![t] = Fresh]
    /\ Answers(q, t, TRUE, Only(t, Fresh))

\* Slip: the error of the commit is ignored.
CommitsSometimes(t) ==
    table' = [table EXCEPT ![t] = Revoked(@)] \/ UNCHANGED table

Commits(t) == table' = [table EXCEPT ![t] = Revoked(@)]

\* RevokeAgentToken: one transaction; also a token that is used, or revoked.
HandlesRevoke(q) ==
    /\ Handles(q, "revoke", "asked")
    /\ LET t == ask[q].t IN
       /\ Present(t)
       /\ Commits(t)
       /\ Answers(q, t, TRUE, Only(t, Revoked(table[t])))

\* DeleteRevokedAgentToken: the row must be revoked ...
HandlesDelete(q) ==
    /\ Handles(q, "delete", "asked")
    /\ Present(ask[q].t) /\ table[ask[q].t].revoked
    /\ ask' = [ask EXCEPT ![q] = Moved(@, "checked")]
    /\ UNCHANGED <<table, behind>>

\* ... and is deleted in a second statement, if it is still there.
DeletesRow(q) ==
    /\ Handles(q, "delete", "checked")
    /\ LET t == ask[q].t IN
       /\ Present(t)
       /\ table' = [table EXCEPT ![t] = Gone]
       /\ Answers(q, t, TRUE, ask[q].view)

-----------------------------------------------------------------------------
(* The page gets the answer *)

\* The request is over; answers to others that are older than its change are
\* outdated now.
Finished(q) ==
    /\ ask' = LET rest == [ask EXCEPT ![q] = NoAsk]
              IN  IF ask[q].kind = "load" \/ ~ask[q].ok THEN rest ELSE Outdated(rest, ask[q].t)
    /\ loading' = FALSE
    /\ UNCHANGED <<serverVars, agentVars>>

Gets(q, kind) == ask[q].at = "answered" /\ ~ask[q].lost /\ ask[q].ok /\ ask[q].kind = kind /\ Finished(q)

\* The whole list is replaced, whatever was done since the server read it.
GetsLoad(q) ==
    /\ Gets(q, "load")
    /\ list' = ask[q].view
    /\ behind' = ask[q].stale
    /\ UNCHANGED known

\* The row is put in front of the others, in place of an older one.
GetsCreate(q) ==
    /\ Gets(q, "create")
    /\ list' = [list EXCEPT ![ask[q].t] = ask[q].view[ask[q].t]]
    /\ known' = known \union {ask[q].t}
    /\ behind' = (behind \/ ask[q].stale)

\* The row is replaced if it is there.
GetsRevoke(q) ==
    /\ Gets(q, "revoke")
    /\ list' = [list EXCEPT ![ask[q].t] = IF @ = Absent THEN @ ELSE ask[q].view[ask[q].t]]
    /\ UNCHANGED <<known, behind>>

\* Slips: the row is marked, not removed; only the text is taken off the page.
WithMark(t) == [list EXCEPT ![t] = Gone]
WithoutText(t) == list

Without(t) == [list EXCEPT ![t] = Absent]

GetsDelete(q) ==
    /\ Gets(q, "delete")
    /\ list' = Without(ask[q].t)
    /\ UNCHANGED <<known, behind>>

\* An error is shown: the server's, or that of the network.
GetsError(q) ==
    /\ ask[q].at = "answered" /\ ~ask[q].lost
    /\ Finished(q)
    /\ behind' = (behind \/ (ask[q].ok /\ ask[q].kind # "load"))
    /\ UNCHANGED <<list, known>>

\* The network fails while the request is under way: it may never reach the
\* server, or still be handled.
Loses(q) ==
    /\ ask[q].at \in {"asked", "checked"} /\ ~ask[q].lost
    /\ ask' = [ask EXCEPT ![q] = IF ask[q].kind = "load" THEN NoAsk ELSE GivenUp(@)]
    /\ loading' = FALSE
    /\ UNCHANGED <<list, known, behind, serverVars, agentVars>>

-----------------------------------------------------------------------------
Enrolls(a) ==
    \/ \E t \in Tokens : Register(a, t)
    \/ UseToken(a) \/ CreateDevice(a) \/ SaveConfig(a)

Page(q) ==
    \/ Load(q) \/ Create(q) \/ \E t \in Tokens : Revoke(q, t) \/ Delete(q, t)
    \/ GetsLoad(q) \/ GetsCreate(q) \/ GetsRevoke(q) \/ GetsDelete(q) \/ GetsError(q) \/ Loses(q)

Serves(q) ==
    \/ HandlesInVain(q) \/ HandlesLoad(q) \/ \E t \in Tokens : HandlesCreate(q, t)
    \/ HandlesRevoke(q) \/ HandlesDelete(q) \/ DeletesRow(q)

Next ==
    \/ \E a \in Attempts : Enrolls(a)
    \/ \E q \in Requests : Page(q) \/ Serves(q)

Spec == Init /\ [][Next]_vars

-----------------------------------------------------------------------------
(* Properties *)

Views == Row \union {Absent}

TypeOK ==
    /\ table \in [Tokens -> Row \union {New, Gone}]
    /\ devices \subseteq Attempts /\ known \subseteq Tokens
    /\ reg \in [Attempts -> [at : {"idle", "sent", "used", "made", "saved", "failed"},
                             t : Tokens \union {"none"}, took : BOOLEAN]]
    /\ config \in [Machines -> Attempts \union {"none", "broken"}]
    /\ ask \in [Requests -> [at : {"idle", "asked", "checked", "answered"},
                             kind : {"none", "load", "create", "revoke", "delete"},
                             t : Tokens \union {"none"}, ok : BOOLEAN,
                             view : [Tokens -> Views], lost : BOOLEAN, stale : BOOLEAN]]
    /\ list \in [Tokens -> Views]
    /\ loading \in BOOLEAN /\ behind \in BOOLEAN

Takers(t) == {a \in Attempts : reg[a].t = t /\ reg[a].took}

\* A token makes one device at most, though registrations are tried again after
\* an answer was lost, a device could not be inserted or a file not written; and
\* a machine keeps only the credential of a device that there is.
OneDevicePerToken ==
    /\ \A a, b \in devices : reg[a].t = reg[b].t => a = b
    /\ \A m \in Machines : config[m] \in Attempts => config[m] \in devices

\* What the list shows may be old, but it is never wrong about an end: a token
\* that is shown as used or as revoked cannot be used any more, and one that is
\* shown as revoked without having been used has made no device and never will,
\* whichever answers were lost or overtaken.
ShownIsTrue ==
    \A t \in Tokens : list[t] # Absent =>
        /\ table[t] # New
        /\ list[t].used \/ list[t].revoked => table[t] \notin {r \in Row : ~r.used /\ ~r.revoked}
        /\ list[t].revoked /\ ~list[t].used => Takers(t) = {}
        /\ list[t].used => Takers(t) # {}

\* When no request is under way the list agrees with the table, up to the use of
\* tokens by machines, unless the last list that came was older than a change
\* that was shown or failed before it came, a created row came after a change of
\* it was shown, or the answer to a change was lost.  There is no other way to
\* mislead the user.
NothingElseStale ==
    ~behind /\ (\A q \in Requests : ask[q].at = "idle") =>
        \A t \in Tokens :
            /\ list[t] = Absent <=> ~Present(t)
            /\ Present(t) => list[t].revoked = table[t].revoked

\* The tokens implement the ledger.
Ledger == INSTANCE TokenLedger WITH
    issued <- {t \in Tokens : table[t] # New},
    open <- {t \in Tokens : table[t] = Fresh},
    takers <- [t \in Tokens |-> Takers(t)],
    enrolled <- devices
ImplementsLedger == Ledger!Spec

=============================================================================
