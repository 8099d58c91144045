-------------------------- MODULE AgentTokensProofs --------------------------
(***************************************************************************)
(* AgentTokens for any number of tokens, registrations, machines and       *)
(* requests of the page.                                                   *)
(***************************************************************************)
EXTENDS AgentTokens, TLAPS

Regs == [at : {"idle", "sent", "used", "made", "saved", "failed"},
         t : Tokens \union {"none"}, took : BOOLEAN]

AskRecords == [at : {"idle", "asked", "checked", "answered"},
               kind : {"none", "load", "create", "revoke", "delete"},
               t : Tokens \union {"none"}, ok : BOOLEAN,
               view : [Tokens -> Views], lost : BOOLEAN, stale : BOOLEAN]

LEMMA TypeParts ==
    TypeOK <=> /\ table \in [Tokens -> Row \union {New, Gone}]
               /\ devices \subseteq Attempts /\ known \subseteq Tokens
               /\ reg \in [Attempts -> Regs]
               /\ config \in [Machines -> Attempts \union {"none", "broken"}]
               /\ ask \in [Requests -> AskRecords]
               /\ list \in [Tokens -> Views]
               /\ loading \in BOOLEAN /\ behind \in BOOLEAN
BY Zenon DEF TypeOK, Regs, AskRecords

-----------------------------------------------------------------------------
(* Records *)

LEMMA RowFacts ==
    /\ Fresh \in Row /\ ~Fresh.used /\ ~Fresh.revoked
    /\ New \notin Row /\ Gone \notin Row /\ Absent \notin Row
    /\ New # Gone /\ New # Absent /\ Gone # Absent
    /\ New # Fresh /\ Gone # Fresh
    /\ \A r \in Row : ~r.used /\ ~r.revoked => r = Fresh
<1>1. Fresh \in Row /\ ~Fresh.used /\ ~Fresh.revoked
  BY SMT DEF Fresh, Row
<1>2. New \notin Row /\ Gone \notin Row /\ Absent \notin Row
  BY SMT DEF New, Gone, Absent, Row
<1>3. New # Gone /\ New # Absent /\ Gone # Absent
  <2>1. New.state = "new" /\ Gone.state = "gone" /\ Absent.state = "absent"
    BY DEF New, Gone, Absent
  <2> QED
    BY <2>1, SMT
<1>4. \A r \in Row : ~r.used /\ ~r.revoked => r = Fresh
  BY SMT DEF Fresh, Row
<1> QED
  BY <1>1, <1>2, <1>3, <1>4

LEMMA RowChanges ==
    ASSUME NEW r \in Row
    PROVE  /\ Used(r) \in Row /\ Used(r).used /\ Used(r).revoked = r.revoked
           /\ Revoked(r) \in Row /\ Revoked(r).revoked /\ Revoked(r).used = r.used
BY Zenon DEF Row, Used, Revoked

LEMMA RegChanges ==
    ASSUME NEW r \in Regs, NEW at \in {"made", "saved", "failed"}
    PROVE  /\ Moved(r, at) \in Regs /\ Moved(r, at).at = at
           /\ Moved(r, at).t = r.t /\ Moved(r, at).took = r.took
BY Zenon DEF Regs, Moved

LEMMA RegBegins ==
    ASSUME NEW t \in Tokens
    PROVE  /\ Unsent \in Regs /\ Unsent.at = "idle" /\ ~Unsent.took
           /\ Sent(t) \in Regs /\ Sent(t).at = "sent" /\ Sent(t).t = t /\ ~Sent(t).took
<1>1. Unsent \in Regs /\ Unsent.at = "idle" /\ ~Unsent.took
  BY SMT DEF Regs, Unsent
<1> QED
  BY <1>1, Zenon DEF Regs, Sent

LEMMA RegTakes ==
    ASSUME NEW r \in Regs
    PROVE  Taken(r) \in Regs /\ Taken(r).at = "used" /\ Taken(r).t = r.t /\ Taken(r).took
BY Zenon DEF Regs, Taken

LEMMA NoAskTyped ==
    /\ NoAsk \in AskRecords
    /\ NoAsk.at = "idle" /\ NoAsk.kind = "none" /\ ~NoAsk.ok /\ ~NoAsk.lost
    /\ \A t \in Tokens : NoAsk.view[t] = Absent
    /\ NoAsk.view \in [Tokens -> Views]
BY SMT DEF NoAsk, AskRecords, Views

LEMMA AskChanges ==
    ASSUME NEW r \in AskRecords, NEW t \in Tokens \union {"none"}, NEW ok \in BOOLEAN,
           NEW view \in [Tokens -> Views]
    PROVE  /\ Reply(r, t, ok, view) \in AskRecords
           /\ Reply(r, t, ok, view).at = "answered" /\ Reply(r, t, ok, view).kind = r.kind
           /\ Reply(r, t, ok, view).t = t /\ Reply(r, t, ok, view).ok = ok
           /\ Reply(r, t, ok, view).view = view
BY Zenon DEF AskRecords, Reply

LEMMA QuestionTyped ==
    ASSUME NEW kind \in {"load", "create", "revoke", "delete"}, NEW t \in Tokens \union {"none"}
    PROVE  /\ Question(kind, t) \in AskRecords
           /\ Question(kind, t).at = "asked" /\ Question(kind, t).kind = kind
           /\ Question(kind, t).t = t /\ Question(kind, t).view = NoAsk.view
BY NoAskTyped, Zenon DEF AskRecords, Question

\* Equal but for the flags.
Same(x, y) == x.at = y.at /\ x.kind = y.kind /\ x.t = y.t /\ x.ok = y.ok /\ x.view = y.view

LEMMA AskFlags ==
    ASSUME NEW r \in AskRecords
    PROVE  /\ Stale(r) \in AskRecords /\ Same(Stale(r), r)
           /\ GivenUp(r) \in AskRecords /\ Same(GivenUp(r), r)
BY Zenon DEF AskRecords, Same, Stale, GivenUp

LEMMA CheckedTyped ==
    ASSUME NEW r \in AskRecords
    PROVE  /\ Moved(r, "checked") \in AskRecords /\ Moved(r, "checked").at = "checked"
           /\ Moved(r, "checked").kind = r.kind /\ Moved(r, "checked").t = r.t
           /\ Moved(r, "checked").view = r.view
BY Zenon DEF AskRecords, Moved

-----------------------------------------------------------------------------
(* Requests of the page *)

LEMMA OutdatedKeeps ==
    ASSUME NEW aks \in [Requests -> AskRecords], NEW t
    PROVE  /\ Outdated(aks, t) \in [Requests -> AskRecords]
           /\ \A r \in Requests : Same(Outdated(aks, t)[r], aks[r])
<1>1. ASSUME NEW r \in Requests
      PROVE  Outdated(aks, t)[r] \in AskRecords /\ Same(Outdated(aks, t)[r], aks[r])
  <2>1. Outdated(aks, t)[r] = aks[r] \/ Outdated(aks, t)[r] = Stale(aks[r])
    BY Zenon DEF Outdated
  <2> QED
    BY <2>1, AskFlags, SMT DEF Same
<1> QED
  BY <1>1, SMT DEF Outdated

\* A request q ends, and others may become outdated.
Ends(q) == ask'[q].at = "idle" /\ Same(ask'[q], NoAsk)

Others(q) == \A r \in Requests \ {q} : Same(ask'[r], ask[r])

LEMMA FinishedEnds ==
    ASSUME ask \in [Requests -> AskRecords], NEW q \in Requests, Finished(q)
    PROVE  ask' \in [Requests -> AskRecords] /\ Ends(q) /\ Others(q)
<1> DEFINE rest == [ask EXCEPT ![q] = NoAsk]
<1>1. rest \in [Requests -> AskRecords] /\ rest[q] = NoAsk
      /\ \A r \in Requests \ {q} : rest[r] = ask[r]
  BY NoAskTyped, SMT
<1>2. ask' = rest \/ ask' = Outdated(rest, ask[q].t)
  BY Zenon DEF Finished
<1> HIDE DEF rest
<1>3. ask' \in [Requests -> AskRecords] /\ \A r \in Requests : Same(ask'[r], rest[r])
  BY <1>1, <1>2, OutdatedKeeps, SMT DEF Same
<1> QED
  BY <1>1, <1>3, NoAskTyped, SMT DEF Ends, Others, Same

LEMMA AnswersEnds ==
    ASSUME ask \in [Requests -> AskRecords], behind \in BOOLEAN, NEW q \in Requests,
           NEW t \in Tokens \union {"none"}, NEW ok \in BOOLEAN, NEW view \in [Tokens -> Views],
           Answers(q, t, ok, view)
    PROVE  /\ ask' \in [Requests -> AskRecords] /\ behind' \in BOOLEAN /\ Others(q)
           /\ \/ Ends(q)
              \/ /\ ask'[q].at = "answered" /\ ask'[q].kind = ask[q].kind
                 /\ ask'[q].t = t /\ ask'[q].ok = ok /\ ask'[q].view = view
<1>b. behind' \in BOOLEAN
  BY Zenon DEF Answers
<1>1. CASE ask[q].lost
  <2> DEFINE rest == [ask EXCEPT ![q] = NoAsk]
  <2>1. rest \in [Requests -> AskRecords] /\ rest[q] = NoAsk
        /\ \A r \in Requests \ {q} : rest[r] = ask[r]
    BY NoAskTyped, SMT
  <2>2. ask' = rest \/ ask' = Outdated(rest, t)
    BY <1>1, Zenon DEF Answers
  <2> HIDE DEF rest
  <2>3. ask' \in [Requests -> AskRecords] /\ \A r \in Requests : Same(ask'[r], rest[r])
    BY <2>1, <2>2, OutdatedKeeps, SMT DEF Same
  <2> QED
    BY <1>b, <2>1, <2>3, NoAskTyped, SMT DEF Ends, Others, Same
<1>2. CASE ~ask[q].lost
  <2>1. ask' = [ask EXCEPT ![q] = Reply(ask[q], t, ok, view)]
    BY <1>2, Zenon DEF Answers
  <2>2. /\ Reply(ask[q], t, ok, view) \in AskRecords
        /\ Reply(ask[q], t, ok, view).at = "answered"
        /\ Reply(ask[q], t, ok, view).kind = ask[q].kind
        /\ Reply(ask[q], t, ok, view).t = t
        /\ Reply(ask[q], t, ok, view).ok = ok
        /\ Reply(ask[q], t, ok, view).view = view
    <3>1. ask[q] \in AskRecords
      OBVIOUS
    <3> QED
      BY <3>1, AskChanges
  <2>3. ask'[q] = Reply(ask[q], t, ok, view)
    BY <2>1, SMT
  <2>4. ask' \in [Requests -> AskRecords] /\ \A r \in Requests \ {q} : ask'[r] = ask[r]
    BY <2>1, <2>2, SMT
  <2> QED
    BY <1>b, <2>2, <2>3, <2>4, Zenon DEF Others, Same
<1> QED
  BY <1>1, <1>2

LEMMA AsksShape ==
    ASSUME ask \in [Requests -> AskRecords], NEW q \in Requests,
           NEW kind \in {"load", "create", "revoke", "delete"},
           NEW t \in Tokens \union {"none"}, Asks(q, kind, t)
    PROVE  /\ ask' \in [Requests -> AskRecords] /\ Others(q)
           /\ ask'[q].at = "asked" /\ ask'[q].kind = kind /\ ask'[q].t = t
           /\ ask'[q].view = NoAsk.view
<1>1. ask' = [ask EXCEPT ![q] = Question(kind, t)]
  BY Zenon DEF Asks
<1> QED
  BY <1>1, QuestionTyped, SMT DEF Others, Same

LEMMA LosesShape ==
    ASSUME ask \in [Requests -> AskRecords], NEW q \in Requests, Loses(q)
    PROVE  /\ ask' \in [Requests -> AskRecords] /\ Others(q)
           /\ Ends(q) \/ Same(ask'[q], ask[q])
<1>1. ask' = [ask EXCEPT ![q] = NoAsk] \/ ask' = [ask EXCEPT ![q] = GivenUp(ask[q])]
  BY Zenon DEF Loses
<1> QED
  BY <1>1, AskFlags, NoAskTyped, SMT DEF Others, Ends, Same
-----------------------------------------------------------------------------
(* Types.  They are inductive with the names that requests carry. *)

AskNamed(r) ==
    /\ r.kind \in {"revoke", "delete"} => r.t \in Tokens
    /\ r.kind = "create" /\ r.at = "answered" /\ r.ok => r.t \in Tokens

Named ==
    /\ \A a \in Attempts : reg[a].at # "idle" => reg[a].t \in Tokens
    /\ \A q \in Requests : AskNamed(ask[q])

TypeInv == TypeOK /\ Named

LEMMA FailsTyped ==
    ASSUME reg \in [Attempts -> Regs], NEW a \in Attempts, Fails(a)
    PROVE  /\ reg' \in [Attempts -> Regs] /\ reg'[a].at = "failed"
           /\ reg'[a].t = reg[a].t /\ reg'[a].took = reg[a].took
           /\ \A b \in Attempts \ {a} : reg'[b] = reg[b]
BY RegChanges DEF Fails

LEMMA ViewsTyped ==
    ASSUME table \in [Tokens -> Row \union {New, Gone}]
    PROVE  /\ AllViews \in [Tokens -> Views]
           /\ \A t \in Tokens, row \in Row : Only(t, row) \in [Tokens -> Views]
BY NoAskTyped, SMT DEF AllViews, View, Present, Views, Only

\* A step of a request that names its token leaves the requests typed.
LEMMA AskNamedStep ==
    ASSUME TypeInv, NEW q \in Requests, ask' \in [Requests -> AskRecords], Others(q),
           Ends(q) \/ Same(ask'[q], ask[q]) \/ AskNamed(ask'[q])
    PROVE  \A r \in Requests : AskNamed(ask'[r])
BY NoAskTyped, SMT DEF TypeInv, Named, AskNamed, Others, Ends, Same

LEMMA ServesTyped ==
    ASSUME TypeInv, NEW q \in Requests, Serves(q)
    PROVE  TypeInv'
<1>t. /\ table \in [Tokens -> Row \union {New, Gone}] /\ ask \in [Requests -> AskRecords]
      /\ behind \in BOOLEAN /\ ask[q] \in AskRecords
  BY TypeParts DEF TypeInv
<1>u. UNCHANGED <<devices, known, reg, config, list, loading>>
  BY Zenon DEF Serves, HandlesInVain, HandlesLoad, HandlesCreate, HandlesRevoke, HandlesDelete,
     DeletesRow, Handles, agentVars
<1>p. ASSUME table' \in [Tokens -> Row \union {New, Gone}], ask' \in [Requests -> AskRecords],
             behind' \in BOOLEAN, Others(q),
             Ends(q) \/ Same(ask'[q], ask[q]) \/ AskNamed(ask'[q])
      PROVE  TypeInv'
  <2>1. TypeOK'
    BY <1>p, <1>u, TypeParts, Zenon DEF TypeInv, TypeOK, Regs, AskRecords
  <2>2. \A r \in Requests : AskNamed(ask'[r])
    BY <1>p, AskNamedStep
  <2> QED
    BY <2>1, <2>2, <1>u, Zenon DEF TypeInv, Named, AskNamed
<1>f. /\ ask[q].t \in Tokens \union {"none"} /\ ask[q].view \in [Tokens -> Views]
      /\ TRUE \in BOOLEAN /\ FALSE \in BOOLEAN /\ "none" \in Tokens \union {"none"}
      /\ AskNamed(ask[q])
  BY <1>t DEF AskRecords, TypeInv, Named
<1>a. ASSUME NEW t \in Tokens \union {"none"}, NEW ok \in BOOLEAN, NEW view \in [Tokens -> Views],
             Answers(q, t, ok, view), table' \in [Tokens -> Row \union {New, Gone}],
             (ask[q].kind = "create" /\ ok) \/ ask[q].kind \in {"revoke", "delete"} => t \in Tokens
      PROVE  TypeInv'
  <2>1. /\ ask' \in [Requests -> AskRecords] /\ behind' \in BOOLEAN /\ Others(q)
        /\ \/ Ends(q)
           \/ /\ ask'[q].at = "answered" /\ ask'[q].kind = ask[q].kind
              /\ ask'[q].t = t /\ ask'[q].ok = ok /\ ask'[q].view = view
    <3>1. /\ ask \in [Requests -> AskRecords] /\ behind \in BOOLEAN /\ Answers(q, t, ok, view)
          /\ t \in Tokens \union {"none"} /\ ok \in BOOLEAN /\ view \in [Tokens -> Views]
      BY <1>a, <1>t
    <3> QED
      BY <3>1, AnswersEnds
  <2>2. Ends(q) \/ AskNamed(ask'[q])
    BY <2>1, <1>a, <1>f, SMT DEF AskNamed
  <2> QED
    BY <2>1, <2>2, <1>a, <1>p
<1>1. CASE HandlesInVain(q)
  <2>1. Answers(q, ask[q].t, FALSE, ask[q].view) /\ table' = table
    BY <1>1 DEF HandlesInVain
  <2> QED
    BY <2>1, <1>t, <1>f, <1>a DEF AskNamed
<1>2. CASE HandlesLoad(q)
  <2>1. Answers(q, "none", TRUE, AllViews) /\ table' = table /\ ask[q].kind = "load"
    BY <1>2, Zenon DEF HandlesLoad, Handles
  <2> QED
    BY <2>1, <1>t, <1>f, <1>a, ViewsTyped
<1>3. ASSUME NEW t \in Tokens, HandlesCreate(q, t) PROVE TypeInv'
  <2>1. Only(t, Fresh) \in [Tokens -> Views] /\ t \in Tokens \union {"none"}
    BY <1>t, ViewsTyped, RowFacts
  <2>2. table' \in [Tokens -> Row \union {New, Gone}]
    BY <1>3, <1>t, RowFacts DEF HandlesCreate
  <2>3. Answers(q, t, TRUE, Only(t, Fresh))
    BY <1>3, Zenon DEF HandlesCreate
  <2> QED
    BY <2>1, <2>2, <2>3, <1>f, <1>a
<1>4. CASE HandlesRevoke(q)
  <2> DEFINE t == ask[q].t
  <2>1. /\ Present(t) /\ Commits(t) /\ ask[q].kind = "revoke"
        /\ Answers(q, t, TRUE, Only(t, Revoked(table[t])))
    BY <1>4, <1>f, Zenon DEF HandlesRevoke, Handles
  <2>2. t \in Tokens
    BY <2>1, <1>f DEF AskNamed
  <2>3. Revoked(table[t]) \in Row
    BY <2>1, <2>2, <1>t, RowChanges DEF Present
  <2>4. table' \in [Tokens -> Row \union {New, Gone}]
    BY <2>1, <2>3, <1>t DEF Commits
  <2>5. Only(t, Revoked(table[t])) \in [Tokens -> Views]
    BY <2>3, <2>2, <1>t, ViewsTyped
  <2> HIDE DEF t
  <2> QED
    BY <2>1, <2>2, <2>4, <2>5, <1>f, <1>a
<1>5. CASE HandlesDelete(q)
  <2>1. /\ ask' = [ask EXCEPT ![q] = Moved(ask[q], "checked")]
        /\ UNCHANGED <<table, behind>> /\ ask[q].kind = "delete"
    BY <1>5, Zenon DEF HandlesDelete, Handles
  <2>4. ask' \in [Requests -> AskRecords] /\ Others(q) /\ AskNamed(ask'[q])
    BY <2>1, <1>t, <1>f, CheckedTyped, SMT DEF Others, Same, AskNamed
  <2> QED
    BY <2>1, <2>4, <1>t, <1>p
<1>6. CASE DeletesRow(q)
  <2> DEFINE t == ask[q].t
  <2>1. /\ table' = [table EXCEPT ![t] = Gone] /\ ask[q].kind = "delete"
        /\ Answers(q, t, TRUE, ask[q].view)
    BY <1>6, Zenon DEF DeletesRow, Handles
  <2>2. table' \in [Tokens -> Row \union {New, Gone}]
    BY <2>1, <1>t
  <2>3. t \in Tokens
    BY <2>1, <1>f DEF AskNamed
  <2> QED
    BY <2>1, <2>2, <2>3, <1>f, <1>a
<1> QED
  BY <1>1, <1>2, <1>3, <1>4, <1>5, <1>6 DEF Serves

LEMMA PageTyped ==
    ASSUME TypeInv, NEW q \in Requests, Page(q)
    PROVE  TypeInv'
<1>t. /\ list \in [Tokens -> Views] /\ ask \in [Requests -> AskRecords] /\ known \subseteq Tokens
      /\ behind \in BOOLEAN /\ loading \in BOOLEAN /\ ask[q] \in AskRecords
  BY TypeParts DEF TypeInv
<1>u. UNCHANGED <<table, devices, reg, config>>
  BY Zenon DEF Page, Load, Create, Revoke, Delete, Asks, GetsLoad, GetsCreate, GetsRevoke,
     GetsDelete, GetsError, Gets, Finished, Loses, serverVars, agentVars
<1>p. ASSUME list' \in [Tokens -> Views], known' \subseteq Tokens, behind' \in BOOLEAN,
             loading' \in BOOLEAN, ask' \in [Requests -> AskRecords], Others(q),
             Ends(q) \/ Same(ask'[q], ask[q]) \/ AskNamed(ask'[q])
      PROVE  TypeInv'
  <2>1. TypeOK'
    BY <1>p, <1>u, TypeParts, Zenon DEF TypeInv, TypeOK, Regs, AskRecords
  <2>2. \A r \in Requests : AskNamed(ask'[r])
    BY <1>p, AskNamedStep
  <2> QED
    BY <2>1, <2>2, <1>u, Zenon DEF TypeInv, Named, AskNamed
<1>f. /\ ask[q].view \in [Tokens -> Views] /\ ask[q].ok \in BOOLEAN /\ ask[q].stale \in BOOLEAN
      /\ AskNamed(ask[q])
  BY <1>t DEF AskRecords, TypeInv, Named
<1>a. ASSUME NEW kind \in {"load", "create", "revoke", "delete"}, NEW t \in Tokens \union {"none"},
             Asks(q, kind, t), kind \in {"revoke", "delete"} => t \in Tokens
      PROVE  TypeInv'
  <2>1. /\ ask' \in [Requests -> AskRecords] /\ Others(q)
        /\ ask'[q].at = "asked" /\ ask'[q].kind = kind /\ ask'[q].t = t
    BY <1>a, <1>t, AsksShape
  <2>2. AskNamed(ask'[q])
    BY <2>1, <1>a, SMT DEF AskNamed
  <2>3. loading' \in BOOLEAN /\ UNCHANGED <<list, known, behind>>
    BY <1>a DEF Asks
  <2> QED
    BY <2>1, <2>2, <2>3, <1>t, <1>p
<1>b. ASSUME Finished(q), list' \in [Tokens -> Views], known' \subseteq Tokens, behind' \in BOOLEAN
      PROVE  TypeInv'
  <2>1. loading' \in BOOLEAN
    BY <1>b DEF Finished
  <2> QED
    BY <2>1, <1>b, <1>t, <1>p, FinishedEnds
<1>1. CASE Load(q) \/ Create(q) \/ \E t \in Tokens : Revoke(q, t) \/ Delete(q, t)
  BY <1>1, <1>a DEF Load, Create, Revoke, Delete
<1>2. CASE GetsLoad(q)
  BY <1>2, <1>b, <1>t, <1>f, Zenon DEF GetsLoad, Gets
<1>3. CASE GetsCreate(q)
  <2>1. ask[q].t \in Tokens
    BY <1>3, <1>f DEF GetsCreate, Gets, AskNamed
  <2>2. list' \in [Tokens -> Views] /\ known' \subseteq Tokens
    BY <1>3, <2>1, <1>t, <1>f, SMT DEF GetsCreate
  <2>3. behind' \in BOOLEAN
    BY <1>3, Zenon DEF GetsCreate
  <2> QED
    BY <1>3, <2>2, <2>3, <1>b DEF GetsCreate, Gets
<1>4. CASE GetsRevoke(q)
  <2>1. list' \in [Tokens -> Views]
    BY <1>4, <1>t, <1>f, Zenon DEF GetsRevoke, Views
  <2> QED
    BY <1>4, <2>1, <1>t, <1>b DEF GetsRevoke, Gets
<1>5. CASE GetsDelete(q)
  <2>1. list' \in [Tokens -> Views]
    BY <1>5, <1>t, Zenon DEF GetsDelete, Without, Views
  <2> QED
    BY <1>5, <2>1, <1>t, <1>b DEF GetsDelete, Gets
<1>6. CASE GetsError(q)
  <2>1. behind' \in BOOLEAN
    BY <1>6, Zenon DEF GetsError
  <2> QED
    BY <1>6, <2>1, <1>t, <1>b DEF GetsError
<1>7. CASE Loses(q)
  <2>1. loading' \in BOOLEAN /\ UNCHANGED <<list, known, behind>>
    BY <1>7 DEF Loses
  <2> QED
    BY <1>7, <2>1, <1>t, <1>p, LosesShape
<1> QED
  BY <1>1, <1>2, <1>3, <1>4, <1>5, <1>6, <1>7 DEF Page

\* What an attempt does in a step, and to whom.
LEMMA EnrollsShape ==
    ASSUME TypeInv, NEW a \in Attempts, Enrolls(a)
    PROVE  /\ reg' \in [Attempts -> Regs] /\ table' \in [Tokens -> Row \union {New, Gone}]
           /\ \A b \in Attempts \ {a} : reg'[b] = reg[b]
           /\ \/ /\ reg[a].at = "idle" /\ reg'[a].at = "sent" /\ reg'[a].t \in Tokens
                 /\ ~reg'[a].took /\ UNCHANGED <<table, devices, config>>
              \/ /\ reg[a].at = "sent" /\ reg'[a].at = "used" /\ reg'[a].t = reg[a].t /\ reg'[a].took
                 /\ table[reg[a].t] = Fresh /\ table' = [table EXCEPT ![reg[a].t] = Used(Fresh)]
                 /\ UNCHANGED <<devices, config>>
              \/ /\ reg[a].at = "used" /\ reg'[a].at = "made" /\ reg'[a].t = reg[a].t
                 /\ reg'[a].took = reg[a].took
                 /\ devices' = devices \union {a} /\ UNCHANGED <<table, config>>
              \/ /\ reg[a].at = "made" /\ reg'[a].at = "saved" /\ reg'[a].t = reg[a].t
                 /\ reg'[a].took = reg[a].took
                 /\ config' = [config EXCEPT ![MachineOf[a]] = a] /\ UNCHANGED <<table, devices>>
              \/ /\ reg[a].at # "idle" /\ reg'[a].at = "failed" /\ reg'[a].t = reg[a].t
                 /\ reg'[a].took = reg[a].took
                 /\ config' = config \/ config' = [config EXCEPT ![MachineOf[a]] = "broken"]
                 /\ UNCHANGED <<table, devices>>
<1>t. /\ reg \in [Attempts -> Regs] /\ table \in [Tokens -> Row \union {New, Gone}]
      /\ reg[a] \in Regs
  BY TypeParts DEF TypeInv
<1>1. ASSUME NEW t \in Tokens, Register(a, t)
      PROVE  /\ reg' = [reg EXCEPT ![a] = Sent(t)] /\ reg[a].at = "idle"
             /\ UNCHANGED <<table, devices, config>>
  BY <1>1 DEF Register, serverVars
<1>2. ASSUME reg[a].at = "sent", Usable(a)
      PROVE  reg[a].t \in Tokens /\ table[reg[a].t] = Fresh
  <2>1. reg[a].t \in Tokens
    BY <1>2 DEF TypeInv, Named
  <2> QED
    BY <1>2, <2>1, <1>t, RowFacts DEF Usable, Present
<1>3. CASE \E t \in Tokens : Register(a, t)
  <2>1. PICK t \in Tokens : Register(a, t)
    BY <1>3
  <2> QED
    BY <2>1, <1>1, <1>t, RegBegins
<1>4. CASE UseToken(a) /\ Usable(a) /\ reg' = [reg EXCEPT ![a] = Taken(@)]
           /\ table' = [table EXCEPT ![reg[a].t] = Used(@)]
  <2>3. reg[a].at = "sent" /\ UNCHANGED <<devices, config>>
    BY <1>4 DEF UseToken
  <2>4. table[reg[a].t] = Fresh /\ table' = [table EXCEPT ![reg[a].t] = Used(Fresh)] /\ reg[a].t \in Tokens
    BY <1>4, <2>3, <1>2
  <2>5. table' \in [Tokens -> Row \union {New, Gone}]
    BY <2>4, <1>t, RowFacts, RowChanges
  <2> QED
    BY <1>4, <2>3, <2>4, <2>5, <1>t, RegTakes
<1>5. CASE Fails(a) /\ reg[a].at # "idle" /\ UNCHANGED <<table, devices>>
           /\ (config' = config \/ config' = [config EXCEPT ![MachineOf[a]] = "broken"])
  BY <1>5, <1>t, FailsTyped
<1>6. CASE CreateDevice(a) /\ reg' = [reg EXCEPT ![a] = Moved(@, "made")]
           /\ devices' = devices \union {a} /\ UNCHANGED table
  <2>1. reg[a].at = "used" /\ UNCHANGED config
    BY <1>6 DEF CreateDevice
  <2> QED
    BY <1>6, <2>1, <1>t, RegChanges
<1>7. CASE SaveConfig(a) /\ reg' = [reg EXCEPT ![a] = Moved(@, "saved")]
           /\ config' = [config EXCEPT ![MachineOf[a]] = a]
  <2>1. reg[a].at = "made" /\ UNCHANGED <<table, devices>>
    BY <1>7 DEF SaveConfig, serverVars
  <2> QED
    BY <1>7, <2>1, <1>t, RegChanges
<1> QED
  BY <1>3, <1>4, <1>5, <1>6, <1>7, Zenon
  DEF Enrolls, UseToken, CreateDevice, DeviceFails, SaveConfig, serverVars

LEMMA EnrollsTyped ==
    ASSUME TypeInv, NEW a \in Attempts, Enrolls(a)
    PROVE  TypeInv'
<1>t. devices \subseteq Attempts /\ config \in [Machines -> Attempts \union {"none", "broken"}]
  BY TypeParts DEF TypeInv
<1>1. devices' \subseteq Attempts /\ config' \in [Machines -> Attempts \union {"none", "broken"}]
  BY <1>t, EnrollsShape, MachineAssumption
<1>2. UNCHANGED pageVars
  BY Zenon DEF Enrolls, Register, UseToken, CreateDevice, SaveConfig
<1>3. TypeOK'
  BY <1>1, <1>2, EnrollsShape, TypeParts, Zenon DEF TypeInv, TypeOK, Regs, AskRecords, pageVars
<1>4. \A b \in Attempts : reg'[b].at # "idle" => reg'[b].t \in Tokens
  BY EnrollsShape DEF TypeInv, Named
<1> QED
  BY <1>2, <1>3, <1>4, Zenon DEF TypeInv, Named, AskNamed, pageVars

LEMMA TypeInvInductive == (Init => TypeInv) /\ (TypeInv /\ [Next]_vars => TypeInv')
<1>1. Init => TypeInv
  <2> SUFFICES ASSUME Init PROVE TypeInv
    OBVIOUS
  <2>1. PICK old \in SUBSET Tokens :
            /\ table = [t \in Tokens |-> IF t \in old THEN Fresh ELSE New]
            /\ known = old /\ behind = (old # {}) /\ devices = {}
            /\ reg = [a \in Attempts |-> Unsent] /\ config = [m \in Machines |-> "none"]
            /\ ask = [q \in Requests |-> NoAsk] /\ list = [t \in Tokens |-> Absent]
            /\ loading = FALSE
    BY Zenon DEF Init
  <2>2. /\ table \in [Tokens -> Row \union {New, Gone}] /\ known \subseteq Tokens
        /\ list \in [Tokens -> Views] /\ config \in [Machines -> Attempts \union {"none", "broken"}]
        /\ devices \subseteq Attempts
    BY <2>1, RowFacts DEF Views
  <2>3. reg \in [Attempts -> Regs] /\ \A a \in Attempts : reg[a].at = "idle"
    BY <2>1, RegBegins, SMT DEF Unsent, Regs
  <2>4. ask \in [Requests -> AskRecords] /\ \A q \in Requests : AskNamed(ask[q])
    BY <2>1, NoAskTyped, SMT DEF AskNamed
  <2>5. behind \in BOOLEAN /\ loading \in BOOLEAN
    BY <2>1, Zenon
  <2> QED
    BY <2>2, <2>3, <2>4, <2>5, TypeParts DEF TypeInv, Named
<1>2. TypeInv /\ [Next]_vars => TypeInv'
  <2> SUFFICES ASSUME TypeInv, [Next]_vars PROVE TypeInv'
    OBVIOUS
  <2>1. CASE UNCHANGED vars
    BY <2>1, Zenon DEF TypeInv, TypeOK, Named, AskNamed, vars, serverVars, agentVars, pageVars
  <2> QED
    BY <2>1, EnrollsTyped, PageTyped, ServesTyped DEF Next
<1> QED
  BY <1>1, <1>2

\* The types hold in every state.
THEOREM TypeCorrect == Spec => []TypeOK
<1>1. TypeInv => TypeOK
  BY DEF TypeInv
<1> QED
  BY <1>1, TypeInvInductive, PTL DEF Spec
-----------------------------------------------------------------------------
(* What a step does to the table and to the attempts *)

Took(a, t) == reg[a].took /\ reg[a].t = t

\* A row that a deletion has found is revoked for good.
Checked ==
    \A q \in Requests : ask[q].at = "checked" =>
        ask[q].kind = "delete" /\ table[ask[q].t] \notin {New, Fresh}

\* A change of the row of token t by the page.
RowStep(t) ==
    /\ UNCHANGED <<reg, devices, config>>
    /\ table' \in [Tokens -> Row \union {New, Gone}]
    /\ \A u \in Tokens \ {t} : table'[u] = table[u]
    /\ \/ table[t] = New /\ table'[t] = Fresh
       \/ table[t] \in Row /\ table'[t] = Revoked(table[t])
       \/ table[t] \in Row \ {Fresh} /\ table'[t] = Gone

LEMMA ServesShape ==
    ASSUME TypeInv, Checked, NEW q \in Requests, Serves(q)
    PROVE  /\ UNCHANGED <<reg, devices, config, list>>
           /\ UNCHANGED table \/ \E t \in Tokens : RowStep(t)
<1>t. table \in [Tokens -> Row \union {New, Gone}] /\ AskNamed(ask[q])
  BY TypeParts DEF TypeInv, Named
<1>u. UNCHANGED <<reg, devices, config, list>>
  BY Zenon DEF Serves, HandlesInVain, HandlesLoad, HandlesCreate, HandlesRevoke, HandlesDelete,
     DeletesRow, Handles, agentVars
<1>1. CASE HandlesInVain(q) \/ HandlesLoad(q) \/ HandlesDelete(q)
  BY <1>1, <1>u, Zenon DEF HandlesInVain, HandlesLoad, HandlesDelete
<1>2. ASSUME NEW t \in Tokens, HandlesCreate(q, t) PROVE RowStep(t)
  <2>1. table[t] = New /\ table' = [table EXCEPT ![t] = Fresh]
    BY <1>2, Zenon DEF HandlesCreate
  <2> QED
    BY <2>1, <1>t, <1>u, RowFacts DEF RowStep
<1>3. CASE HandlesRevoke(q)
  <2>1. /\ Present(ask[q].t) /\ ask[q].kind = "revoke"
        /\ table' = [table EXCEPT ![ask[q].t] = Revoked(table[ask[q].t])]
    BY <1>3, Zenon DEF HandlesRevoke, Handles, Commits
  <2>2. ask[q].t \in Tokens
    BY <2>1, <1>t DEF AskNamed
  <2>3. table[ask[q].t] \in Row /\ Revoked(table[ask[q].t]) \in Row
    BY <2>1, <2>2, <1>t, RowChanges DEF Present
  <2>4. RowStep(ask[q].t)
    BY <2>1, <2>2, <2>3, <1>t, <1>u DEF RowStep
  <2> QED
    BY <2>2, <2>4, <1>u
<1>4. CASE DeletesRow(q)
  <2>1. /\ Present(ask[q].t) /\ ask[q].kind = "delete" /\ ask[q].at = "checked"
        /\ table' = [table EXCEPT ![ask[q].t] = Gone]
    BY <1>4, Zenon DEF DeletesRow, Handles
  <2>2. ask[q].t \in Tokens
    BY <2>1, <1>t DEF AskNamed
  <2>3. table[ask[q].t] \in Row \ {Fresh}
    BY <2>1, <2>2, <1>t DEF Present, Checked
  <2>4. RowStep(ask[q].t)
    BY <2>1, <2>2, <2>3, <1>t, <1>u DEF RowStep
  <2> QED
    BY <2>2, <2>4, <1>u
<1> QED
  BY <1>1, <1>2, <1>3, <1>4, <1>u DEF Serves

LEMMA PageShape ==
    ASSUME NEW q \in Requests, Page(q)
    PROVE  UNCHANGED <<table, reg, devices, config>>
BY Zenon DEF Page, Load, Create, Revoke, Delete, Asks, GetsLoad, GetsCreate, GetsRevoke,
   GetsDelete, GetsError, Gets, Finished, Loses, serverVars, agentVars

\* The steps of attempt a, as EnrollsShape lists them.
Sends(a) ==
    /\ reg[a].at = "idle" /\ reg'[a].at = "sent" /\ ~reg'[a].took
    /\ UNCHANGED <<table, devices, config>>
Takes(a) ==
    /\ reg[a].at = "sent" /\ reg'[a].at = "used" /\ reg'[a].t = reg[a].t /\ reg'[a].took
    /\ reg[a].t \in Tokens /\ table[reg[a].t] = Fresh
    /\ table' = [table EXCEPT ![reg[a].t] = Used(Fresh)]
    /\ UNCHANGED <<devices, config>>
Makes(a) ==
    /\ reg[a].at = "used" /\ reg'[a].at = "made" /\ reg'[a].t = reg[a].t
    /\ reg'[a].took = reg[a].took
    /\ devices' = devices \union {a} /\ UNCHANGED <<table, config>>
Saves(a) ==
    /\ reg[a].at = "made" /\ reg'[a].at = "saved" /\ reg'[a].t = reg[a].t
    /\ reg'[a].took = reg[a].took
    /\ config' = [config EXCEPT ![MachineOf[a]] = a] /\ UNCHANGED <<table, devices>>
Stops(a) ==
    /\ reg[a].at # "idle" /\ reg'[a].at = "failed" /\ reg'[a].t = reg[a].t
    /\ reg'[a].took = reg[a].took
    /\ config' = config \/ config' = [config EXCEPT ![MachineOf[a]] = "broken"]
    /\ UNCHANGED <<table, devices>>

RegStep(a) ==
    /\ \A b \in Attempts \ {a} : reg'[b] = reg[b]
    /\ UNCHANGED <<list, ask>>
    /\ Sends(a) \/ Takes(a) \/ Makes(a) \/ Saves(a) \/ Stops(a)

LEMMA EnrollsSteps ==
    ASSUME TypeInv, NEW a \in Attempts, Enrolls(a)
    PROVE  RegStep(a)
<1>1. UNCHANGED pageVars
  BY Zenon DEF Enrolls, Register, UseToken, CreateDevice, SaveConfig
<1>2. reg[a].at = "sent" => reg[a].t \in Tokens
  BY DEF TypeInv, Named
<1> QED
  BY <1>1, <1>2, EnrollsShape, Zenon DEF RegStep, Sends, Takes, Makes, Saves, Stops, pageVars

-----------------------------------------------------------------------------
(* Tokens and devices *)

IsSpent(x) == x = Gone \/ (x \in Row /\ x.used)

LEMMA SpentFacts ==
    /\ IsSpent(Gone) /\ ~IsSpent(New) /\ ~IsSpent(Fresh) /\ IsSpent(Used(Fresh))
    /\ \A r \in Row : IsSpent(r) => IsSpent(Revoked(r))
    /\ \A r \in Row : IsSpent(r) <=> r.used
<1>1. IsSpent(Gone) /\ ~IsSpent(New) /\ ~IsSpent(Fresh) /\ IsSpent(Used(Fresh))
  <2>1. /\ Fresh \in Row /\ ~Fresh.used /\ New \notin Row /\ New # Gone /\ Gone # Fresh
        /\ Used(Fresh) \in Row /\ Used(Fresh).used
    BY RowFacts, RowChanges
  <2>2. IsSpent(Gone)
    BY Zenon DEF IsSpent
  <2>3. ~IsSpent(New)
    BY <2>1, Zenon DEF IsSpent
  <2>4. ~IsSpent(Fresh)
    BY <2>1, Zenon DEF IsSpent
  <2>5. IsSpent(Used(Fresh))
    BY <2>1, Zenon DEF IsSpent
  <2> QED
    BY <2>2, <2>3, <2>4, <2>5, Zenon
<1>2. ASSUME NEW r \in Row PROVE (IsSpent(r) => IsSpent(Revoked(r))) /\ (IsSpent(r) <=> r.used)
  <2>1. r # Gone /\ Revoked(r) \in Row /\ Revoked(r).used = r.used
    BY RowFacts, RowChanges
  <2>2. IsSpent(r) <=> r.used
    BY <2>1, Zenon DEF IsSpent
  <2> QED
    BY <2>1, <2>2, Zenon DEF IsSpent
<1> QED
  BY <1>1, <1>2

RegOK(a) ==
    /\ reg[a].at \in {"used", "made", "saved"} => reg[a].took
    /\ reg[a].at \in {"idle", "sent"} => ~reg[a].took
    /\ reg[a].at = "used" => a \notin devices
    /\ reg[a].at \in {"made", "saved"} => a \in devices
    /\ a \in devices => reg[a].took
    /\ reg[a].took => IsSpent(table[reg[a].t])

OneTaker == \A a, b \in Attempts : reg[a].took /\ reg[b].took /\ reg[a].t = reg[b].t => a = b

UsedIsTaken == \A t \in Tokens : table[t] \in Row /\ table[t].used => \E a \in Attempts : Took(a, t)

SavedIsMade == \A m \in Machines : config[m] \in Attempts => config[m] \in devices

Uses ==
    /\ \A a \in Attempts : RegOK(a)
    /\ OneTaker /\ UsedIsTaken /\ SavedIsMade

LEMMA UsesRow ==
    ASSUME TypeInv, Uses, NEW t \in Tokens, RowStep(t)
    PROVE  Uses'
<1>t. table \in [Tokens -> Row \union {New, Gone}] /\ reg \in [Attempts -> Regs]
  BY TypeParts DEF TypeInv
<1>1. ASSUME NEW a \in Attempts PROVE RegOK(a)'
  <2>1. reg[a].took => reg[a].t \in Tokens
    BY <1>t DEF TypeInv, Named, Uses, RegOK
  <2>2. ASSUME NEW u \in Tokens, IsSpent(table[u]) PROVE IsSpent(table'[u])
    BY <2>2, <1>t, SpentFacts DEF RowStep
  <2>3. RegOK(a) /\ reg' = reg /\ devices' = devices
    BY DEF Uses, RowStep
  <2>4. reg[a].took => IsSpent(table'[reg[a].t])
    BY <2>1, <2>2, <2>3 DEF RegOK
  <2> QED
    BY <2>3, <2>4, Zenon DEF RegOK, IsSpent
<1>2. UsedIsTaken'
  <2> SUFFICES ASSUME NEW u \in Tokens, table'[u] \in Row, table'[u].used
               PROVE  \E a \in Attempts : Took(a, u)'
    BY DEF UsedIsTaken
  <2>1. table[u] \in Row /\ table[u].used
    BY RowFacts, RowChanges DEF RowStep
  <2> QED
    BY <2>1 DEF Uses, UsedIsTaken, Took, RowStep
<1> QED
  BY <1>1, <1>2 DEF Uses, OneTaker, SavedIsMade, RowStep

LEMMA UsesReg ==
    ASSUME TypeInv, Uses, NEW a \in Attempts, RegStep(a)
    PROVE  Uses'
<1>t. /\ table \in [Tokens -> Row \union {New, Gone}] /\ reg \in [Attempts -> Regs]
      /\ config \in [Machines -> Attempts \union {"none", "broken"}]
  BY TypeParts DEF TypeInv
<1>n. /\ \A b \in Attempts : reg[b].took => reg[b].t \in Tokens
      /\ reg[a].at # "idle" => reg[a].t \in Tokens
      /\ \A b \in Attempts : RegOK(b)
      /\ \A b \in Attempts \ {a} : reg'[b] = reg[b]
  BY <1>t, SMT DEF TypeInv, Named, Uses, RegOK, RegStep
<1>u. Used(Fresh) \in Row /\ IsSpent(Used(Fresh)) /\ ~IsSpent(Fresh)
  BY RowFacts, RowChanges, SpentFacts
\* A token that can be taken has not been.
<1>f. ASSUME Takes(a), NEW b \in Attempts, reg[b].took PROVE reg[b].t # reg[a].t
  BY <1>f, <1>n, <1>u DEF Takes, RegOK
<1>1. ASSUME NEW b \in Attempts PROVE RegOK(b)'
  <2>1. ASSUME Takes(a), NEW t \in Tokens, IsSpent(table[t]) PROVE IsSpent(table'[t])
    BY <2>1, <1>t, <1>u DEF Takes
  <2>2. CASE b # a
    <3>1. reg'[b] = reg[b] /\ RegOK(b) /\ (reg[b].took => reg[b].t \in Tokens)
      BY <2>2, <1>n
    <3>2. CASE Takes(a)
      <4>1. reg[b].took => IsSpent(table'[reg[b].t])
        BY <3>1, <3>2, <2>1 DEF RegOK
      <4>2. devices' = devices
        BY <3>2 DEF Takes
      <4> QED
        BY <3>1, <4>1, <4>2, Zenon DEF RegOK, IsSpent
    <3>3. CASE Sends(a) \/ Makes(a) \/ Saves(a) \/ Stops(a)
      BY <3>1, <3>3, <2>2, SMT DEF RegOK, Sends, Makes, Saves, Stops
    <3> QED
      BY <3>2, <3>3 DEF RegStep
  <2>3. CASE b = a
    <3>1. RegOK(a)
      BY <1>n
    <3>2. CASE Takes(a)
      <4>1. IsSpent(table'[reg'[a].t])
        BY <3>2, <1>t, <1>u DEF Takes
      <4> QED
        BY <3>1, <3>2, <4>1, <2>3 DEF RegOK, Takes
    <3>3. CASE Sends(a)
      BY <3>1, <3>3, <2>3 DEF RegOK, Sends
    <3>4. CASE Makes(a)
      BY <3>1, <3>4, <2>3 DEF RegOK, Makes
    <3>5. CASE Saves(a)
      BY <3>1, <3>5, <2>3 DEF RegOK, Saves
    <3>6. CASE Stops(a)
      BY <3>1, <3>6, <2>3 DEF RegOK, Stops
    <3> QED
      BY <3>2, <3>3, <3>4, <3>5, <3>6 DEF RegStep
  <2> QED
    BY <2>2, <2>3
<1>2. OneTaker'
  <2>1. CASE Takes(a)
    BY <2>1, <1>f, <1>n DEF OneTaker, Uses, Takes
  <2>2. CASE Sends(a) \/ Makes(a) \/ Saves(a) \/ Stops(a)
    BY <2>2, <1>n, SMT DEF OneTaker, Uses, Sends, Makes, Saves, Stops
  <2> QED
    BY <2>1, <2>2 DEF RegStep
<1>3. \A b \in Attempts, t \in Tokens : Took(b, t) => Took(b, t)'
  <2>1. reg[a].took => reg'[a].took /\ reg'[a].t = reg[a].t
    BY <1>n DEF RegStep, RegOK, Sends, Takes, Makes, Saves, Stops
  <2> QED
    BY <2>1, <1>n DEF Took
<1>4. UsedIsTaken'
  <2> SUFFICES ASSUME NEW t \in Tokens, table'[t] \in Row, table'[t].used
               PROVE  \E b \in Attempts : Took(b, t)'
    BY DEF UsedIsTaken
  <2>1. CASE Takes(a) /\ t = reg[a].t
    BY <2>1 DEF Takes, Took
  <2>2. CASE ~(Takes(a) /\ t = reg[a].t)
    <3>1. table'[t] = table[t]
      BY <2>2, <1>t DEF RegStep, Sends, Takes, Makes, Saves, Stops
    <3> QED
      BY <3>1, <1>3 DEF Uses, UsedIsTaken
  <2> QED
    BY <2>1, <2>2
<1>5. SavedIsMade'
  <2>1. MachineOf[a] \in Machines /\ "broken" \notin Attempts
    BY MachineAssumption
  <2>2. CASE Sends(a) \/ Takes(a)
    BY <2>2, SMT DEF Sends, Takes, Uses, SavedIsMade
  <2>3. CASE Makes(a)
    BY <2>3 DEF Makes, Uses, SavedIsMade
  <2>4. CASE Saves(a)
    <3>1. a \in devices /\ devices' = devices /\ config' = [config EXCEPT ![MachineOf[a]] = a]
      BY <2>4, <1>n DEF Saves, RegOK
    <3> QED
      BY <3>1, <2>1, <1>t DEF Uses, SavedIsMade
  <2>5. CASE Stops(a)
    BY <2>1, <2>5, <1>t DEF Stops, Uses, SavedIsMade
  <2> QED
    BY <2>2, <2>3, <2>4, <2>5 DEF RegStep
<1> QED
  BY <1>1, <1>2, <1>4, <1>5 DEF Uses
-----------------------------------------------------------------------------
(* What the page shows *)

\* row is true of token t.
Truth(t, row) == row # Absent =>
    /\ table[t] # New
    /\ row.used \/ row.revoked => table[t] # Fresh
    /\ row.revoked /\ ~row.used => \A a \in Attempts : ~Took(a, t)
    /\ row.used => \E a \in Attempts : Took(a, t)

TableStep(t) ==
    /\ table[t] # New => table'[t] # New
    /\ table[t] # New /\ table[t] # Fresh => table'[t] # Fresh
    /\ table[t] # New /\ table[t] # Fresh => \A a \in Attempts : Took(a, t)' => Took(a, t)
    /\ \A a \in Attempts : Took(a, t) => Took(a, t)'

\* No step makes a row untrue that was true.
LEMMA TruthStays ==
    ASSUME NEW t \in Tokens, NEW row \in Views, TableStep(t), Truth(t, row)
    PROVE  row # Absent =>
              /\ table'[t] # New
              /\ row.used \/ row.revoked => table'[t] # Fresh
              /\ row.revoked /\ ~row.used => \A a \in Attempts : ~Took(a, t)'
              /\ row.used => \E a \in Attempts : Took(a, t)'
BY Zenon DEF TableStep, Truth

LEMMA StepsOfTable ==
    ASSUME TypeInv, Uses,
           \/ UNCHANGED <<table, reg>>
           \/ \E u \in Tokens : RowStep(u)
           \/ \E a \in Attempts : RegStep(a)
    PROVE  \A t \in Tokens : TableStep(t)
<1> SUFFICES ASSUME NEW t \in Tokens PROVE TableStep(t)
  OBVIOUS
<1>t. table \in [Tokens -> Row \union {New, Gone}]
  BY TypeParts DEF TypeInv
<1>1. CASE UNCHANGED <<table, reg>>
  BY <1>1, Zenon DEF TableStep, Took
<1>2. ASSUME NEW u \in Tokens, RowStep(u) PROVE TableStep(t)
  <2>1. reg' = reg
    BY <1>2 DEF RowStep
  <2>2. CASE u # t
    BY <1>2, <2>1, <2>2, Zenon DEF TableStep, Took, RowStep
  <2>3. CASE u = t
    <3>1. table'[t] # New
      BY <1>2, <2>3, RowFacts, RowChanges DEF RowStep
    <3>2. table[t] # New => table'[t] # Fresh
      <4>1. ASSUME table[t] \in Row, table'[t] = Revoked(table[t]) PROVE table'[t] # Fresh
        <5>1. Revoked(table[t]).revoked /\ ~Fresh.revoked
          BY <4>1, RowFacts, RowChanges
        <5> QED
          BY <5>1, <4>1, Zenon
      <4> QED
        BY <1>2, <2>3, <4>1, RowFacts DEF RowStep
    <3> QED
      BY <2>1, <3>1, <3>2, Zenon DEF TableStep, Took
  <2> QED
    BY <2>2, <2>3
<1>3. ASSUME NEW a \in Attempts, RegStep(a) PROVE TableStep(t)
  <2>1. RegOK(a) /\ \A b \in Attempts \ {a} : reg'[b] = reg[b]
    BY <1>3 DEF Uses, RegStep
  <2>2. CASE Takes(a)
    <3>1. Used(Fresh) \in Row /\ Used(Fresh) # Fresh /\ New \notin Row /\ New # Fresh
      <4>1. Used(Fresh) \in Row /\ Used(Fresh).used /\ ~Fresh.used /\ New \notin Row /\ New # Fresh
        BY RowFacts, RowChanges
      <4> QED
        BY <4>1, Zenon
    <3>2. /\ table[t] # New => table'[t] # New
          /\ table[t] # Fresh => table'[t] = table[t] /\ t # reg[a].t
      BY <2>2, <3>1, <1>t DEF Takes
    <3>3. \A b \in Attempts : Took(b, t) => Took(b, t)'
      BY <2>1, <2>2 DEF Took, Takes, RegOK
    <3>4. table[t] # Fresh => \A b \in Attempts : Took(b, t)' => Took(b, t)
      BY <2>1, <2>2, <3>2 DEF Took, Takes
    <3> QED
      BY <3>2, <3>3, <3>4, Zenon DEF TableStep
  <2>3. CASE Sends(a) \/ Makes(a) \/ Saves(a) \/ Stops(a)
    <3>1. table' = table
      BY <2>3, Zenon DEF Sends, Makes, Saves, Stops
    <3>2. \A b \in Attempts : Took(b, t)' <=> Took(b, t)
      <4>1. Took(a, t)' <=> Took(a, t)
        BY <2>1, <2>3, Zenon DEF Took, RegOK, Sends, Makes, Saves, Stops
      <4> QED
        BY <2>1, <4>1 DEF Took
    <3> QED
      BY <3>1, <3>2, Zenon DEF TableStep
  <2> QED
    BY <1>3, <2>2, <2>3 DEF RegStep
<1> QED
  BY <1>1, <1>2, <1>3

\* What the server reads is true.
LEMMA ViewIsTrue ==
    ASSUME TypeInv, Uses, NEW t \in Tokens
    PROVE  View(t) \in Views /\ Truth(t, View(t))
<1>t. table \in [Tokens -> Row \union {New, Gone}] /\ reg \in [Attempts -> Regs]
  BY TypeParts DEF TypeInv
<1>1. CASE ~Present(t)
  BY <1>1, Zenon DEF View, Truth, Views
<1>2. CASE Present(t)
  <2>1. table[t] \in Row /\ View(t) = table[t] /\ table[t] # New
    BY <1>2, <1>t, RowFacts DEF Present, View
  <2>2. table[t].used \/ table[t].revoked => table[t] # Fresh
    <3>1. ~Fresh.used /\ ~Fresh.revoked
      BY RowFacts
    <3> QED
      BY <3>1, Zenon
  <2>3. ~table[t].used => \A a \in Attempts : ~Took(a, t)
    <3>1. ~table[t].used => ~IsSpent(table[t])
      BY <2>1, SpentFacts, Zenon
    <3> QED
      BY <3>1 DEF Took, Uses, RegOK
  <2>4. table[t].used => \E a \in Attempts : Took(a, t)
    BY <2>1 DEF Uses, UsedIsTaken
  <2>5. Truth(t, table[t])
    BY <2>1, <2>2, <2>3, <2>4, Zenon DEF Truth
  <2> QED
    BY <2>1, <2>5 DEF Views
<1> QED
  BY <1>1, <1>2

ViewsTrue == \A t \in Tokens : Truth(t, View(t))

LEMMA ViewsAreTrue == TypeInv /\ Uses => ViewsTrue
BY ViewIsTrue DEF ViewsTrue

Shown ==
    /\ \A t \in Tokens : Truth(t, list[t])
    /\ \A q \in Requests : \A t \in Tokens : Truth(t, ask[q].view[t])

\* A view of request r is old, empty, or what the server reads after the step.
Comes(t, row) ==
    \/ row = Absent
    \/ row = list[t]
    \/ \E q \in Requests : row = ask[q].view[t]
    \/ row = View(t)'

LEMMA ShownStep ==
    ASSUME TypeInv, Uses, TypeInv', Uses', Shown,
           \A t \in Tokens : TableStep(t),
           \A t \in Tokens : Comes(t, list'[t]),
           \A q \in Requests : \A t \in Tokens : Comes(t, ask'[q].view[t])
    PROVE  Shown'
<1>t. list \in [Tokens -> Views] /\ ask \in [Requests -> AskRecords]
  BY TypeParts DEF TypeInv
<1>1. ASSUME NEW t \in Tokens, NEW row, Comes(t, row)
      PROVE  row # Absent =>
                /\ table'[t] # New
                /\ row.used \/ row.revoked => table'[t] # Fresh
                /\ row.revoked /\ ~row.used => \A a \in Attempts : ~Took(a, t)'
                /\ row.used => \E a \in Attempts : Took(a, t)'
  <2>1. ASSUME row \in Views, Truth(t, row)
        PROVE  row # Absent =>
                /\ table'[t] # New
                /\ row.used \/ row.revoked => table'[t] # Fresh
                /\ row.revoked /\ ~row.used => \A a \in Attempts : ~Took(a, t)'
                /\ row.used => \E a \in Attempts : Took(a, t)'
    BY <2>1, TruthStays
  <2>2. CASE row = list[t] \/ \E q \in Requests : row = ask[q].view[t]
    BY <2>2, <2>1, <1>t DEF Shown, AskRecords
  <2>3. CASE row = View(t)'
    <3>1. Truth(t, View(t))'
      <4>1. TypeInv' /\ Uses' => ViewsTrue'
        BY ViewsAreTrue, PTL
      <4> QED
        BY <4>1 DEF ViewsTrue
    <3> QED
      BY <2>3, <3>1, Zenon DEF Truth
  <2> QED
    BY <1>1, <2>2, <2>3, Zenon DEF Comes
<1>2. \A t \in Tokens : Truth(t, list[t])'
  BY <1>1, Zenon DEF Truth
<1>3. \A q \in Requests : \A t \in Tokens : Truth(t, ask[q].view[t])'
  BY <1>1, Zenon DEF Truth
<1> QED
  BY <1>2, <1>3, Zenon DEF Shown

LEMMA ServesComes ==
    ASSUME TypeInv, NEW q \in Requests, Serves(q)
    PROVE  \A r \in Requests : \A t \in Tokens : Comes(t, ask'[r].view[t])
<1>t. /\ table \in [Tokens -> Row \union {New, Gone}] /\ ask \in [Requests -> AskRecords]
      /\ behind \in BOOLEAN /\ ask[q] \in AskRecords /\ AskNamed(ask[q])
  BY TypeParts DEF TypeInv, Named
<1>f. /\ ask[q].t \in Tokens \union {"none"} /\ ask[q].view \in [Tokens -> Views]
      /\ TRUE \in BOOLEAN /\ FALSE \in BOOLEAN /\ "none" \in Tokens \union {"none"}
  BY <1>t DEF AskRecords
<1>v. \A t \in Tokens : ask[q].view[t] \in Views /\ NoAsk.view[t] = Absent
  BY <1>f, NoAskTyped
<1>p. ASSUME Others(q), Ends(q) \/ \A t \in Tokens : Comes(t, ask'[q].view[t])
      PROVE  \A r \in Requests : \A t \in Tokens : Comes(t, ask'[r].view[t])
  <2> SUFFICES ASSUME NEW r \in Requests, NEW t \in Tokens PROVE Comes(t, ask'[r].view[t])
    OBVIOUS
  <2>1. CASE r # q
    BY <1>p, <2>1 DEF Others, Same, Comes
  <2>2. CASE r = q
    BY <1>p, <1>v, <2>2 DEF Ends, Same, Comes
  <2> QED
    BY <2>1, <2>2
<1>a. ASSUME NEW t \in Tokens \union {"none"}, NEW ok \in BOOLEAN, NEW view \in [Tokens -> Views],
             Answers(q, t, ok, view), \A u \in Tokens : Comes(u, view[u])
      PROVE  \A r \in Requests : \A u \in Tokens : Comes(u, ask'[r].view[u])
  <2>1. /\ Others(q)
        /\ \/ Ends(q)
           \/ /\ ask'[q].at = "answered" /\ ask'[q].kind = ask[q].kind
              /\ ask'[q].t = t /\ ask'[q].ok = ok /\ ask'[q].view = view
    <3>1. /\ ask \in [Requests -> AskRecords] /\ behind \in BOOLEAN /\ Answers(q, t, ok, view)
          /\ t \in Tokens \union {"none"} /\ ok \in BOOLEAN /\ view \in [Tokens -> Views]
      BY <1>a, <1>t
    <3> QED
      BY <3>1, AnswersEnds
  <2> QED
    BY <2>1, <1>a, <1>p, SMT
<1>b. \A u \in Tokens : Comes(u, ask[q].view[u])
  BY DEF Comes
<1>c. ASSUME NEW t \in Tokens, NEW row \in Row, row = View(t)'
      PROVE  Only(t, row) \in [Tokens -> Views] /\ \A u \in Tokens : Comes(u, Only(t, row)[u])
  <2>1. /\ Only(t, row) \in [Tokens -> Views] /\ Only(t, row)[t] = row
        /\ \A u \in Tokens \ {t} : Only(t, row)[u] = Absent
    BY <1>t, ViewsTyped, NoAskTyped, SMT DEF Only
  <2>2. Comes(t, row)
    BY <1>c, Zenon DEF Comes
  <2> QED
    BY <2>1, <2>2 DEF Comes
<1>1. CASE HandlesInVain(q)
  <2>1. Answers(q, ask[q].t, FALSE, ask[q].view)
    BY <1>1 DEF HandlesInVain
  <2> QED
    BY <2>1, <1>f, <1>a, <1>b
<1>2. CASE HandlesLoad(q)
  <2>1. Answers(q, "none", TRUE, AllViews) /\ table' = table
    BY <1>2, Zenon DEF HandlesLoad
  <2>2. \A u \in Tokens : AllViews[u] = View(u)'
    BY <2>1 DEF AllViews, View, Present
  <2>3. \A u \in Tokens : Comes(u, AllViews[u])
    BY <2>2, Zenon DEF Comes
  <2> QED
    BY <2>1, <2>3, <1>t, <1>f, <1>a, ViewsTyped
<1>3. ASSUME NEW t \in Tokens, HandlesCreate(q, t)
      PROVE  \A r \in Requests : \A u \in Tokens : Comes(u, ask'[r].view[u])
  <2>1. Answers(q, t, TRUE, Only(t, Fresh)) /\ table'[t] = Fresh
    BY <1>3, <1>t, Zenon DEF HandlesCreate
  <2>2. Fresh = View(t)' /\ Fresh \in Row
    BY <2>1, RowFacts, Zenon DEF View, Present
  <2>3. Only(t, Fresh) \in [Tokens -> Views] /\ \A u \in Tokens : Comes(u, Only(t, Fresh)[u])
    BY <2>2, <1>c
  <2> QED
    BY <2>1, <2>3, <1>f, <1>a
<1>4. CASE HandlesRevoke(q)
  <2>1. /\ Present(ask[q].t) /\ ask[q].kind = "revoke"
        /\ table' = [table EXCEPT ![ask[q].t] = Revoked(table[ask[q].t])]
        /\ Answers(q, ask[q].t, TRUE, Only(ask[q].t, Revoked(table[ask[q].t])))
    BY <1>4, <1>f, Zenon DEF HandlesRevoke, Handles, Commits
  <2>2. PICK t \in Tokens : t = ask[q].t
    BY <2>1, <1>t DEF AskNamed
  <2>3. PICK row \in Row : row = Revoked(table[t]) /\ row = table'[t]
    BY <2>1, <2>2, <1>t, RowChanges DEF Present
  <2>4. row = View(t)'
    BY <2>3, RowFacts DEF View, Present
  <2>5. Only(t, row) \in [Tokens -> Views] /\ \A u \in Tokens : Comes(u, Only(t, row)[u])
    BY <2>4, <1>c
  <2>6. Answers(q, t, TRUE, Only(t, row))
    BY <2>1, <2>2, <2>3, Zenon
  <2> QED
    BY <2>5, <2>6, <1>f, <1>a
<1>5. CASE HandlesDelete(q)
  <2>1. ask' = [ask EXCEPT ![q] = Moved(ask[q], "checked")]
    BY <1>5, Zenon DEF HandlesDelete
  <2>2. \A r \in Requests : ask'[r].view = ask[r].view
    BY <2>1, <1>t, CheckedTyped
  <2> QED
    BY <2>2 DEF Comes
<1>6. CASE DeletesRow(q)
  <2>1. Answers(q, ask[q].t, TRUE, ask[q].view)
    BY <1>6 DEF DeletesRow
  <2> QED
    BY <2>1, <1>f, <1>a, <1>b
<1> QED
  BY <1>1, <1>2, <1>3, <1>4, <1>5, <1>6 DEF Serves

LEMMA PageComes ==
    ASSUME TypeInv, NEW q \in Requests, Page(q)
    PROVE  /\ \A t \in Tokens : Comes(t, list'[t])
           /\ \A r \in Requests : \A t \in Tokens : Comes(t, ask'[r].view[t])
<1>t. /\ list \in [Tokens -> Views] /\ ask \in [Requests -> AskRecords]
      /\ ask[q] \in AskRecords /\ AskNamed(ask[q]) /\ \A t \in Tokens : NoAsk.view[t] = Absent
  BY TypeParts, NoAskTyped DEF TypeInv, Named
<1>p. ASSUME Others(q), Ends(q) \/ Same(ask'[q], ask[q]) \/ ask'[q].view = NoAsk.view
      PROVE  \A r \in Requests : \A t \in Tokens : Comes(t, ask'[r].view[t])
  <2> SUFFICES ASSUME NEW r \in Requests, NEW t \in Tokens PROVE Comes(t, ask'[r].view[t])
    OBVIOUS
  <2>1. CASE r # q
    BY <1>p, <2>1 DEF Others, Same, Comes
  <2>2. CASE r = q
    BY <1>p, <1>t, <2>2 DEF Ends, Same, Comes
  <2> QED
    BY <2>1, <2>2
<1>f. ASSUME Finished(q) PROVE \A r \in Requests : \A t \in Tokens : Comes(t, ask'[r].view[t])
  BY <1>f, <1>t, <1>p, FinishedEnds
<1>1. ASSUME NEW kind \in {"load", "create", "revoke", "delete"}, NEW t \in Tokens \union {"none"},
             Asks(q, kind, t)
      PROVE  \A r \in Requests : \A u \in Tokens : Comes(u, ask'[r].view[u])
  BY <1>1, <1>t, <1>p, AsksShape
<1>2. CASE Load(q) \/ Create(q) \/ \E t \in Tokens : Revoke(q, t) \/ Delete(q, t)
  <2>1. list' = list
    BY <1>2, Zenon DEF Load, Create, Revoke, Delete, Asks
  <2> QED
    BY <2>1, <1>1, <1>2 DEF Load, Create, Revoke, Delete, Comes
<1>3. CASE GetsLoad(q)
  BY <1>3, <1>f, Zenon DEF GetsLoad, Gets, Comes
<1>4. CASE GetsCreate(q)
  <2>1. list' = [list EXCEPT ![ask[q].t] = ask[q].view[ask[q].t]] /\ Finished(q)
    BY <1>4, Zenon DEF GetsCreate, Gets
  <2>2. \A t \in Tokens : list'[t] = list[t] \/ list'[t] = ask[q].view[t]
    BY <2>1, <1>t
  <2> QED
    BY <2>1, <2>2, <1>f, Zenon DEF Comes
<1>5. CASE GetsRevoke(q)
  <2>1. list' = [list EXCEPT ![ask[q].t] = IF @ = Absent THEN @ ELSE ask[q].view[ask[q].t]] /\ Finished(q)
    BY <1>5, Zenon DEF GetsRevoke, Gets
  <2>2. \A t \in Tokens : list'[t] = list[t] \/ list'[t] = ask[q].view[t]
    BY <2>1, <1>t
  <2> QED
    BY <2>1, <2>2, <1>f, Zenon DEF Comes
<1>6. CASE GetsDelete(q)
  <2>1. list' = [list EXCEPT ![ask[q].t] = Absent] /\ Finished(q)
    BY <1>6, Zenon DEF GetsDelete, Gets, Without
  <2>2. \A t \in Tokens : list'[t] = list[t] \/ list'[t] = Absent
    BY <2>1, <1>t
  <2> QED
    BY <2>1, <2>2, <1>f, Zenon DEF Comes
<1>7. CASE GetsError(q)
  <2>1. list' = list /\ Finished(q)
    BY <1>7, Zenon DEF GetsError
  <2> QED
    BY <2>1, <1>f DEF Comes
<1>8. CASE Loses(q)
  <2>1. list' = list
    BY <1>8, Zenon DEF Loses
  <2> QED
    BY <2>1, <1>8, <1>t, <1>p, LosesShape DEF Comes
<1> QED
  BY <1>2, <1>3, <1>4, <1>5, <1>6, <1>7, <1>8 DEF Page

LEMMA AnswersAt ==
    ASSUME ask \in [Requests -> AskRecords], NEW q \in Requests, NEW t, NEW ok, NEW view,
           Answers(q, t, ok, view)
    PROVE  Others(q) /\ (Ends(q) \/ ask'[q].at = "answered")
<1>1. CASE ask[q].lost
  <2> DEFINE rest == [ask EXCEPT ![q] = NoAsk]
  <2>1. rest \in [Requests -> AskRecords] /\ rest[q] = NoAsk
        /\ \A r \in Requests \ {q} : rest[r] = ask[r]
    BY NoAskTyped, SMT
  <2>2. ask' = rest \/ ask' = Outdated(rest, t)
    BY <1>1, Zenon DEF Answers
  <2> HIDE DEF rest
  <2>3. \A r \in Requests : Same(ask'[r], rest[r])
    BY <2>1, <2>2, OutdatedKeeps, SMT DEF Same
  <2> QED
    BY <2>1, <2>3, NoAskTyped, SMT DEF Ends, Others, Same
<1>2. CASE ~ask[q].lost
  <2>1. ask' = [ask EXCEPT ![q] = Reply(ask[q], t, ok, view)]
    BY <1>2, Zenon DEF Answers
  <2>2. Reply(ask[q], t, ok, view).at = "answered"
    <3>1. ask[q] \in AskRecords
      OBVIOUS
    <3> QED
      BY <3>1, Zenon DEF Reply, AskRecords
  <2> QED
    BY <2>1, <2>2 DEF Others, Same
<1> QED
  BY <1>1, <1>2

LEMMA ServesAnswers ==
    ASSUME ask \in [Requests -> AskRecords], NEW q \in Requests, Serves(q), ~HandlesDelete(q)
    PROVE  Others(q) /\ (Ends(q) \/ ask'[q].at = "answered")
<1>1. PICK t, ok, view : Answers(q, t, ok, view)
  BY Zenon DEF Serves, HandlesInVain, HandlesLoad, HandlesCreate, HandlesRevoke, DeletesRow
<1> QED
  BY <1>1, AnswersAt

\* A deletion that has found its row revoked still finds it so.
LEMMA CheckedStep ==
    ASSUME TypeInv, Uses, Checked, [Next]_vars
    PROVE  Checked'
<1>t. ask \in [Requests -> AskRecords] /\ \A q \in Requests : AskNamed(ask[q])
  BY TypeParts DEF TypeInv, Named
<1>s. \A t \in Tokens : TableStep(t)
  <2>1. \/ UNCHANGED <<table, reg>>
        \/ \E u \in Tokens : RowStep(u)
        \/ \E a \in Attempts : RegStep(a)
    BY EnrollsSteps, PageShape, ServesShape, SMT DEF Next, vars, serverVars, agentVars
  <2> QED
    BY <2>1, StepsOfTable
<1>1. ASSUME NEW q \in Requests, ask'[q].at = "checked",
             \/ ask[q].at = "checked" /\ ask'[q].kind = ask[q].kind /\ ask'[q].t = ask[q].t
             \/ ask'[q].kind = "delete" /\ table'[ask'[q].t] \notin {New, Fresh}
      PROVE  ask'[q].kind = "delete" /\ table'[ask'[q].t] \notin {New, Fresh}
  <2>1. CASE ask[q].at = "checked" /\ ask'[q].kind = ask[q].kind /\ ask'[q].t = ask[q].t
    <3>1. ask[q].kind = "delete" /\ table[ask[q].t] \notin {New, Fresh} /\ ask[q].t \in Tokens
      BY <2>1, <1>t DEF Checked, AskNamed
    <3> QED
      BY <2>1, <3>1, <1>s DEF TableStep
  <2> QED
    BY <1>1, <2>1
<1>2. ASSUME NEW q \in Requests, Others(q),
             \/ Ends(q) \/ Same(ask'[q], ask[q]) \/ ask'[q].at \in {"asked", "answered"}
             \/ ask'[q].kind = "delete" /\ table'[ask'[q].t] \notin {New, Fresh}
      PROVE  Checked'
  <2> SUFFICES ASSUME NEW r \in Requests, ask'[r].at = "checked"
               PROVE  ask'[r].kind = "delete" /\ table'[ask'[r].t] \notin {New, Fresh}
    BY DEF Checked
  <2>1. CASE r # q
    BY <1>1, <1>2, <2>1 DEF Others, Same
  <2>2. CASE r = q
    BY <1>1, <1>2, <2>2 DEF Ends, Same
  <2> QED
    BY <2>1, <2>2
<1>3. CASE UNCHANGED ask
  BY <1>1, <1>3 DEF Checked
<1>4. ASSUME NEW q \in Requests, Page(q) PROVE Checked'
  <2>1. Others(q) /\ \/ Ends(q) \/ Same(ask'[q], ask[q]) \/ ask'[q].at = "asked"
    <3>1. \A kind \in {"load", "create", "revoke", "delete"}, t \in Tokens \union {"none"} :
              Asks(q, kind, t) => Others(q) /\ ask'[q].at = "asked"
      BY <1>t, AsksShape
    <3>2. Finished(q) => Others(q) /\ Ends(q)
      BY <1>t, FinishedEnds
    <3>3. Loses(q) => Others(q) /\ (Ends(q) \/ Same(ask'[q], ask[q]))
      BY <1>t, LosesShape
    <3> QED
      BY <1>4, <3>1, <3>2, <3>3, SMT DEF Page, Load, Create, Revoke, Delete, GetsLoad, GetsCreate,
         GetsRevoke, GetsDelete, GetsError, Gets
  <2> QED
    BY <2>1, <1>2
<1>5. ASSUME NEW q \in Requests, Serves(q) PROVE Checked'
  <2>t. ask[q].t \in Tokens \union {"none"} /\ behind \in BOOLEAN /\ ask[q] \in AskRecords
    BY <1>t, TypeParts DEF TypeInv, AskRecords
  <2>1. CASE HandlesDelete(q)
    <3>1. /\ ask' = [ask EXCEPT ![q] = Moved(ask[q], "checked")] /\ table' = table
          /\ ask[q].kind = "delete" /\ Present(ask[q].t) /\ table[ask[q].t].revoked
      BY <2>1, Zenon DEF HandlesDelete, Handles
    <3>2. table[ask[q].t] \notin {New, Fresh}
      BY <3>1, RowFacts, Zenon DEF Present
    <3>3. ask'[q].kind = "delete" /\ ask'[q].t = ask[q].t /\ \A r \in Requests \ {q} : ask'[r] = ask[r]
      BY <3>1, <1>t, <2>t, CheckedTyped
    <3> QED
      BY <3>1, <3>2, <3>3, <1>2 DEF Others, Same
  <2>2. CASE UNCHANGED ask
    BY <2>2, <1>3
  <2>3. CASE ~HandlesDelete(q)
    <3>1. Others(q) /\ (Ends(q) \/ ask'[q].at = "answered")
      BY <1>5, <2>3, <1>t, ServesAnswers
    <3> QED
      BY <3>1, <1>2
  <2> QED
    BY <2>1, <2>3
<1>6. ASSUME NEW a \in Attempts, Enrolls(a) PROVE Checked'
  BY <1>6, <1>3, EnrollsSteps DEF RegStep
<1> QED
  BY <1>3, <1>4, <1>5, <1>6 DEF Next, vars, pageVars

-----------------------------------------------------------------------------
(* The invariant and what follows from it *)

IInv == TypeInv /\ Uses /\ Checked /\ Shown

LEMMA Inductive == (Init => IInv) /\ (IInv /\ [Next]_vars => IInv')
<1>1. Init => IInv
  <2> SUFFICES ASSUME Init PROVE IInv
    OBVIOUS
  <2>1. PICK old \in SUBSET Tokens :
            /\ table = [t \in Tokens |-> IF t \in old THEN Fresh ELSE New] /\ devices = {}
            /\ reg = [a \in Attempts |-> Unsent] /\ config = [m \in Machines |-> "none"]
            /\ ask = [q \in Requests |-> NoAsk] /\ list = [t \in Tokens |-> Absent]
    BY Zenon DEF Init
  <2>2. \A a \in Attempts : reg[a].at = "idle" /\ ~reg[a].took
    BY <2>1, Zenon DEF Unsent
  <2>3. \A a \in Attempts : RegOK(a)
    BY <2>1, <2>2 DEF RegOK
  <2>4. UsedIsTaken
    BY <2>1, RowFacts DEF UsedIsTaken
  <2>5. SavedIsMade
    BY <2>1, MachineAssumption DEF SavedIsMade
  <2>6. Checked
    BY <2>1, NoAskTyped DEF Checked
  <2>7. Shown
    BY <2>1, NoAskTyped, Zenon DEF Shown, Truth
  <2> QED
    BY <2>2, <2>3, <2>4, <2>5, <2>6, <2>7, TypeInvInductive DEF IInv, Uses, OneTaker
<1>2. IInv /\ [Next]_vars => IInv'
  <2> SUFFICES ASSUME IInv, [Next]_vars PROVE IInv'
    OBVIOUS
  <2>0. TypeInv /\ Uses /\ Checked /\ Shown /\ TypeInv'
    BY TypeInvInductive DEF IInv
  <2>1. Checked'
    BY <2>0, CheckedStep
  <2>2. CASE UNCHANGED vars
    <3>1. UNCHANGED <<table, devices, reg, config, ask, list>>
      BY <2>2, Zenon DEF vars, serverVars, agentVars, pageVars
    <3>2. Uses'
      BY <2>0, <3>1, Zenon DEF Uses, RegOK, OneTaker, UsedIsTaken, Took, SavedIsMade, IsSpent
    <3>3. Shown'
      BY <2>0, <3>1, Zenon DEF Shown, Truth, Took
    <3> QED
      BY <2>0, <2>1, <3>2, <3>3 DEF IInv
  <2>3. ASSUME NEW a \in Attempts, Enrolls(a) PROVE IInv'
    <3>1. RegStep(a)
      BY <2>0, <2>3, EnrollsSteps
    <3>2. Uses'
      BY <2>0, <3>1, UsesReg
    <3>3. /\ \A t \in Tokens : Comes(t, list'[t])
          /\ \A q \in Requests : \A t \in Tokens : Comes(t, ask'[q].view[t])
      BY <3>1 DEF RegStep, Comes
    <3>4. Shown'
      BY <2>0, <3>1, <3>2, <3>3, StepsOfTable, ShownStep
    <3> QED
      BY <2>0, <2>1, <3>2, <3>4 DEF IInv
  <2>4. ASSUME NEW q \in Requests, Page(q) PROVE IInv'
    <3>1. UNCHANGED <<table, reg, devices, config>>
      BY <2>4, PageShape
    <3>2. Uses'
      BY <2>0, <3>1, Zenon DEF Uses, RegOK, OneTaker, UsedIsTaken, Took, SavedIsMade, IsSpent
    <3>4. Shown'
      BY <2>0, <2>4, <3>1, <3>2, PageComes, StepsOfTable, ShownStep
    <3> QED
      BY <2>0, <2>1, <3>2, <3>4 DEF IInv
  <2>5. ASSUME NEW q \in Requests, Serves(q) PROVE IInv'
    <3>1. /\ UNCHANGED <<reg, devices, config, list>>
          /\ UNCHANGED table \/ \E t \in Tokens : RowStep(t)
      BY <2>0, <2>5, ServesShape
    <3>2. Uses'
      <4>1. CASE UNCHANGED table
        BY <2>0, <3>1, <4>1, Zenon DEF Uses, RegOK, OneTaker, UsedIsTaken, Took, SavedIsMade, IsSpent
      <4>2. CASE \E t \in Tokens : RowStep(t)
        BY <2>0, <4>2, UsesRow
      <4> QED
        BY <3>1, <4>1, <4>2
    <3>3. /\ \A t \in Tokens : Comes(t, list'[t])
          /\ \A r \in Requests : \A t \in Tokens : Comes(t, ask'[r].view[t])
      BY <2>0, <2>5, <3>1, ServesComes DEF Comes
    <3>4. Shown'
      BY <2>0, <3>1, <3>2, <3>3, StepsOfTable, ShownStep
    <3> QED
      BY <2>0, <2>1, <3>2, <3>4 DEF IInv
  <2> QED
    BY <2>2, <2>3, <2>4, <2>5 DEF Next
<1> QED
  BY <1>1, <1>2

\* Two registrations with one token never both make a device, and agent.json of
\* a machine names a device that exists: whatever fails or is tried again.
THEOREM DeviceCorrect == Spec => []OneDevicePerToken
<1>1. IInv => OneDevicePerToken
  <2>1. IInv => devices \subseteq Attempts
    BY TypeParts DEF IInv, TypeInv
  <2> QED
    BY <2>1 DEF IInv, Uses, RegOK, OneTaker, SavedIsMade, OneDevicePerToken
<1> QED
  BY <1>1, Inductive, PTL DEF Spec

\* The list of tokens is never wrong about an end, in whatever order answers come.
THEOREM ShownCorrect == Spec => []ShownIsTrue
<1>1. IInv => ShownIsTrue
  <2> SUFFICES ASSUME IInv, NEW t \in Tokens, list[t] # Absent
               PROVE  /\ table[t] # New
                      /\ list[t].used \/ list[t].revoked => table[t] \notin {r \in Row : ~r.used /\ ~r.revoked}
                      /\ list[t].revoked /\ ~list[t].used => Takers(t) = {}
                      /\ list[t].used => Takers(t) # {}
    BY Zenon DEF ShownIsTrue
  <2>1. Truth(t, list[t])
    BY DEF IInv, Shown
  <2>2. table[t] # Fresh => table[t] \notin {r \in Row : ~r.used /\ ~r.revoked}
    BY RowFacts
  <2>3. (\A a \in Attempts : ~Took(a, t)) <=> Takers(t) = {}
    BY DEF Took, Takers
  <2> QED
    BY <2>1, <2>2, <2>3, Zenon DEF Truth
<1> QED
  BY <1>1, Inductive, PTL DEF Spec

LEMMA TakersStay ==
    ASSUME \A a \in Attempts, t \in Tokens : Took(a, t)' <=> Took(a, t)
    PROVE  \A t \in Tokens : Takers(t)' = Takers(t)
BY DEF Took, Takers

LEMMA LedgerStep ==
    ASSUME IInv, [Next]_vars
    PROVE  [Ledger!Next]_(Ledger!lvars)
<1>t. /\ table \in [Tokens -> Row \union {New, Gone}] /\ reg \in [Attempts -> Regs]
      /\ table' \in [Tokens -> Row \union {New, Gone}]
      /\ \A a \in Attempts : RegOK(a) /\ (reg[a].at # "idle" => reg[a].t \in Tokens)
  <2>1. TypeInv /\ TypeInv'
    BY TypeInvInductive DEF IInv
  <2> QED
    BY <2>1, TypeParts, Zenon DEF TypeInv, TypeOK, Named, IInv, Uses
<1> DEFINE issued == {t \in Tokens : table[t] # New}
           open == {t \in Tokens : table[t] = Fresh}
           takers == [t \in Tokens |-> Takers(t)]
<1>s. ASSUME UNCHANGED <<table, devices>>, \A t \in Tokens : Takers(t)' = Takers(t)
      PROVE  UNCHANGED Ledger!lvars
  <2>1. issued' = issued /\ open' = open
    BY <1>s
  <2>2. takers' = takers
    BY <1>s
  <2> QED
    BY <1>s, <2>1, <2>2, Zenon DEF Ledger!lvars
<1>1. ASSUME UNCHANGED <<table, devices, reg>> PROVE UNCHANGED Ledger!lvars
  BY <1>1, <1>s, Zenon DEF Takers
<1>2. ASSUME NEW t \in Tokens, RowStep(t) PROVE [Ledger!Next]_(Ledger!lvars)
  <2>1. devices' = devices /\ takers' = takers
    BY <1>2, Zenon DEF Takers, RowStep
  <2>2. CASE table[t] = New /\ table'[t] = Fresh
    <3>1. t \notin issued /\ issued' = issued \union {t} /\ open' = open \union {t}
      BY <1>2, <2>2, RowFacts DEF RowStep
    <3>2. Ledger!Issue(t)
      BY <2>1, <3>1, Zenon DEF Ledger!Issue
    <3> QED
      BY <3>2 DEF Ledger!Next
  <2>3. CASE table[t] \in Row /\ table'[t] # Fresh /\ table'[t] # New
    <3>1. issued' = issued
      BY <1>2, <2>3, RowFacts DEF RowStep
    <3>2. CASE table[t] = Fresh
      <4>1. t \in open /\ open' = open \ {t}
        BY <1>2, <2>3, <3>2 DEF RowStep
      <4>2. Ledger!Shut(t)
        BY <2>1, <3>1, <4>1, Zenon DEF Ledger!Shut
      <4> QED
        BY <4>2 DEF Ledger!Next
    <3>3. CASE table[t] # Fresh
      <4>1. open' = open
        BY <1>2, <2>3, <3>3 DEF RowStep
      <4> QED
        BY <2>1, <3>1, <4>1, Zenon DEF Ledger!lvars
    <3> QED
      BY <3>2, <3>3
  <2>4. ASSUME table[t] \in Row, table'[t] = Revoked(table[t])
        PROVE  table'[t] # Fresh /\ table'[t] # New
    <3>1. Revoked(table[t]).revoked /\ ~Fresh.revoked /\ Revoked(table[t]) # New
      BY <2>4, RowFacts, RowChanges
    <3> QED
      BY <3>1, <2>4, Zenon
  <2> QED
    BY <1>2, <2>2, <2>3, <2>4, RowFacts DEF RowStep
<1>3. ASSUME NEW a \in Attempts, RegStep(a) PROVE [Ledger!Next]_(Ledger!lvars)
  <2>0. RegOK(a) /\ \A b \in Attempts \ {a} : reg'[b] = reg[b]
    BY <1>3, <1>t DEF RegStep
  <2>1. CASE Takes(a)
    <3>1. PICK t \in Tokens : t = reg[a].t
      BY <2>1 DEF Takes
    <3>2. Used(Fresh) # Fresh /\ Used(Fresh) # New /\ Fresh # New
      <4>1. Used(Fresh).used /\ ~Fresh.used /\ Used(Fresh) # New /\ Fresh # New
        BY RowFacts, RowChanges
      <4> QED
        BY <4>1, Zenon
    <3>3. t \in open /\ open' = open \ {t} /\ issued' = issued /\ devices' = devices
      BY <2>1, <3>1, <3>2, <1>t DEF Takes
    <3>4. \A u \in Tokens : Takers(u)' = IF u = t THEN Takers(u) \union {a} ELSE Takers(u)
      BY <2>0, <2>1, <3>1 DEF Takers, Takes, RegOK
    <3>5. takers' = [takers EXCEPT ![t] = @ \union {a}]
      BY <3>4
    <3>6. Ledger!Take(t, a)
      BY <3>3, <3>5, Zenon DEF Ledger!Take
    <3> QED
      BY <3>6 DEF Ledger!Next
  <2>2. CASE Makes(a)
    <3>1. PICK t \in Tokens : t = reg[a].t
      BY <2>2, <1>t DEF Makes
    <3>2. a \in Takers(t) /\ a \notin devices /\ devices' = devices \union {a} /\ table' = table
      BY <2>0, <2>2, <3>1 DEF Makes, RegOK, Takers
    <3>3. \A u \in Tokens : Takers(u)' = Takers(u)
      BY <2>0, <2>2 DEF Takers, Makes
    <3>4. a \in takers[t] \ devices /\ takers' = takers /\ open' = open /\ issued' = issued
      BY <3>2, <3>3
    <3>5. Ledger!Enroll(t, a)
      BY <3>2, <3>4, Zenon DEF Ledger!Enroll
    <3> QED
      BY <3>5 DEF Ledger!Next
  <2>3. CASE Sends(a) \/ Saves(a) \/ Stops(a)
    <3>1. \A u \in Tokens : Takers(u)' = Takers(u)
      BY <2>0, <2>3 DEF Takers, Sends, Saves, Stops, RegOK
    <3>2. UNCHANGED <<table, devices>>
      BY <2>3, Zenon DEF Sends, Saves, Stops
    <3> QED
      BY <3>1, <3>2, <1>s
  <2> QED
    BY <1>3, <2>1, <2>2, <2>3 DEF RegStep
<1>4. \/ UNCHANGED <<table, devices, reg>>
      \/ \E t \in Tokens : RowStep(t)
      \/ \E a \in Attempts : RegStep(a)
  BY EnrollsSteps, PageShape, ServesShape, SMT DEF IInv, Next, vars, serverVars, agentVars
<1> QED
  BY <1>1, <1>2, <1>3, <1>4

\* The tokens implement the ledger: each is open from its issue to its use or its
\* end, and a device comes only from an attempt that has taken a token.
THEOREM LedgerCorrect == Spec => ImplementsLedger
<1>1. Init => Ledger!Init
  <2> SUFFICES ASSUME Init PROVE Ledger!Init
    OBVIOUS
  <2>1. PICK old \in SUBSET Tokens :
            /\ table = [t \in Tokens |-> IF t \in old THEN Fresh ELSE New] /\ devices = {}
            /\ reg = [a \in Attempts |-> Unsent]
    BY Zenon DEF Init
  <2>2. {t \in Tokens : table[t] # New} = {t \in Tokens : table[t] = Fresh}
    BY <2>1, RowFacts
  <2>3. \A t \in Tokens : Takers(t) = {}
    <3>1. \A a \in Attempts : ~reg[a].took
      BY <2>1, Zenon DEF Unsent
    <3> QED
      BY <3>1 DEF Takers
  <2>4. [t \in Tokens |-> Takers(t)] = [t \in Tokens |-> {}]
    BY <2>3
  <2>5. {t \in Tokens : table[t] # New} \subseteq Tokens
    OBVIOUS
  <2> QED
    BY <2>1, <2>2, <2>4, <2>5, Zenon DEF Ledger!Init
<1>2. IInv /\ [Next]_vars => [Ledger!Next]_(Ledger!lvars)
  BY LedgerStep
<1> QED
  BY <1>1, <1>2, Inductive, PTL DEF Spec, ImplementsLedger, Ledger!Spec

-----------------------------------------------------------------------------
(* The list and the table.  Where the list, or an answer that is going to     *)
(* replace it, differs from the table, the answer to the change that made the *)
(* difference is still to come.                                               *)

Changes == {"create", "revoke", "delete"}

\* A change of token t that was made and is still to be shown.
Told(r, kind, t) == ask[r].at = "answered" /\ ask[r].ok /\ ask[r].kind = kind /\ ask[r].t = t

Pends(t) == {kind \in Changes : \E r \in Requests : Told(r, kind, t)}

\* What is shown as v agrees with the row, but for the changes in pends.
Close(v, row, pends) ==
    /\ v = Absent /\ row \notin {New, Gone} => "create" \in pends
    /\ v # Absent /\ row \in {New, Gone} => "delete" \in pends
    /\ v # Absent /\ row \notin {New, Gone} /\ v.revoked # row.revoked => "revoke" \in pends

IsEnded(row) == row = Gone \/ (row \notin {New, Gone} /\ row.revoked)

\* A change that was answered has been made.
AnswerTrue(r) ==
    ask[r].at = "answered" /\ ask[r].ok =>
        /\ ask[r].kind = "create" => ask[r].view[ask[r].t] # Absent
        /\ ask[r].kind = "revoke" => /\ IsEnded(table[ask[r].t])
                                     /\ ask[r].view[ask[r].t] # Absent /\ ask[r].view[ask[r].t].revoked
        /\ ask[r].kind = "delete" => table[ask[r].t] = Gone

\* An answer that is not outdated is as good as the list.
AnswerClose(r) ==
    ask[r].at = "answered" /\ ask[r].ok /\ ~ask[r].stale =>
        \A t \in Tokens : ask[r].kind = "load" \/ (ask[r].kind = "create" /\ ask[r].t = t)
                             => Close(ask[r].view[t], table[t], Pends(t))

ListClose == ~behind => \A t \in Tokens : Close(list[t], table[t], Pends(t))

Agrees == ListClose /\ \A r \in Requests : AnswerTrue(r) /\ AnswerClose(r)

\* A step changes no row but in its use by a machine.
RowKept(t) ==
    /\ table'[t] \in {New, Gone} <=> table[t] \in {New, Gone}
    /\ table[t] \notin {New, Gone} => table'[t].revoked = table[t].revoked

\* Whatever is close to the row of t stays so.
CloseKept(t) == \A v \in Views : Close(v, table[t], Pends(t)) => Close(v, table'[t], Pends(t)')

\* What is close to a row stays so while the row is kept and no change that pends is lost.
LEMMA CloseStays ==
    ASSUME NEW t \in Tokens, RowKept(t), Pends(t) \subseteq Pends(t)'
    PROVE  CloseKept(t)
BY DEF CloseKept, RowKept, Close

\* Endings last.
EndsLast == \A t \in Tokens :
    /\ table[t] = Gone => table'[t] = Gone
    /\ IsEnded(table[t]) => IsEnded(table'[t])

\* No step takes an ended token back: neither a request nor a registration.
LEMMA EndsStay ==
    ASSUME TypeInv,
           \/ UNCHANGED table
           \/ \E u \in Tokens : RowStep(u)
           \/ \E a \in Attempts : RegStep(a)
    PROVE  EndsLast
<1>t. table \in [Tokens -> Row \union {New, Gone}]
  BY TypeParts DEF TypeInv
<1>1. CASE UNCHANGED table
  BY <1>1, Zenon DEF EndsLast
<1>2. ASSUME NEW u \in Tokens, RowStep(u), NEW t \in Tokens
      PROVE  (table[t] = Gone => table'[t] = Gone) /\ (IsEnded(table[t]) => IsEnded(table'[t]))
  <2>1. CASE t # u
    BY <1>2, <2>1 DEF RowStep
  <2>2. CASE t = u
    <3>1. CASE table[t] = New
      BY <3>1, RowFacts DEF IsEnded
    <3>2. CASE table[t] \in Row /\ table'[t] = Revoked(table[t])
      <4>1. Revoked(table[t]) \in Row /\ Revoked(table[t]).revoked
        BY <3>2, RowChanges
      <4> QED
        BY <3>2, <4>1, RowFacts, Zenon DEF IsEnded
    <3>3. CASE table[t] \in Row /\ table'[t] = Gone
      BY <3>3, RowFacts, Zenon DEF IsEnded
    <3> QED
      BY <1>2, <2>2, <3>1, <3>2, <3>3 DEF RowStep
  <2> QED
    BY <2>1, <2>2
<1>3. ASSUME NEW a \in Attempts, RegStep(a), NEW t \in Tokens
      PROVE  (table[t] = Gone => table'[t] = Gone) /\ (IsEnded(table[t]) => IsEnded(table'[t]))
  <2>1. CASE table'[t] = table[t]
    BY <2>1
  <2>2. CASE table'[t] # table[t]
    <3>1. table[t] = Fresh
      BY <1>3, <1>t, <2>2 DEF RegStep, Sends, Takes, Makes, Saves, Stops
    <3>2. Fresh # Gone /\ ~Fresh.revoked
      BY RowFacts
    <3> QED
      BY <3>1, <3>2, Zenon DEF IsEnded
  <2> QED
    BY <2>1, <2>2
<1> QED
  BY <1>1, <1>2, <1>3 DEF EndsLast

\* What happens to the answers of other requests than q.
Flags(q) == \A r \in Requests \ {q} : Same(ask'[r], ask[r]) /\ (ask[r].stale => ask'[r].stale)

\* Answers that were computed before a change of t are outdated.
Marked(q, t) == \A r \in Requests \ {q} :
    ask[r].at = "answered" /\ ask[r].ok /\ (ask[r].kind = "load" \/ (ask[r].kind = "create" /\ ask[r].t = t))
        => ask'[r].stale

\* An outdated answer is marked so.
LEMMA StaleIs == ASSUME NEW r \in AskRecords PROVE Stale(r).stale
BY Zenon DEF Stale, AskRecords

\* Outdating the answers for t changes nothing of them but the mark, and marks them all.
LEMMA OutdatedFlags ==
    ASSUME ask \in [Requests -> AskRecords], NEW q \in Requests, NEW t,
           NEW rest \in [Requests -> AskRecords], \A r \in Requests \ {q} : rest[r] = ask[r]
    PROVE  /\ ask' = rest => Flags(q)
           /\ ask' = Outdated(rest, t) => Flags(q) /\ Marked(q, t)
<1>1. ask' = rest => Flags(q)
  BY Zenon DEF Flags, Same
<1>2. ASSUME ask' = Outdated(rest, t), NEW r \in Requests \ {q}
      PROVE  /\ Same(ask'[r], ask[r]) /\ (ask[r].stale => ask'[r].stale)
             /\ ask[r].at = "answered" /\ ask[r].ok
                /\ (ask[r].kind = "load" \/ (ask[r].kind = "create" /\ ask[r].t = t))
                => ask'[r].stale
  <2>1. /\ rest[r] = ask[r] /\ ask[r] \in AskRecords
        /\ Stale(ask[r]).stale /\ Same(Stale(ask[r]), ask[r]) /\ Same(ask[r], ask[r])
    BY AskFlags, StaleIs DEF Same
  <2>2. ask'[r] = IF ask[r].at = "answered" /\ ask[r].ok
                     /\ (ask[r].kind = "load" \/ (ask[r].kind = "create" /\ ask[r].t = t))
                  THEN Stale(ask[r]) ELSE ask[r]
    BY <1>2, <2>1, Zenon DEF Outdated
  <2> HIDE <1>2
  <2> QED
    BY <2>1, <2>2, Zenon
<1> QED
  BY <1>1, <1>2 DEF Flags, Marked

\* An answer got by the page ends its request and outdates the answers for its token.
LEMMA FinishedFlags ==
    ASSUME ask \in [Requests -> AskRecords], NEW q \in Requests, Finished(q)
    PROVE  Ends(q) /\ Flags(q) /\ (ask[q].kind = "load" \/ ~ask[q].ok \/ Marked(q, ask[q].t))
<1> DEFINE rest == [ask EXCEPT ![q] = NoAsk]
<1>1. rest \in [Requests -> AskRecords] /\ \A r \in Requests \ {q} : rest[r] = ask[r]
  BY NoAskTyped, SMT
<1>2. ask' = IF ask[q].kind = "load" \/ ~ask[q].ok THEN rest ELSE Outdated(rest, ask[q].t)
  BY Zenon DEF Finished
<1> HIDE DEF rest
<1>3. /\ ask' = rest => Flags(q)
      /\ ask' = Outdated(rest, ask[q].t) => Flags(q) /\ Marked(q, ask[q].t)
  BY <1>1, OutdatedFlags
<1> QED
  BY <1>2, <1>3, FinishedEnds, Zenon

\* An answer of the server that is lost outdates the others as if it had come.
LEMMA AnswersFlags ==
    ASSUME ask \in [Requests -> AskRecords], NEW q \in Requests,
           NEW t \in Tokens \union {"none"}, NEW ok \in BOOLEAN, NEW view \in [Tokens -> Views],
           Answers(q, t, ok, view)
    PROVE  /\ Flags(q)
           /\ \/ /\ Ends(q) /\ behind' = (behind \/ (ok /\ ask[q].kind # "load"))
                 /\ ok => Marked(q, t)
              \/ /\ ask'[q].at = "answered" /\ ask'[q].kind = ask[q].kind
                 /\ ask'[q].t = t /\ ask'[q].ok = ok /\ ask'[q].view = view
                 /\ behind' = behind
<1>1. CASE ask[q].lost
  <2> DEFINE rest == [ask EXCEPT ![q] = NoAsk]
  <2>1. rest \in [Requests -> AskRecords] /\ rest[q] = NoAsk
        /\ \A r \in Requests \ {q} : rest[r] = ask[r]
    BY NoAskTyped, SMT
  <2>2. /\ ask' = IF ok THEN Outdated(rest, t) ELSE rest
        /\ behind' = (behind \/ (ok /\ ask[q].kind # "load"))
    BY <1>1, Zenon DEF Answers
  <2> HIDE DEF rest
  <2>3. Same(ask'[q], rest[q])
    BY <2>1, <2>2, OutdatedKeeps, SMT DEF Same
  <2>4. Ends(q)
    BY <2>1, <2>3, NoAskTyped, SMT DEF Ends, Same
  <2>5. /\ ask' = rest => Flags(q)
        /\ ask' = Outdated(rest, t) => Flags(q) /\ Marked(q, t)
    BY <2>1, OutdatedFlags
  <2> QED
    BY <2>2, <2>4, <2>5, Zenon
<1>2. CASE ~ask[q].lost
  <2>1. ask' = [ask EXCEPT ![q] = Reply(ask[q], t, ok, view)] /\ behind' = behind
    BY <1>2, Zenon DEF Answers
  <2>2. /\ Reply(ask[q], t, ok, view) \in AskRecords
        /\ Reply(ask[q], t, ok, view).at = "answered"
        /\ Reply(ask[q], t, ok, view).kind = ask[q].kind
        /\ Reply(ask[q], t, ok, view).t = t
        /\ Reply(ask[q], t, ok, view).ok = ok
        /\ Reply(ask[q], t, ok, view).view = view
    <3> DEFINE a == ask[q]
    <3>1. a \in AskRecords
      OBVIOUS
    <3> HIDE DEF a
    <3>2. /\ Reply(a, t, ok, view) \in AskRecords
          /\ Reply(a, t, ok, view).at = "answered" /\ Reply(a, t, ok, view).kind = a.kind
          /\ Reply(a, t, ok, view).t = t /\ Reply(a, t, ok, view).ok = ok
          /\ Reply(a, t, ok, view).view = view
      BY <3>1, Zenon DEF AskRecords, Reply
    <3> QED
      BY <3>2, Zenon DEF a
  <2>3. ask'[q] = Reply(ask[q], t, ok, view) /\ \A r \in Requests \ {q} : ask'[r] = ask[r]
    BY <2>1, SMT
  <2> QED
    BY <2>1, <2>2, <2>3, Zenon DEF Flags, Same
<1> QED
  BY <1>1, <1>2

\* The changes still to be shown, after a step of request q.
LEMMA PendsAfter ==
    ASSUME NEW q \in Requests, Flags(q), NEW t
    PROVE  /\ Pends(t) \ {ask[q].kind} \subseteq Pends(t)'
           /\ ask[q].at # "answered" \/ ~ask[q].ok \/ ask[q].t # t \/ ask[q].kind = "load"
                  => Pends(t) \subseteq Pends(t)'
           /\ \A kind \in Changes : Told(q, kind, t)' => kind \in Pends(t)'
<1>1. ASSUME NEW kind \in Changes, NEW r \in Requests, r # q, Told(r, kind, t)
      PROVE  kind \in Pends(t)'
  <2>1. Told(r, kind, t)'
    BY <1>1, Zenon DEF Flags, Same, Told
  <2> QED
    BY <1>1, <2>1 DEF Pends
<1>2. \A kind \in Changes : Told(q, kind, t) =>
          ask[q].at = "answered" /\ ask[q].ok /\ ask[q].t = t /\ ask[q].kind = kind /\ kind # "load"
  BY DEF Told, Changes
<1>3. \A kind \in Pends(t) : kind \in Changes /\ \E r \in Requests : Told(r, kind, t)
  BY DEF Pends
<1>4. \A kind \in Changes : Told(q, kind, t)' => kind \in Pends(t)'
  BY DEF Pends
<1> QED
  BY <1>1, <1>2, <1>3, <1>4

\* The answers to other requests stay true, and close unless they are outdated.
LEMMA OthersAgree ==
    ASSUME TypeInv, Agrees, NEW q \in Requests, Flags(q), EndsLast, NEW t,
           \A u \in Tokens : CloseKept(u) \/ (u = t /\ Marked(q, t)),
           NEW r \in Requests, r # q
    PROVE  AnswerTrue(r)' /\ AnswerClose(r)'
<1>t. ask[r] \in AskRecords /\ AskNamed(ask[r]) /\ AnswerTrue(r) /\ AnswerClose(r)
  BY TypeParts DEF TypeInv, Named, Agrees
<1>s. Same(ask'[r], ask[r]) /\ (ask[r].stale => ask'[r].stale)
  BY DEF Flags
<1>v. ask[r].view \in [Tokens -> Views]
  BY <1>t DEF AskRecords
<1>1. AnswerTrue(r)'
  <2> SUFFICES ASSUME ask'[r].at = "answered", ask'[r].ok
               PROVE  /\ ask'[r].kind = "create" => ask'[r].view[ask'[r].t] # Absent
                      /\ ask'[r].kind = "revoke" => /\ IsEnded(table'[ask'[r].t])
                                                    /\ ask'[r].view[ask'[r].t] # Absent
                                                    /\ ask'[r].view[ask'[r].t].revoked
                      /\ ask'[r].kind = "delete" => table'[ask'[r].t] = Gone
    BY DEF AnswerTrue
  <2>1. /\ ask[r].at = "answered" /\ ask[r].ok /\ ask'[r].kind = ask[r].kind
        /\ ask'[r].t = ask[r].t /\ ask'[r].view = ask[r].view
    BY <1>s, Zenon DEF Same
  <2>2. ask[r].kind \in {"revoke", "delete"} => ask[r].t \in Tokens
    BY <1>t DEF AskNamed
  <2> QED
    BY <2>1, <2>2, <1>t DEF AnswerTrue, EndsLast
<1>2. AnswerClose(r)'
  <2> SUFFICES ASSUME ask'[r].at = "answered", ask'[r].ok, ~ask'[r].stale, NEW u \in Tokens,
                      ask'[r].kind = "load" \/ (ask'[r].kind = "create" /\ ask'[r].t = u)
               PROVE  Close(ask'[r].view[u], table'[u], Pends(u)')
    BY DEF AnswerClose
  <2>1. /\ ask[r].at = "answered" /\ ask[r].ok /\ ~ask[r].stale
        /\ ask[r].kind = "load" \/ (ask[r].kind = "create" /\ ask[r].t = u)
        /\ ask'[r].view = ask[r].view
    BY <1>s, Zenon DEF Same
  <2>2. Close(ask[r].view[u], table[u], Pends(u)) /\ ask[r].view[u] \in Views
    BY <2>1, <1>t, <1>v DEF AnswerClose
  <2>3. ~(u = t /\ Marked(q, t)) \/ ask[r].kind = "load"
    BY <2>1 DEF Marked
  <2>4. CloseKept(u)
    BY <2>1, <2>3 DEF Marked
  <2> QED
    BY <2>1, <2>2, <2>4, Zenon DEF CloseKept
<1> QED
  BY <1>1, <1>2

\* A request comes to the server, is given up or is found good: nothing is shown.
LEMMA QuietAgrees ==
    ASSUME TypeInv, Agrees, NEW q \in Requests, Flags(q), UNCHANGED <<table, list, behind>>,
           ask[q].at # "answered", ask'[q].at # "answered"
    PROVE  Agrees'
<1>1. \A t \in Tokens : CloseKept(t)
  <2>1. \A t \in Tokens : RowKept(t) /\ Pends(t) \subseteq Pends(t)'
    BY PendsAfter, Zenon DEF RowKept
  <2> QED
    BY <2>1, CloseStays
<1>2. EndsLast
  BY EndsStay
<1>3. ListClose'
  <2>1. list \in [Tokens -> Views]
    BY TypeParts DEF TypeInv
  <2>2. ASSUME ~behind, NEW t \in Tokens PROVE Close(list[t], table'[t], Pends(t)')
    BY <2>1, <2>2, <1>1 DEF Agrees, ListClose, CloseKept
  <2> QED
    BY <2>2 DEF ListClose
<1>4. \A r \in Requests : r # q => AnswerTrue(r)' /\ AnswerClose(r)'
  BY <1>1, <1>2, OthersAgree
<1>5. AnswerTrue(q)' /\ AnswerClose(q)'
  BY DEF AnswerTrue, AnswerClose
<1> QED
  BY <1>3, <1>4, <1>5 DEF Agrees

\* The server has done kind to the row of t, or nothing; the answer, if it is
\* sent, tells of it.
LEMMA AnswersAgree ==
    ASSUME TypeInv, Agrees, NEW q \in Requests, ask[q].at # "answered",
           NEW t \in Tokens \union {"none"}, NEW ok \in BOOLEAN, NEW view \in [Tokens -> Views],
           Answers(q, t, ok, view), list' = list, EndsLast,
           \A u \in Tokens : RowKept(u) \/ (u = t /\ ok /\ ask[q].kind \in Changes),
           ok /\ ask[q].kind \in Changes =>
               /\ t \in Tokens
               /\ \A v \in Views, p \in SUBSET Changes : p = Pends(t) /\ Close(v, table[t], p)
                        => Close(v, table'[t], p \union {ask[q].kind}),
           ok => \A u \in Tokens : ask[q].kind = "load" \/ (ask[q].kind = "create" /\ u = t)
                                       => Close(view[u], table'[u], {}),
           ok /\ ask[q].kind = "create" => view[t] # Absent,
           ok /\ ask[q].kind = "revoke" => view[t] # Absent /\ view[t].revoked /\ IsEnded(table'[t]),
           ok /\ ask[q].kind = "delete" => table'[t] = Gone
    PROVE  Agrees'
<1>t. /\ ask \in [Requests -> AskRecords] /\ ask[q].kind \in {"none", "load", "create", "revoke", "delete"}
      /\ list \in [Tokens -> Views] /\ behind \in BOOLEAN
  BY TypeParts DEF TypeInv, AskRecords
<1>1. /\ Flags(q)
      /\ \/ /\ Ends(q) /\ behind' = (behind \/ (ok /\ ask[q].kind # "load"))
            /\ ok => Marked(q, t)
         \/ /\ ask'[q].at = "answered" /\ ask'[q].kind = ask[q].kind
            /\ ask'[q].t = t /\ ask'[q].ok = ok /\ ask'[q].view = view
            /\ behind' = behind
  BY <1>t, AnswersFlags
<1>2. \A u \in Tokens : Pends(u) \subseteq Pends(u)'
  BY <1>1, PendsAfter
<1>3. \A u \in Tokens : RowKept(u) => CloseKept(u)
  BY <1>2, CloseStays
<1>4. CASE /\ ask'[q].at = "answered" /\ ask'[q].kind = ask[q].kind
           /\ ask'[q].t = t /\ ask'[q].ok = ok /\ ask'[q].view = view
           /\ behind' = behind
  <2>1. \A u \in Tokens : CloseKept(u)
    <3> SUFFICES ASSUME NEW u \in Tokens, u = t, ok, ask[q].kind \in Changes,
                        NEW v \in Views, Close(v, table[u], Pends(u))
                 PROVE  Close(v, table'[u], Pends(u)')
      BY <1>3 DEF CloseKept
    <3>1. ask[q].kind \in Pends(u)'
      BY <1>4 DEF Pends, Told
    <3>2. Close(v, table'[u], Pends(u) \union {ask[q].kind})
      <4>1. Pends(u) \in SUBSET Changes
        BY DEF Pends
      <4> QED
        BY <4>1
    <3> QED
      BY <3>1, <3>2, <1>2 DEF Close
  <2>2. ListClose'
    <3>1. ASSUME ~behind, NEW u \in Tokens PROVE Close(list[u], table'[u], Pends(u)')
      BY <3>1, <2>1, <1>t DEF Agrees, ListClose, CloseKept
    <3> QED
      BY <3>1, <1>4 DEF ListClose
  <2>3. \A r \in Requests : r # q => AnswerTrue(r)' /\ AnswerClose(r)'
    BY <1>1, <2>1, OthersAgree
  <2>4. AnswerTrue(q)'
    BY <1>4 DEF AnswerTrue
  <2>5. AnswerClose(q)'
    <3> SUFFICES ASSUME ok, NEW u \in Tokens, ask[q].kind = "load" \/ (ask[q].kind = "create" /\ t = u)
                 PROVE  Close(view[u], table'[u], Pends(u)')
      BY <1>4 DEF AnswerClose
    <3>1. Close(view[u], table'[u], {})
      OBVIOUS
    <3> QED
      BY <3>1 DEF Close
  <2> QED
    BY <2>2, <2>3, <2>4, <2>5 DEF Agrees
<1>5. CASE /\ Ends(q) /\ behind' = (behind \/ (ok /\ ask[q].kind # "load"))
           /\ ok => Marked(q, t)
  <2>1. \A u \in Tokens : CloseKept(u) \/ (u = t /\ Marked(q, t))
    BY <1>3, <1>5
  <2>2. ListClose'
    <3>1. ASSUME ~behind', NEW u \in Tokens PROVE Close(list[u], table'[u], Pends(u)')
      <4>1. ~behind /\ ~(ok /\ ask[q].kind \in Changes)
        BY <3>1, <1>5 DEF Changes
      <4> QED
        BY <4>1, <1>3, <1>t DEF Agrees, ListClose, CloseKept
    <3> QED
      BY <3>1 DEF ListClose
  <2>3. \A r \in Requests : r # q => AnswerTrue(r)' /\ AnswerClose(r)'
    BY <1>1, <2>1, OthersAgree
  <2>4. AnswerTrue(q)' /\ AnswerClose(q)'
    BY <1>5 DEF Ends, AnswerTrue, AnswerClose
  <2> QED
    BY <2>2, <2>3, <2>4 DEF Agrees
<1> QED
  BY <1>1, <1>4, <1>5

\* The page has got an answer and shown what the hypothesis says.
LEMMA FinishedAgree ==
    ASSUME TypeInv, Agrees, NEW q \in Requests, ask[q].at = "answered", Finished(q),
           ~behind' => \A t \in Tokens : Close(list'[t], table[t], Pends(t)')
    PROVE  Agrees'
<1>t. ask \in [Requests -> AskRecords]
  BY TypeParts DEF TypeInv
<1>1. Ends(q) /\ Flags(q) /\ (ask[q].kind = "load" \/ ~ask[q].ok \/ Marked(q, ask[q].t)) /\ table' = table
  BY <1>t, FinishedFlags, Zenon DEF Finished, serverVars
<1>2. ASSUME NEW u \in Tokens, ask[q].kind = "load" \/ ~ask[q].ok \/ u # ask[q].t
      PROVE  CloseKept(u)
  <2>1. RowKept(u) /\ Pends(u) \subseteq Pends(u)'
    BY <1>1, <1>2, PendsAfter, Zenon DEF RowKept
  <2> QED
    BY <2>1, CloseStays
<1>3. EndsLast
  BY <1>1, EndsStay
<1>4. \A r \in Requests : r # q => AnswerTrue(r)' /\ AnswerClose(r)'
  <2>1. \A u \in Tokens : CloseKept(u) \/ (u = ask[q].t /\ Marked(q, ask[q].t))
    BY <1>1, <1>2
  <2> QED
    BY <1>1, <1>3, <2>1, OthersAgree
<1>5. AnswerTrue(q)' /\ AnswerClose(q)'
  BY <1>1 DEF Ends, AnswerTrue, AnswerClose
<1>6. ListClose'
  BY <1>1 DEF ListClose
<1> QED
  BY <1>4, <1>5, <1>6 DEF Agrees

\* A row that a token has says whether it is revoked.
LEMMA RevokedIsBool ==
    ASSUME TypeInv
    PROVE  /\ \A t \in Tokens : table[t] \notin {New, Gone} => table[t].revoked \in BOOLEAN
           /\ \A v \in Views : v # Absent => v.revoked \in BOOLEAN
<1>1. table \in [Tokens -> Row \union {New, Gone}]
  BY TypeParts DEF TypeInv
<1>2. \A r \in Row : r.revoked \in BOOLEAN
  BY DEF Row
<1> QED
  BY <1>1, <1>2, Zenon DEF Views

\* The server keeps the agreement: check, load, create, revoke and delete.
LEMMA ServesAgrees ==
    ASSUME TypeInv, Checked, Agrees, NEW q \in Requests, Serves(q)
    PROVE  Agrees'
<1>t. /\ table \in [Tokens -> Row \union {New, Gone}] /\ ask \in [Requests -> AskRecords]
      /\ ask[q] \in AskRecords /\ AskNamed(ask[q])
  BY TypeParts DEF TypeInv, Named
<1>l. list' = list /\ EndsLast
  BY ServesShape, EndsStay
<1>q. PICK t \in Tokens \union {"none"}, view \in [Tokens -> Views] : t = ask[q].t /\ view = ask[q].view
  BY <1>t DEF AskRecords
<1>k. \A u \in Tokens : table'[u] = table[u] => RowKept(u)
  BY Zenon DEF RowKept
<1>1. CASE HandlesInVain(q)
  <2>1. /\ Answers(q, t, FALSE, view) /\ table' = table /\ ask[q].at # "answered"
        /\ ask[q].kind \in {"load", "create", "revoke", "delete"}
    BY <1>1, <1>q, Zenon DEF HandlesInVain, Handles
  <2> QED
    BY <2>1, <1>k, <1>l, AnswersAgree
<1>2. CASE HandlesLoad(q)
  <2>1. /\ Answers(q, "none", TRUE, AllViews) /\ table' = table /\ ask[q].at # "answered"
        /\ ask[q].kind = "load"
    BY <1>2, Zenon DEF HandlesLoad, Handles
  <2>2. PICK all \in [Tokens -> Views] : all = AllViews
    BY <1>t, ViewsTyped
  <2>3. \A u \in Tokens : Close(all[u], table'[u], {})
    <3>1. ASSUME NEW u \in Tokens PROVE Close(View(u), table[u], {})
      <4>1. table[u] \in Row => table[u] # Absent
        BY RowFacts, Zenon
      <4> QED
        BY <4>1, <1>t DEF Close, View, Present
    <3> QED
      BY <2>1, <2>2, <3>1 DEF AllViews
  <2>4. /\ Answers(q, "none", TRUE, all) /\ "none" \in Tokens \union {"none"} /\ TRUE \in BOOLEAN
        /\ ask[q].kind \notin Changes
    BY <2>1, <2>2, Zenon DEF Changes
  <2> QED
    BY <2>1, <2>3, <2>4, <1>k, <1>l, AnswersAgree
<1>3. ASSUME NEW u \in Tokens, HandlesCreate(q, u) PROVE Agrees'
  <2>1. /\ table[u] = New /\ table' = [table EXCEPT ![u] = Fresh] /\ Answers(q, u, TRUE, Only(u, Fresh))
        /\ ask[q].at # "answered" /\ ask[q].kind = "create"
    BY <1>3, Zenon DEF HandlesCreate, Handles
  <2>2. PICK row \in [Tokens -> Views] : row = Only(u, Fresh)
    BY <1>t, ViewsTyped, RowFacts
  <2>3. row[u] = Fresh
    BY <2>2, NoAskTyped DEF Only
  <2>4. table'[u] = Fresh /\ \A w \in Tokens : w = u \/ RowKept(w)
    BY <2>1, <1>t, <1>k
  <2>5. Fresh # Absent /\ Fresh \notin {New, Gone} /\ ~Fresh.revoked
    BY RowFacts, Zenon
  <2>6. Close(row[u], table'[u], {})
    BY <2>3, <2>4, <2>5 DEF Close
  <2>7. "delete" \notin Pends(u)
    <3>1. ASSUME NEW r \in Requests, Told(r, "delete", u) PROVE FALSE
      <4>1. table[u] = Gone
        BY <3>1 DEF Agrees, AnswerTrue, Told
      <4> QED
        BY <4>1, <2>1, RowFacts
    <3> QED
      BY <3>1 DEF Pends
  <2>8. \A v \in Views, p \in SUBSET Changes : p = Pends(u) /\ Close(v, table[u], p)
            => Close(v, table'[u], p \union {ask[q].kind})
    BY <2>1, <2>4, <2>5, <2>7 DEF Close
  <2>9. /\ Answers(q, u, TRUE, row) /\ u \in Tokens \union {"none"} /\ TRUE \in BOOLEAN
        /\ ask[q].kind \in Changes /\ row[u] # Absent
    BY <2>1, <2>2, <2>3, <2>5, Zenon DEF Changes
  <2> QED
    BY <2>1, <2>4, <2>6, <2>8, <2>9, <1>l, AnswersAgree
<1>4. CASE HandlesRevoke(q)
  <2>1. /\ Present(t) /\ table' = [table EXCEPT ![t] = Revoked(table[t])]
        /\ Answers(q, t, TRUE, Only(t, Revoked(table[t])))
        /\ ask[q].at # "answered" /\ ask[q].kind = "revoke"
    BY <1>4, <1>q, Zenon DEF HandlesRevoke, Handles, Commits
  <2>2. t \in Tokens
    BY <2>1, <1>t, <1>q DEF AskNamed
  <2>3. table[t] \in Row /\ Revoked(table[t]) \in Row /\ Revoked(table[t]).revoked
    BY <2>1, <2>2, <1>t, RowChanges DEF Present
  <2>4. PICK row \in [Tokens -> Views] : row = Only(t, Revoked(table[t]))
    BY <2>2, <2>3, <1>t, ViewsTyped
  <2>5. row[t] = Revoked(table[t])
    BY <2>2, <2>4, NoAskTyped DEF Only
  <2>6. table'[t] = Revoked(table[t]) /\ \A w \in Tokens : w = t \/ RowKept(w)
    BY <2>1, <2>2, <1>t, <1>k
  <2>7. Revoked(table[t]) # Absent /\ Revoked(table[t]) \notin {New, Gone} /\ table[t] \notin {New, Gone}
    BY <2>3, RowFacts, Zenon
  <2>8. \A v \in Views, p \in SUBSET Changes : p = Pends(t) /\ Close(v, table[t], p)
            => Close(v, table'[t], p \union {ask[q].kind})
    BY <2>1, <2>6, <2>7 DEF Close
  <2>9. /\ Answers(q, t, TRUE, row) /\ t \in Tokens \union {"none"} /\ TRUE \in BOOLEAN
        /\ ask[q].kind \in Changes
    BY <2>1, <2>2, <2>4, Zenon DEF Changes
  <2>10. row[t] # Absent /\ row[t].revoked /\ IsEnded(table'[t])
    BY <2>3, <2>5, <2>6, <2>7, Zenon DEF IsEnded
  <2> QED
    BY <2>1, <2>2, <2>6, <2>8, <2>9, <2>10, <1>l, AnswersAgree
<1>5. CASE HandlesDelete(q)
  <2>1. /\ ask' = [ask EXCEPT ![q] = Moved(ask[q], "checked")]
        /\ UNCHANGED <<table, behind>> /\ ask[q].at = "asked"
    BY <1>5, Zenon DEF HandlesDelete, Handles
  <2>2. ask'[q].at = "checked" /\ \A r \in Requests \ {q} : ask'[r] = ask[r]
    BY <2>1, <1>t, CheckedTyped
  <2>3. Flags(q)
    BY <2>2, Zenon DEF Flags, Same
  <2> QED
    BY <2>1, <2>2, <2>3, <1>l, QuietAgrees
<1>6. CASE DeletesRow(q)
  <2>1. /\ Present(t) /\ table' = [table EXCEPT ![t] = Gone] /\ Answers(q, t, TRUE, view)
        /\ ask[q].at # "answered" /\ ask[q].kind = "delete"
    BY <1>6, <1>q, Zenon DEF DeletesRow, Handles
  <2>2. t \in Tokens
    BY <2>1, <1>t, <1>q DEF AskNamed
  <2>3. table'[t] = Gone /\ \A w \in Tokens : w = t \/ RowKept(w)
    BY <2>1, <2>2, <1>t, <1>k
  <2>4. \A v \in Views, p \in SUBSET Changes : p = Pends(t) /\ Close(v, table[t], p)
            => Close(v, table'[t], p \union {ask[q].kind})
    BY <2>1, <2>3 DEF Close
  <2>5. t \in Tokens \union {"none"} /\ TRUE \in BOOLEAN /\ ask[q].kind \in Changes
    BY <2>1, Zenon DEF Changes
  <2> QED
    BY <2>1, <2>2, <2>3, <2>4, <2>5, <1>l, AnswersAgree
<1> QED
  BY <1>1, <1>2, <1>3, <1>4, <1>5, <1>6 DEF Serves

\* The page keeps the agreement: what it asks, what it loses, what it shows.
LEMMA PageAgrees ==
    ASSUME TypeInv, Agrees, NEW q \in Requests, Page(q)
    PROVE  Agrees'
<1>t. /\ list \in [Tokens -> Views] /\ ask \in [Requests -> AskRecords] /\ ask[q] \in AskRecords
      /\ AskNamed(ask[q]) /\ behind \in BOOLEAN /\ ask[q].view \in [Tokens -> Views]
  BY TypeParts DEF TypeInv, Named, AskRecords
<1>u. table' = table
  BY PageShape
<1>f. ASSUME Finished(q) PROVE Flags(q) /\ Ends(q)
  BY <1>f, <1>t, FinishedFlags
<1>1. CASE Load(q) \/ Create(q) \/ \E t \in Tokens : Revoke(q, t) \/ Delete(q, t)
  <2>1. PICK kind \in {"load", "create", "revoke", "delete"}, t \in Tokens \union {"none"} : Asks(q, kind, t)
    BY <1>1 DEF Load, Create, Revoke, Delete
  <2>2. /\ ask' = [ask EXCEPT ![q] = Question(kind, t)] /\ ask[q].at = "idle"
        /\ UNCHANGED <<list, behind>>
    BY <2>1, Zenon DEF Asks
  <2>3. ask'[q].at = "asked" /\ \A r \in Requests \ {q} : ask'[r] = ask[r]
    BY <1>t, <2>2, QuestionTyped
  <2>4. Flags(q)
    BY <2>3, Zenon DEF Flags, Same
  <2> QED
    BY <2>2, <2>3, <2>4, <1>u, QuietAgrees
<1>2. CASE Loses(q)
  <2>1. /\ ask' = [ask EXCEPT ![q] = NoAsk] \/ ask' = [ask EXCEPT ![q] = GivenUp(ask[q])]
        /\ ask[q].at \in {"asked", "checked"} /\ UNCHANGED <<list, behind>>
    BY <1>2, Zenon DEF Loses
  <2>2. GivenUp(ask[q]).at = ask[q].at /\ NoAsk.at = "idle"
    BY <1>t, AskFlags, NoAskTyped DEF Same
  <2>3. ask'[q].at # "answered" /\ \A r \in Requests \ {q} : ask'[r] = ask[r]
    BY <1>t, <2>1, <2>2
  <2>4. Flags(q)
    BY <2>3, Zenon DEF Flags, Same
  <2> QED
    BY <2>1, <2>3, <2>4, <1>u, QuietAgrees
<1>3. CASE GetsLoad(q)
  <2>1. /\ ask[q].at = "answered" /\ ask[q].ok /\ ask[q].kind = "load" /\ Finished(q)
        /\ list' = ask[q].view /\ behind' = ask[q].stale
    BY <1>3, Zenon DEF GetsLoad, Gets
  <2>2. ASSUME ~behind', NEW u \in Tokens PROVE Close(list'[u], table[u], Pends(u)')
    <3>1. Close(ask[q].view[u], table[u], Pends(u))
      BY <2>1, <2>2 DEF Agrees, AnswerClose
    <3>2. Pends(u) \subseteq Pends(u)'
      BY <2>1, <1>f, PendsAfter
    <3> QED
      BY <2>1, <3>1, <3>2 DEF Close
  <2> QED
    BY <2>1, <2>2, FinishedAgree
<1>4. ASSUME NEW t \in Tokens, ask[q].t = t, ask[q].at = "answered", Finished(q), ~behind' => ~behind,
             \A u \in Tokens : u # t => list'[u] = list[u],
             ~behind' => \A p \in SUBSET Changes : Pends(t) \ {ask[q].kind} \subseteq p
                             => Close(list'[t], table[t], p)
      PROVE  Agrees'
  <2>1. ASSUME ~behind', NEW u \in Tokens PROVE Close(list'[u], table[u], Pends(u)')
    <3>1. Close(list[u], table[u], Pends(u))
      BY <2>1, <1>4 DEF Agrees, ListClose
    <3>2. CASE u # t
      <4>1. Pends(u) \subseteq Pends(u)'
        BY <3>2, <1>4, <1>f, PendsAfter
      <4> QED
        BY <1>4, <3>1, <3>2, <4>1 DEF Close
    <3>3. CASE u = t
      <4>1. Pends(t) \ {ask[q].kind} \subseteq Pends(t)'
        BY <1>4, <1>f, PendsAfter
      <4>2. Pends(t)' \in SUBSET Changes
        BY DEF Pends
      <4>3. PICK p \in SUBSET Changes : p = Pends(t)'
        BY <4>2
      <4>4. Close(list'[t], table[t], p)
        BY <1>4, <2>1, <4>1, <4>3
      <4> QED
        BY <3>3, <4>3, <4>4
    <3> QED
      BY <3>2, <3>3
  <2> QED
    BY <2>1, <1>4, FinishedAgree
<1>5. CASE GetsCreate(q)
  <2>1. /\ ask[q].at = "answered" /\ ask[q].ok /\ ask[q].kind = "create" /\ Finished(q)
        /\ list' = [list EXCEPT ![ask[q].t] = ask[q].view[ask[q].t]] /\ behind' = (behind \/ ask[q].stale)
    BY <1>5, Zenon DEF GetsCreate, Gets
  <2>2. PICK t \in Tokens : t = ask[q].t
    BY <2>1, <1>t DEF AskNamed
  <2>3. list'[t] = ask[q].view[t] /\ ask[q].view[t] # Absent /\ \A u \in Tokens : u # t => list'[u] = list[u]
    BY <2>1, <2>2, <1>t DEF Agrees, AnswerTrue
  <2>4. ASSUME ~behind', NEW p \in SUBSET Changes, Pends(t) \ {"create"} \subseteq p
        PROVE  Close(list'[t], table[t], p)
    <3>1. Close(ask[q].view[t], table[t], Pends(t))
      BY <2>1, <2>2, <2>4 DEF Agrees, AnswerClose
    <3> QED
      BY <2>3, <2>4, <3>1 DEF Close
  <2> QED
    BY <2>1, <2>2, <2>3, <2>4, <1>4
<1>6. CASE GetsRevoke(q)
  <2>1. /\ ask[q].at = "answered" /\ ask[q].ok /\ ask[q].kind = "revoke" /\ Finished(q)
        /\ list' = [list EXCEPT ![ask[q].t] = IF list[ask[q].t] = Absent THEN Absent ELSE ask[q].view[ask[q].t]]
        /\ behind' = behind
    BY <1>6, Zenon DEF GetsRevoke, Gets
  <2>2. PICK t \in Tokens : t = ask[q].t
    BY <2>1, <1>t DEF AskNamed
  <2>3. /\ list'[t] = IF list[t] = Absent THEN Absent ELSE ask[q].view[t]
        /\ ask[q].view[t] # Absent /\ ask[q].view[t].revoked /\ IsEnded(table[t])
        /\ \A u \in Tokens : u # t => list'[u] = list[u]
    BY <2>1, <2>2, <1>t DEF Agrees, AnswerTrue
  <2>4. ASSUME ~behind', NEW p \in SUBSET Changes, Pends(t) \ {"revoke"} \subseteq p
        PROVE  Close(list'[t], table[t], p)
    <3>1. Close(list[t], table[t], Pends(t))
      BY <2>1, <2>4 DEF Agrees, ListClose
    <3>2. table[t] \notin {New, Gone} => table[t].revoked = TRUE
      BY <2>3, RevokedIsBool, Zenon DEF IsEnded
    <3>3. ask[q].view[t].revoked = TRUE
      BY <2>3, <1>t, RevokedIsBool, Zenon
    <3> QED
      BY <2>3, <2>4, <3>1, <3>2, <3>3 DEF Close
  <2> QED
    BY <2>1, <2>2, <2>3, <2>4, <1>4
<1>7. CASE GetsDelete(q)
  <2>1. /\ ask[q].at = "answered" /\ ask[q].ok /\ ask[q].kind = "delete" /\ Finished(q)
        /\ list' = [list EXCEPT ![ask[q].t] = Absent] /\ behind' = behind
    BY <1>7, Zenon DEF GetsDelete, Gets, Without
  <2>2. PICK t \in Tokens : t = ask[q].t
    BY <2>1, <1>t DEF AskNamed
  <2>3. list'[t] = Absent /\ table[t] = Gone /\ \A u \in Tokens : u # t => list'[u] = list[u]
    BY <2>1, <2>2, <1>t DEF Agrees, AnswerTrue
  <2>4. \A p \in SUBSET Changes : Close(list'[t], table[t], p)
    BY <2>3 DEF Close
  <2> QED
    BY <2>1, <2>2, <2>3, <2>4, <1>4
<1>8. CASE GetsError(q)
  <2>1. /\ ask[q].at = "answered" /\ Finished(q) /\ list' = list
        /\ behind' = (behind \/ (ask[q].ok /\ ask[q].kind # "load"))
    BY <1>8, Zenon DEF GetsError
  <2>2. ASSUME ~behind', NEW u \in Tokens PROVE Close(list'[u], table[u], Pends(u)')
    <3>1. Close(list[u], table[u], Pends(u)) /\ (~ask[q].ok \/ ask[q].kind = "load")
      BY <2>1, <2>2 DEF Agrees, ListClose
    <3>2. Pends(u) \subseteq Pends(u)'
      BY <2>1, <3>1, <1>f, PendsAfter
    <3> QED
      BY <2>1, <3>1, <3>2 DEF Close
  <2> QED
    BY <2>1, <2>2, FinishedAgree
<1> QED
  BY <1>1, <1>2, <1>3, <1>5, <1>6, <1>7, <1>8 DEF Page

\* A registration keeps the agreement: it changes a row only in its use.
LEMMA EnrollsAgrees ==
    ASSUME TypeInv, Agrees, NEW a \in Attempts, Enrolls(a)
    PROVE  Agrees'
<1>t. table \in [Tokens -> Row \union {New, Gone}] /\ list \in [Tokens -> Views]
      /\ ask \in [Requests -> AskRecords]
  BY TypeParts DEF TypeInv
<1>u. UNCHANGED <<ask, list, behind>>
  BY Zenon DEF Enrolls, Register, UseToken, CreateDevice, SaveConfig, pageVars
<1>1. RegStep(a)
  BY EnrollsSteps
<1>2. EndsLast
  BY <1>1, EndsStay
<1>3. \A t \in Tokens : CloseKept(t)
  <2>1. ASSUME NEW t \in Tokens PROVE RowKept(t)
    <3>1. table'[t] = table[t] \/ (table[t] = Fresh /\ table'[t] = Used(Fresh))
      BY <1>1, <1>t DEF RegStep, Sends, Takes, Makes, Saves, Stops
    <3>2. /\ Fresh \notin {New, Gone} /\ Used(Fresh) \notin {New, Gone}
          /\ Used(Fresh).revoked = Fresh.revoked
      BY RowFacts, RowChanges
    <3> QED
      BY <3>1, <3>2, Zenon DEF RowKept
  <2>2. \A t \in Tokens : Pends(t)' = Pends(t)
    BY <1>u, Zenon DEF Pends, Told
  <2> QED
    BY <2>1, <2>2, CloseStays
<1>4. ListClose'
  <2>1. ASSUME ~behind, NEW t \in Tokens PROVE Close(list[t], table'[t], Pends(t)')
    BY <2>1, <1>3, <1>t DEF Agrees, ListClose, CloseKept
  <2> QED
    BY <2>1, <1>u DEF ListClose
<1>5. ASSUME NEW r \in Requests PROVE AnswerTrue(r)' /\ AnswerClose(r)'
  <2>1. /\ AnswerTrue(r) /\ AnswerClose(r) /\ AskNamed(ask[r]) /\ ask[r].view \in [Tokens -> Views]
    BY <1>t DEF Agrees, TypeInv, Named, AskRecords
  <2>2. AnswerTrue(r)'
    BY <2>1, <1>u, <1>2 DEF AnswerTrue, AskNamed, EndsLast
  <2>3. ASSUME ask[r].at = "answered", ask[r].ok, ~ask[r].stale, NEW t \in Tokens,
               ask[r].kind = "load" \/ (ask[r].kind = "create" /\ ask[r].t = t)
        PROVE  Close(ask[r].view[t], table'[t], Pends(t)')
    BY <2>1, <2>3, <1>3 DEF AnswerClose, CloseKept
  <2>4. AnswerClose(r)'
    BY <2>3, <1>u DEF AnswerClose
  <2> QED
    BY <2>2, <2>4
<1> QED
  BY <1>4, <1>5 DEF Agrees

\* The invariant of the agreement, with the others that it rests on.
LEMMA AgreeInductive == (Init => Agrees) /\ (IInv /\ Agrees /\ [Next]_vars => Agrees')
<1>1. ASSUME Init PROVE Agrees
  <2>1. PICK old \in SUBSET Tokens :
            /\ table = [t \in Tokens |-> IF t \in old THEN Fresh ELSE New]
            /\ behind = (old # {})
            /\ ask = [q \in Requests |-> NoAsk] /\ list = [t \in Tokens |-> Absent]
    BY <1>1, Zenon DEF Init
  <2>2. \A r \in Requests : AnswerTrue(r) /\ AnswerClose(r)
    BY <2>1, NoAskTyped DEF AnswerTrue, AnswerClose
  <2>3. ListClose
    BY <2>1 DEF ListClose, Close
  <2> QED
    BY <2>2, <2>3 DEF Agrees
<1>2. ASSUME IInv, Agrees, [Next]_vars PROVE Agrees'
  <2>1. TypeInv /\ Checked
    BY <1>2 DEF IInv
  <2>2. CASE UNCHANGED vars
    <3>1. UNCHANGED <<table, ask, list, behind>>
      BY <2>2, Zenon DEF vars, serverVars, pageVars
    <3>2. \A t \in Tokens : Pends(t)' = Pends(t)
      BY <3>1, Zenon DEF Pends, Told
    <3> QED
      BY <1>2, <3>1, <3>2, Zenon DEF Agrees, ListClose, AnswerTrue, AnswerClose
  <2> QED
    BY <1>2, <2>1, <2>2, EnrollsAgrees, PageAgrees, ServesAgrees DEF Next
<1> QED
  BY <1>1, <1>2

\* When no request is under way, the list of tokens agrees with the table unless
\* the page had reason to know that it might not: for every number of tokens and
\* requests, in whatever order answers come and whichever are lost.
THEOREM StaleCorrect == Spec => []NothingElseStale
<1>1. IInv /\ Agrees => NothingElseStale
  <2> SUFFICES ASSUME IInv, Agrees, ~behind, \A q \in Requests : ask[q].at = "idle", NEW t \in Tokens
               PROVE  /\ list[t] = Absent <=> ~Present(t)
                      /\ Present(t) => list[t].revoked = table[t].revoked
    BY DEF NothingElseStale
  <2>1. Pends(t) = {}
    BY DEF Pends, Told
  <2>2. Close(list[t], table[t], {})
    BY <2>1 DEF Agrees, ListClose
  <2> QED
    BY <2>2 DEF Close, Present
<1>2. Init => IInv /\ Agrees
  BY Inductive, AgreeInductive
<1>3. IInv /\ Agrees /\ [Next]_vars => IInv' /\ Agrees'
  BY Inductive, AgreeInductive
<1> QED
  BY <1>1, <1>2, <1>3, PTL DEF Spec
=============================================================================
