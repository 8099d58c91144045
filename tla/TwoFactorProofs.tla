--------------------------- MODULE TwoFactorProofs ---------------------------
(***************************************************************************)
(* TwoFactor for any number of requests, any length of the lives and any   *)
(* time, and whether the management requests share locks or not.           *)
(***************************************************************************)
EXTENDS TwoFactor, TLAPS

Settings == [cfg : Ids \union {NoId}, on : BOOLEAN, expires : Nat, last : Int]

CodeTypes == [t : {"totp", "recovery"}, of : Ids \union {NoId}, n : Nat]

SecondRecords == [at : {"idle", "verified", "in", "refused"}, of : Logins \union {NoLogin},
                  code : CodeTypes, t : Nat]

ManageRecords == [at : {"idle", "read", "ok", "refused"},
                  kind : {"none", "setup", "enable", "rotate", "disable"},
                  cfg : Ids \union {NoId}, n : Nat, t : Nat]

LoginRecords == [at : {"idle", "read", "asked", "failed", "in"}, cfg : Ids \union {NoId}, exp : Nat]

LEMMA CodesAreTyped ==
    /\ \A m \in Ids : CodeSet(m) \subseteq CodeTypes
    /\ \A c \in Ids \union {NoId}, n \in Nat : Totp(c, n) \in CodeTypes
    /\ Given \subseteq CodeTypes
<1>1. \A m \in Ids : CodeSet(m) \subseteq CodeTypes
  BY TwoFactorAssumption, SMT DEF CodeSet, CodeTypes, Ids
<1>2. Given \subseteq CodeTypes
  BY <1>1, SMT DEF Given, Ids
<1> QED
  BY <1>1, <1>2, SMT DEF Totp, CodeTypes, Ids

LEMMA NoSettingIsTyped == NoSetting \in Settings
BY SMT DEF NoSetting, Settings

LEMMA InitialSetting == Init => setting \in Settings
<1> SUFFICES ASSUME Init PROVE setting \in Settings
  OBVIOUS
<1>1. CASE setting = NoSetting
  BY <1>1, NoSettingIsTyped
<1>2. CASE setting = [cfg |-> Original, on |-> FALSE, expires |-> SetupLife, last |-> -1]
  BY <1>2, TwoFactorAssumption, SMT DEF Settings, Ids
<1>3. CASE setting = [cfg |-> Original, on |-> TRUE, expires |-> 0, last |-> -1]
  BY <1>3, SMT DEF Settings, Ids
<1> QED
  BY <1>1, <1>2, <1>3, Zenon DEF Init

LEMMA NoneIsTyped ==
    /\ \A at \in {"idle", "failed", "in"} : NoAsk(at) \in LoginRecords
    /\ \A at \in {"idle", "refused"} : NoSecond(at) \in SecondRecords
    /\ \A at \in {"idle", "refused"} : NoManage(at) \in ManageRecords
BY CodesAreTyped, SMT DEF NoAsk, NoSecond, NoManage, LoginRecords, SecondRecords, ManageRecords

LEMMA DoneIsTyped ==
    /\ \A r \in SecondRecords : Done(r, "in") \in SecondRecords
    /\ \A r \in ManageRecords : Done(r, "ok") \in ManageRecords
    /\ [NoManage("ok") EXCEPT !.kind = "disable"] \in ManageRecords
<1>1. \A r \in SecondRecords : Done(r, "in") \in SecondRecords
  BY Zenon DEF Done, SecondRecords
<1>2. \A r \in ManageRecords : Done(r, "ok") \in ManageRecords
  BY Zenon DEF Done, ManageRecords
<1>3. [NoManage("ok") EXCEPT !.kind = "disable"] \in ManageRecords
  BY SMT DEF NoManage, ManageRecords
<1> QED
  BY <1>1, <1>2, <1>3

LEMMA TypeParts ==
    TypeOK <=> /\ now \in Nat /\ setting \in Settings
               /\ codes \subseteq UNION {CodeSet(m) : m \in Ids}
               /\ row \in [Logins -> {"none", "open", "spent"}]
               /\ login \in [Logins -> LoginRecords]
               /\ second \in [Seconds -> SecondRecords]
               /\ manage \in [Managers -> ManageRecords]
BY Zenon DEF TypeOK, Settings, LoginRecords, SecondRecords, ManageRecords, CodeTypes

\* The types hold in every state.
THEOREM TypeCorrect == Spec => []TypeOK
<1>1. Init => TypeOK
  <2> SUFFICES ASSUME Init PROVE TypeOK
    OBVIOUS
  <2>1. codes \subseteq UNION {CodeSet(m) : m \in Ids}
    BY Zenon DEF Init, Ids
  <2>2. now \in Nat /\ row \in [Logins -> {"none", "open", "spent"}]
    BY DEF Init
  <2>3. /\ login \in [Logins -> LoginRecords]
        /\ second \in [Seconds -> SecondRecords]
        /\ manage \in [Managers -> ManageRecords]
    BY NoneIsTyped, Zenon DEF Init
  <2> QED
    BY InitialSetting, TypeParts, <2>1, <2>2, <2>3
<1>2. TypeOK /\ [Next]_vars => TypeOK'
  <2> SUFFICES ASSUME TypeOK, [Next]_vars PROVE TypeOK'
    OBVIOUS
  <2>t. /\ now \in Nat /\ setting \in Settings
        /\ codes \subseteq UNION {CodeSet(m) : m \in Ids}
        /\ row \in [Logins -> {"none", "open", "spent"}]
        /\ login \in [Logins -> LoginRecords]
        /\ second \in [Seconds -> SecondRecords]
        /\ manage \in [Managers -> ManageRecords]
    BY TypeParts
  <2>p. /\ now' \in Nat /\ setting' \in Settings
        /\ codes' \subseteq UNION {CodeSet(m) : m \in Ids}
        /\ row' \in [Logins -> {"none", "open", "spent"}]
        /\ login' \in [Logins -> LoginRecords]
        /\ second' \in [Seconds -> SecondRecords]
        /\ manage' \in [Managers -> ManageRecords]
        => TypeOK'
    BY Zenon DEF TypeOK, Settings, LoginRecords, SecondRecords, ManageRecords, CodeTypes
  <2>1. CASE UNCHANGED vars
    BY <2>1, <2>t, <2>p DEF vars
  <2>2. CASE Tick
    BY <2>2, <2>t, <2>p, SMT DEF Tick
  <2>3. ASSUME NEW l \in Logins, LoginReads(l) PROVE TypeOK'
    <3>1. [at |-> "read", cfg |-> setting.cfg, exp |-> now + ChallengeLife] \in LoginRecords
      BY <2>t, TwoFactorAssumption, SMT DEF LoginRecords, Settings
    <3>2. login' \in [Logins -> LoginRecords]
      BY <2>3, <2>t, <3>1, NoneIsTyped, Zenon DEF LoginReads
    <3> QED
      BY <2>3, <2>t, <2>p, <3>2 DEF LoginReads
  <2>4. ASSUME NEW l \in Logins, LoginAsks(l) PROVE TypeOK'
    <3>1. [login[l] EXCEPT !.at = "asked"] \in LoginRecords
      BY <2>t, SMT DEF LoginRecords
    <3>2. login' \in [Logins -> LoginRecords]
      BY <2>4, <2>t, <3>1, NoneIsTyped, SMT DEF LoginAsks
    <3>3. row' \in [Logins -> {"none", "open", "spent"}]
      BY <2>4, <2>t, SMT DEF LoginAsks, RowsWith
    <3> QED
      BY <2>4, <2>t, <2>p, <3>2, <3>3 DEF LoginAsks
  <2>5. ASSUME NEW s \in Seconds, NEW l \in Logins, NEW c \in CodeTypes, SecondVerifies(s, l, c)
        PROVE  TypeOK'
    <3>1. [at |-> "verified", of |-> l, code |-> c, t |-> now] \in SecondRecords
      BY <2>t, SMT DEF SecondRecords
    <3> QED
      BY <2>5, <2>t, <2>p, <3>1 DEF SecondVerifies
  <2>6. ASSUME NEW s \in Seconds, SecondConsumes(s) PROVE TypeOK'
    <3>1. Done(second[s], "in") \in SecondRecords
      BY <2>t, DoneIsTyped
    <3>2. second' \in [Seconds -> SecondRecords]
      BY <2>6, <2>t, <3>1, NoneIsTyped, SMT DEF SecondConsumes
    <3>3. row' \in [Logins -> {"none", "open", "spent"}]
      BY <2>6, <2>t, SMT DEF SecondConsumes, Spent
    <3>4. [setting EXCEPT !.last = second[s].code.n] \in Settings
      BY <2>t, SMT DEF Settings, SecondRecords, CodeTypes
    <3>5. setting' \in Settings
      BY <2>6, <2>t, <3>4, Zenon DEF SecondConsumes
    <3>6. codes' \subseteq codes
      BY <2>6, Zenon DEF SecondConsumes
    <3> QED
      BY <2>6, <2>t, <2>p, <3>2, <3>3, <3>5, <3>6 DEF SecondConsumes
  <2>7. ASSUME NEW m \in Managers, NEW kind \in {"setup", "enable", "rotate"},
               NEW cfg \in Ids \union {NoId}, NEW n \in Nat, Reads(m, kind, cfg, n)
        PROVE  TypeOK'
    <3>1. [at |-> "read", kind |-> kind, cfg |-> cfg, n |-> n, t |-> now] \in ManageRecords
      BY <2>t, SMT DEF ManageRecords
    <3> QED
      BY <2>7, <2>t, <2>p, <3>1 DEF Reads
  <2>8. ASSUME NEW m \in Managers, Refused(m) PROVE TypeOK'
    BY <2>8, <2>t, <2>p, NoneIsTyped DEF Refused
  <2>9. ASSUME NEW m \in Managers, Succeeds(m), setting' \in Settings,
               codes' \subseteq UNION {CodeSet(k) : k \in Ids}
        PROVE  TypeOK'
    <3>1. Done(manage[m], "ok") \in ManageRecords
      BY <2>t, DoneIsTyped
    <3>2. manage' \in [Managers -> ManageRecords]
      BY <2>9, <2>t, <3>1, SMT DEF Succeeds
    <3> QED
      BY <2>9, <2>t, <2>p, <3>2 DEF Succeeds
  <2>10. ASSUME NEW m \in Managers, SetupSaves(m) PROVE TypeOK'
    <3>1. [cfg |-> m, on |-> FALSE, last |-> -1, expires |-> manage[m].t + SetupLife] \in Settings
      BY <2>t, TwoFactorAssumption, SMT DEF Settings, ManageRecords, Ids
    <3> QED
      BY <2>10, <2>8, <2>9, <2>t, <3>1, Zenon DEF SetupSaves
  <2>11. ASSUME NEW m \in Managers, EnableCommits(m) PROVE TypeOK'
    <3>1. [cfg |-> setting.cfg, on |-> TRUE, expires |-> 0, last |-> manage[m].n] \in Settings
      BY <2>t, SMT DEF Settings, ManageRecords
    <3>2. NewCodes(m) \subseteq UNION {CodeSet(k) : k \in Ids}
      BY DEF NewCodes, Ids
    <3> QED
      BY <2>11, <2>8, <2>9, <3>1, <3>2, Zenon DEF EnableCommits
  <2>12. ASSUME NEW m \in Managers, RotateCommits(m) PROVE TypeOK'
    <3>1. [setting EXCEPT !.last = manage[m].n] \in Settings
      BY <2>t, SMT DEF Settings, ManageRecords
    <3>2. NewCodes(m) \subseteq UNION {CodeSet(k) : k \in Ids}
      BY DEF NewCodes, Ids
    <3> QED
      BY <2>12, <2>8, <2>9, <3>1, <3>2, Zenon DEF RotateCommits
  <2>13. ASSUME NEW m \in Managers, Disable(m) PROVE TypeOK'
    <3>1. manage' \in [Managers -> ManageRecords]
      BY <2>13, <2>t, DoneIsTyped, Zenon DEF Disable
    <3> QED
      BY <2>13, <2>t, <2>p, <3>1, NoSettingIsTyped DEF Disable
  <2>14. setting.cfg \in Ids \union {NoId}
    BY <2>t DEF Settings
  <2>15. Window(now) \subseteq Nat
    BY <2>t, SMT DEF Window
  <2>16. ASSUME NEW m \in Managers,
                SetupReads(m) \/ \E n \in Window(now) : EnableReads(m, n) \/ RotateReads(m, n)
         PROVE  TypeOK'
    BY <2>7, <2>14, <2>15, <2>16, SMT DEF SetupReads, EnableReads, RotateReads
  <2>17. \A n \in Window(now) : Totp(setting.cfg, n) \in CodeTypes
    BY <2>14, <2>15, CodesAreTyped
  <2> QED
    BY <2>1, <2>2, <2>3, <2>4, <2>5, <2>6, <2>10, <2>11, <2>12, <2>13, <2>16, <2>17, CodesAreTyped
    DEF Next
<1> QED
  BY <1>1, <1>2, PTL DEF Spec

-----------------------------------------------------------------------------
(* What is known of the identifiers in use *)

\* A configuration that exists or has existed, and the codes that were given.
Made(c) ==
    \/ c = Original
    \/ c \in Managers /\ manage[c].at = "ok" /\ manage[c].kind = "setup"

Issued(c) ==
    \/ c = Original
    \/ c \in Managers /\ Proved(c)

LEMMA DoneFields ==
    /\ \A r \in SecondRecords : /\ Done(r, "in").at = "in"
                               /\ Done(r, "in").code = r.code
                               /\ Done(r, "in").of = r.of
    /\ \A r \in ManageRecords : /\ Done(r, "ok").at = "ok"
                               /\ Done(r, "ok").kind = r.kind
                               /\ Done(r, "ok").cfg = r.cfg
                               /\ Done(r, "ok").n = r.n
BY Zenon DEF Done, SecondRecords, ManageRecords

\* Only Disable ends a request of managers at once; all others end one that reads.
LEMMA ManageSteps ==
    ASSUME TypeOK, NEW m \in Managers
    PROVE  /\ Refused(m) => manage' = [manage EXCEPT ![m] = NoManage("refused")]
           /\ Succeeds(m) => /\ manage'[m].at = "ok" /\ manage'[m].kind = manage[m].kind
                            /\ manage'[m].cfg = manage[m].cfg /\ manage'[m].n = manage[m].n
                            /\ \A k \in Managers \ {m} : manage'[k] = manage[k]
<1>1. manage \in [Managers -> ManageRecords]
  BY TypeParts
<1> QED
  BY <1>1, DoneFields, Zenon DEF Refused, Succeeds

\* What is over stays as it is.
LEMMA EndedStays ==
    ASSUME TypeOK, [Next]_vars
    PROVE  \A k \in Managers : manage[k].at = "ok" => manage'[k] = manage[k]
<1>1. manage \in [Managers -> ManageRecords]
  BY TypeParts
<1>2. CASE UNCHANGED manage
  BY <1>2
<1>3. ASSUME NEW m \in Managers, manage[m].at # "ok",
             \/ Refused(m)
             \/ Succeeds(m)
             \/ Disable(m)
             \/ \E kind, cfg, n : Reads(m, kind, cfg, n)
      PROVE  \A k \in Managers : manage[k].at = "ok" => manage'[k] = manage[k]
  BY <1>1, <1>3, Zenon DEF Refused, Succeeds, Disable, Reads
<1>4. ASSUME NEW m \in Managers,
             \/ SetupReads(m) \/ SetupSaves(m)
             \/ \E n \in Window(now) : EnableReads(m, n) \/ RotateReads(m, n)
             \/ EnableCommits(m) \/ RotateCommits(m) \/ Disable(m)
      PROVE  \A k \in Managers : manage[k].at = "ok" => manage'[k] = manage[k]
  <2>1. manage[m].at # "ok"
    BY <1>4, SMT DEF SetupReads, SetupSaves, EnableReads, RotateReads, EnableCommits,
                     RotateCommits, Disable, Reads
  <2>2. \/ Refused(m) \/ Succeeds(m) \/ Disable(m)
        \/ \E kind, cfg, n : Reads(m, kind, cfg, n)
    BY <1>4, Zenon DEF SetupReads, SetupSaves, EnableReads, RotateReads, EnableCommits,
                       RotateCommits
  <2> QED
    BY <1>3, <2>1, <2>2
<1> QED
  BY <1>2, <1>4, Zenon DEF Next, vars, Tick, LoginReads, LoginAsks, SecondVerifies, SecondConsumes

LEMMA MadeStays ==
    ASSUME TypeOK, [Next]_vars, NEW c
    PROVE  (Made(c) => Made(c)') /\ (Issued(c) => Issued(c)')
<1>1. Made(c) => Made(c)'
  BY EndedStays, SMT DEF Made
<1>2. Issued(c) => Issued(c)'
  BY EndedStays, SMT DEF Issued, Proved
<1> QED
  BY <1>1, <1>2

\* Every request in flight holds a configuration, and codes, that were made: the
\* identifiers that are made later differ from them.
KnownSetting == /\ setting.cfg # NoId => Made(setting.cfg)
                /\ setting.on => setting.cfg # NoId
                /\ setting.on \/ setting.last = -1

KnownSecond(s) == second[s].at \in {"verified", "in"} =>
    /\ second[s].of \in Logins /\ login[second[s].of].at = "asked"
    /\ second[s].code.t = "totp" => /\ Made(second[s].code.of)
                                   /\ second[s].code.of = login[second[s].of].cfg
    /\ second[s].code.t # "totp" => Issued(second[s].code.of)

KnownManage(m) == manage[m].kind \in {"enable", "rotate"} => Made(manage[m].cfg)

KnownCodes == \A c \in codes : c.t = "recovery" /\ Issued(c.of)

Known ==
    /\ KnownSetting
    /\ \A s \in Seconds : KnownSecond(s)
    /\ \A m \in Managers : KnownManage(m)
    /\ KnownCodes

LEMMA GivenAreIssued == \A c \in Given : c.t = "recovery" /\ Issued(c.of)
BY SMT DEF Given, CodeSet, Issued, Proved

LEMMA KnownInit == Init => Known
<1> SUFFICES ASSUME Init PROVE Known
  OBVIOUS
<1>1. KnownSetting
  <2>1. CASE setting = NoSetting
    BY <2>1, SMT DEF NoSetting, KnownSetting
  <2>2. CASE setting = [cfg |-> Original, on |-> FALSE, expires |-> SetupLife, last |-> -1]
    BY <2>2, SMT DEF KnownSetting, Made
  <2>3. CASE setting = [cfg |-> Original, on |-> TRUE, expires |-> 0, last |-> -1]
    BY <2>3, TwoFactorAssumption, SMT DEF KnownSetting, Made
  <2> QED
    BY <2>1, <2>2, <2>3, Zenon DEF Init
<1>2. KnownCodes
  <2>1. codes \subseteq CodeSet(Original)
    BY Zenon DEF Init
  <2> QED
    BY <2>1, SMT DEF KnownCodes, CodeSet, Issued
<1>3. \A s \in Seconds : KnownSecond(s)
  BY SMT DEF Init, KnownSecond, NoSecond
<1>4. \A m \in Managers : KnownManage(m)
  BY SMT DEF Init, KnownManage, NoManage
<1> QED
  BY <1>1, <1>2, <1>3, <1>4 DEF Known

LEMMA KnownStep == TypeOK /\ Known /\ [Next]_vars => Known'
<1> SUFFICES ASSUME TypeOK, Known, [Next]_vars PROVE Known'
  OBVIOUS
<1>t. /\ setting \in Settings
      /\ login \in [Logins -> LoginRecords]
      /\ second \in [Seconds -> SecondRecords]
      /\ manage \in [Managers -> ManageRecords]
  BY TypeParts
<1>m. \A c : (Made(c) => Made(c)') /\ (Issued(c) => Issued(c)')
  BY MadeStays
<1>s. ASSUME UNCHANGED setting PROVE KnownSetting'
  BY <1>s, <1>m DEF Known, KnownSetting
<1>c. ASSUME codes' \subseteq codes PROVE KnownCodes'
  BY <1>c, <1>m DEF Known, KnownCodes
<1>u. ASSUME NEW s \in Seconds, second'[s] = second[s],
             \A l \in Logins : login[l].at = "asked" => login'[l] = login[l]
      PROVE  KnownSecond(s)'
  BY <1>u, <1>m DEF Known, KnownSecond
<1>k. ASSUME NEW m \in Managers, manage'[m] = manage[m] PROVE KnownManage(m)'
  BY <1>k, <1>m DEF Known, KnownManage
<1>1. CASE UNCHANGED vars \/ Tick
  BY <1>1, <1>s, <1>c, <1>u, <1>k, SMT DEF vars, Tick, Known
<1>2. ASSUME NEW l \in Logins, LoginReads(l) \/ LoginAsks(l) PROVE Known'
  <2>1. \A k \in Logins : login[k].at = "asked" => login'[k] = login[k]
    BY <1>2, <1>t, SMT DEF LoginReads, LoginAsks
  <2> QED
    BY <1>2, <2>1, <1>s, <1>c, <1>u, <1>k, SMT DEF LoginReads, LoginAsks, Known
<1>3. ASSUME NEW s \in Seconds, NEW l \in Logins, NEW c, SecondVerifies(s, l, c),
             \/ \E n \in Window(now) : c = Totp(setting.cfg, n)
             \/ c \in Given
      PROVE  Known'
  <2>1. /\ second' = [second EXCEPT ![s] = [at |-> "verified", of |-> l, code |-> c, t |-> now]]
        /\ UNCHANGED <<setting, codes, login, manage>>
        /\ login[l].at = "asked" /\ setting.cfg = login[l].cfg
    BY <1>3 DEF SecondVerifies
  <2>2. setting.cfg # NoId
    BY <1>3 DEF SecondVerifies, Known, KnownSetting
  <2>3. CASE c.t = "totp"
    <3>1. c.of = setting.cfg
      BY <1>3, <2>3, GivenAreIssued, SMT DEF Totp
    <3>2. Made(c.of)'
      BY <3>1, <2>2, <1>m DEF Known, KnownSetting
    <3>3. KnownSecond(s)'
      BY <2>1, <2>3, <3>1, <3>2, <1>t, SMT DEF KnownSecond
    <3> QED
      BY <2>1, <3>3, <1>t, <1>s, <1>c, <1>u, <1>k, SMT DEF Known
  <2>4. CASE c.t # "totp"
    <3>1. Issued(c.of)'
      BY <1>3, <2>4, GivenAreIssued, <1>m, SMT DEF Totp
    <3>2. KnownSecond(s)'
      BY <2>1, <2>4, <3>1, <1>t, SMT DEF KnownSecond
    <3> QED
      BY <2>1, <3>2, <1>t, <1>s, <1>c, <1>u, <1>k, SMT DEF Known
  <2> QED
    BY <2>3, <2>4
<1>4. ASSUME NEW s \in Seconds, SecondConsumes(s) PROVE Known'
  <2>1. UNCHANGED <<login, manage>>
    BY <1>4 DEF SecondConsumes
  <2>2. codes' \subseteq codes
    BY <1>4, Zenon DEF SecondConsumes
  <2>3. KnownSetting'
    <3>1. CASE UNCHANGED setting
      BY <3>1, <1>s
    <3>2. CASE setting' = [setting EXCEPT !.last = second[s].code.n] /\ setting.on
      BY <3>2, <1>t, <1>m, SMT DEF Known, KnownSetting, Settings
    <3> QED
      BY <1>4, <3>1, <3>2, Zenon DEF SecondConsumes, Current
  <2>4. /\ second[s].at = "verified"
        /\ second' = [second EXCEPT ![s] = Done(@, "in")] \/ second' = [second EXCEPT ![s] = NoSecond("refused")]
    BY <1>4, Zenon DEF SecondConsumes
  <2>5. KnownSecond(s)'
    BY <2>1, <2>4, <1>t, <1>m, DoneFields, SMT DEF Known, KnownSecond, NoSecond
  <2>6. \A u \in Seconds \ {s} : second'[u] = second[u]
    BY <2>4, <1>t
  <2> QED
    BY <2>1, <2>2, <2>3, <2>5, <2>6, <1>c, <1>u, <1>k DEF Known
<1>5. ASSUME NEW m \in Managers, KnownSetting', KnownCodes', KnownManage(m)',
             UNCHANGED <<login, second>>, \A k \in Managers \ {m} : manage'[k] = manage[k]
      PROVE  Known'
  BY <1>5, <1>u, <1>k DEF Known
<1>6. ASSUME NEW m \in Managers, NEW kind, NEW n, Reads(m, kind, setting.cfg, n),
             kind \in {"enable", "rotate"} => setting.cfg # NoId
      PROVE  Known'
  <2>1. KnownManage(m)'
    BY <1>6, <1>t, <1>m, SMT DEF Reads, KnownManage, Known, KnownSetting
  <2> QED
    BY <1>6, <2>1, <1>5, <1>s, <1>c, <1>t DEF Reads
<1>7. ASSUME NEW m \in Managers, Refused(m) PROVE Known'
  <2>1. KnownManage(m)'
    BY <1>7, <1>t, SMT DEF Refused, KnownManage, NoManage
  <2> QED
    BY <1>7, <2>1, <1>5, <1>s, <1>c, <1>t DEF Refused
<1>8. ASSUME NEW m \in Managers, Succeeds(m), KnownSetting', KnownCodes' PROVE Known'
  <2>1. KnownManage(m)'
    BY <1>8, ManageSteps, <1>m DEF KnownManage, Known
  <2> QED
    BY <1>8, <2>1, <1>5, ManageSteps DEF Succeeds
<1>9. ASSUME NEW m \in Managers, SetupSaves(m) PROVE Known'
  <2>1. CASE Refused(m)
    BY <2>1, <1>7
  <2>2. CASE ~Refused(m)
    <3>1. /\ setting' = [cfg |-> m, on |-> FALSE, last |-> -1, expires |-> manage[m].t + SetupLife]
          /\ UNCHANGED codes /\ Succeeds(m) /\ manage[m].kind = "setup"
      BY <1>9, <2>2 DEF SetupSaves
    <3>2. Made(m)'
      BY <3>1, ManageSteps DEF Made
    <3>3. KnownSetting'
      BY <3>1, <3>2, SMT DEF KnownSetting
    <3> QED
      BY <3>1, <3>3, <1>c, <1>8
  <2> QED
    BY <2>1, <2>2
<1>10. ASSUME NEW m \in Managers, Succeeds(m), manage[m].kind \in {"enable", "rotate"},
              codes' = NewCodes(m)
       PROVE  KnownCodes'
  <2>1. Issued(m)'
    BY <1>10, ManageSteps DEF Issued, Proved
  <2> QED
    BY <1>10, <2>1, SMT DEF KnownCodes, NewCodes, CodeSet
<1>11. ASSUME NEW m \in Managers, EnableCommits(m) PROVE Known'
  <2>1. CASE Refused(m)
    BY <2>1, <1>7
  <2>2. CASE ~Refused(m)
    <3>1. /\ setting' = [cfg |-> manage[m].cfg, on |-> TRUE, expires |-> 0, last |-> manage[m].n]
          /\ codes' = NewCodes(m) /\ Succeeds(m) /\ manage[m].kind = "enable"
      BY <1>11, <2>2 DEF EnableCommits, Pending
    <3>2. Made(manage[m].cfg)
      BY <3>1 DEF Known, KnownManage
    <3>3. KnownSetting'
      BY <3>1, <3>2, <1>m, TwoFactorAssumption, SMT DEF KnownSetting, Made
    <3> QED
      BY <3>1, <3>3, <1>10, <1>8
  <2> QED
    BY <2>1, <2>2
<1>12. ASSUME NEW m \in Managers, RotateCommits(m) PROVE Known'
  <2>1. CASE Refused(m)
    BY <2>1, <1>7
  <2>2. CASE ~Refused(m)
    <3>1. /\ setting' = [setting EXCEPT !.last = manage[m].n] /\ setting.on
          /\ codes' = NewCodes(m) /\ Succeeds(m) /\ manage[m].kind = "rotate"
      BY <1>12, <2>2 DEF RotateCommits, Current
    <3>2. KnownSetting'
      BY <3>1, <1>t, <1>m, SMT DEF KnownSetting, Known, Settings
    <3> QED
      BY <3>1, <3>2, <1>10, <1>8
  <2> QED
    BY <2>1, <2>2
<1>13. ASSUME NEW m \in Managers, Disable(m) PROVE Known'
  <2>1. KnownManage(m)'
    BY <1>13, <1>t, SMT DEF Disable, KnownManage, NoManage
  <2>2. KnownSetting'
    BY <1>13, SMT DEF Disable, NoSetting, KnownSetting
  <2> QED
    BY <1>13, <2>1, <2>2, <1>5, <1>c, <1>t DEF Disable
<1>14. ASSUME NEW m \in Managers,
              SetupReads(m) \/ \E n \in Window(now) : EnableReads(m, n) \/ RotateReads(m, n)
       PROVE  Known'
  BY <1>6, <1>14, SMT DEF SetupReads, EnableReads, RotateReads, Known, KnownSetting
<1> QED
  BY <1>1, <1>2, <1>3, <1>4, <1>9, <1>11, <1>12, <1>13, <1>14 DEF Next

-----------------------------------------------------------------------------
(* The codes that were accepted *)

\* Counters that were accepted for this configuration are not above last.
Bounded ==
    /\ \A s \in Seconds : LoggedIn(s) /\ second[s].code.t = "totp"
                          /\ second[s].code.of = setting.cfg => second[s].code.n <= setting.last
    /\ \A m \in Managers : Proved(m) /\ manage[m].cfg = setting.cfg => manage[m].n <= setting.last

\* A recovery code that was accepted is not in the table again.
Used == \A s \in Seconds : LoggedIn(s) => second[s].code \notin codes

Ledger == Bounded /\ Used /\ CodeOnce /\ CodesAreCurrent /\ EnabledIsProved

\* The same requests were accepted, with the same codes.
SameSeconds ==
    \A s \in Seconds : /\ LoggedIn(s)' <=> LoggedIn(s)
                       /\ LoggedIn(s) => second'[s] = second[s]

SameManagers(M) ==
    \A m \in M : /\ Proved(m)' <=> Proved(m)
                 /\ Proved(m) => manage'[m] = manage[m]

\* Nothing is accepted.
Quiet == SameSeconds /\ SameManagers(Managers) /\ UNCHANGED <<setting, codes>>

\* A second factor is accepted.
Consumed(s) ==
    /\ second[s].at = "verified" /\ LoggedIn(s)' /\ second'[s].code = second[s].code
    /\ second[s].of = second'[s].of
    /\ \A u \in Seconds \ {s} : second'[u] = second[u]
    /\ UNCHANGED manage
    /\ Current(login[second[s].of].cfg) /\ Unused(second[s].code)
    /\ IF second[s].code.t = "totp"
       THEN setting' = [setting EXCEPT !.last = second[s].code.n] /\ UNCHANGED codes
       ELSE codes' = codes \ {second[s].code} /\ UNCHANGED setting

\* A request of managers succeeds.
Changed(m) ==
    /\ UNCHANGED second /\ manage[m].at = "read" /\ manage'[m].at = "ok"
    /\ \A k \in Managers \ {m} : manage'[k] = manage[k]
    /\ manage'[m].kind = manage[m].kind /\ manage'[m].cfg = manage[m].cfg /\ manage'[m].n = manage[m].n

Saved(m) == /\ Changed(m) /\ manage[m].kind = "setup" /\ UNCHANGED codes /\ ~setting.on
            /\ setting'.cfg = m /\ ~setting'.on /\ setting'.last = -1

Enabled(m) == /\ Changed(m) /\ manage[m].kind = "enable" /\ codes' = CodeSet(m) /\ ~setting.on
              /\ setting.cfg = manage[m].cfg
              /\ setting' = [cfg |-> manage[m].cfg, on |-> TRUE, expires |-> 0, last |-> manage[m].n]

Rotated(m) == /\ Changed(m) /\ manage[m].kind = "rotate" /\ codes' = CodeSet(m)
              /\ Current(manage[m].cfg) /\ setting.last < manage[m].n
              /\ setting' = [setting EXCEPT !.last = manage[m].n]

Disabled(m) == /\ SameSeconds /\ SameManagers(Managers) /\ codes' = {} /\ setting' = NoSetting

\* Every step is one of these.
LEMMA StepKinds ==
    ASSUME TypeOK, [Next]_vars
    PROVE  \/ Quiet
           \/ \E s \in Seconds : Consumed(s)
           \/ \E m \in Managers : Saved(m) \/ Enabled(m) \/ Rotated(m) \/ Disabled(m)
<1>t. /\ setting \in Settings
      /\ second \in [Seconds -> SecondRecords]
      /\ manage \in [Managers -> ManageRecords]
  BY TypeParts
<1>a. UNCHANGED second => SameSeconds
  BY DEF SameSeconds, LoggedIn
<1>b. UNCHANGED manage => SameManagers(Managers)
  BY DEF SameManagers, Proved
<1>1. UNCHANGED <<setting, codes, second, manage>> => Quiet
  BY <1>a, <1>b DEF Quiet
<1>2. ASSUME NEW s \in Seconds, NEW l \in Logins, NEW c, SecondVerifies(s, l, c) PROVE Quiet
  <2>1. SameSeconds
    BY <1>2, <1>t, SMT DEF SecondVerifies, SameSeconds, LoggedIn
  <2> QED
    BY <1>2, <2>1, <1>b DEF SecondVerifies, Quiet
<1>3. ASSUME NEW s \in Seconds, SecondConsumes(s) PROVE Quiet \/ Consumed(s)
  <2>1. CASE second' = [second EXCEPT ![s] = NoSecond("refused")] /\ UNCHANGED <<row, setting, codes>>
    <3>1. SameSeconds
      BY <1>3, <2>1, <1>t, SMT DEF SecondConsumes, SameSeconds, LoggedIn, NoSecond
    <3> QED
      BY <1>3, <2>1, <3>1, <1>b DEF SecondConsumes, Quiet
  <2>2. CASE ~(second' = [second EXCEPT ![s] = NoSecond("refused")] /\ UNCHANGED <<row, setting, codes>>)
    <3>1. /\ second[s].at = "verified" /\ second' = [second EXCEPT ![s] = Done(@, "in")]
          /\ UNCHANGED manage
          /\ Current(login[second[s].of].cfg) /\ Unused(second[s].code)
          /\ IF second[s].code.t = "totp"
             THEN setting' = [setting EXCEPT !.last = second[s].code.n] /\ UNCHANGED codes
             ELSE codes' = codes \ {second[s].code} /\ UNCHANGED setting
      BY <1>3, <2>2, Zenon DEF SecondConsumes
    <3>2. /\ LoggedIn(s)' /\ second'[s].code = second[s].code /\ second'[s].of = second[s].of
          /\ \A u \in Seconds \ {s} : second'[u] = second[u]
      BY <3>1, <1>t, DoneFields, Zenon DEF LoggedIn
    <3> QED
      BY <3>1, <3>2 DEF Consumed
  <2> QED
    BY <2>1, <2>2
<1>4. ASSUME NEW m \in Managers, NEW kind, NEW cfg, NEW n, Reads(m, kind, cfg, n) PROVE Quiet
  <2>1. SameManagers(Managers)
    BY <1>4, <1>t, SMT DEF Reads, SameManagers, Proved
  <2> QED
    BY <1>4, <2>1, <1>a DEF Reads, Quiet
<1>5. ASSUME NEW m \in Managers, manage[m].at = "read", Refused(m) PROVE Quiet
  <2>1. SameManagers(Managers)
    BY <1>5, <1>t, SMT DEF Refused, SameManagers, Proved, NoManage
  <2> QED
    BY <1>5, <2>1, <1>a DEF Refused, Quiet
<1>6. ASSUME NEW m \in Managers, manage[m].at = "read", Succeeds(m) PROVE Changed(m)
  BY <1>6, ManageSteps DEF Succeeds, Changed
<1>7. ASSUME NEW m \in Managers, SetupSaves(m) PROVE Quiet \/ Saved(m)
  <2>1. CASE Refused(m)
    BY <1>7, <2>1, <1>5 DEF SetupSaves
  <2>2. CASE ~Refused(m)
    <3>1. /\ setting' = [cfg |-> m, on |-> FALSE, last |-> -1, expires |-> manage[m].t + SetupLife]
          /\ UNCHANGED codes /\ Succeeds(m) /\ manage[m].kind = "setup" /\ manage[m].at = "read"
          /\ ~setting.on
      BY <1>7, <2>2 DEF SetupSaves, Unchanged
    <3>2. setting'.cfg = m /\ ~setting'.on /\ setting'.last = -1
      BY <3>1
    <3> QED
      BY <3>1, <3>2, <1>6 DEF Saved
  <2> QED
    BY <2>1, <2>2
<1>8. ASSUME NEW m \in Managers, EnableCommits(m) PROVE Quiet \/ Enabled(m)
  <2>1. CASE Refused(m)
    BY <1>8, <2>1, <1>5 DEF EnableCommits
  <2>2. CASE ~Refused(m)
    BY <1>8, <2>2, <1>6 DEF EnableCommits, Enabled, NewCodes, Pending
  <2> QED
    BY <2>1, <2>2
<1>9. ASSUME NEW m \in Managers, RotateCommits(m) PROVE Quiet \/ Rotated(m)
  <2>1. CASE Refused(m)
    BY <1>9, <2>1, <1>5 DEF RotateCommits
  <2>2. CASE ~Refused(m)
    <3>1. setting.last < manage[m].n
      BY <1>9, <2>2, SMT DEF RotateCommits, Unused, Totp
    <3> QED
      BY <1>9, <2>2, <3>1, <1>6 DEF RotateCommits, Rotated, NewCodes
  <2> QED
    BY <2>1, <2>2
<1>10. ASSUME NEW m \in Managers, Disable(m) PROVE Disabled(m)
  <2>1. SameManagers(Managers)
    BY <1>10, <1>t, SMT DEF Disable, SameManagers, Proved, NoManage
  <2> QED
    BY <1>10, <2>1, <1>a DEF Disable, Disabled
<1>11. ASSUME NEW m \in Managers,
              SetupReads(m) \/ \E n \in Window(now) : EnableReads(m, n) \/ RotateReads(m, n)
       PROVE  Quiet
  BY <1>4, <1>11, Zenon DEF SetupReads, EnableReads, RotateReads
<1>12. ASSUME \/ UNCHANGED vars \/ Tick \/ \E l \in Logins : LoginReads(l) \/ LoginAsks(l)
       PROVE  Quiet
  <2>1. ASSUME NEW l \in Logins, LoginReads(l) \/ LoginAsks(l) PROVE Quiet
    BY <1>1, <2>1 DEF LoginReads, LoginAsks
  <2>2. CASE UNCHANGED vars \/ Tick
    BY <1>1, <2>2 DEF vars, Tick
  <2> QED
    BY <1>12, <2>1, <2>2
<1> QED
  BY <1>2, <1>3, <1>7, <1>8, <1>9, <1>10, <1>11, <1>12, Zenon DEF Next

LEMMA LedgerInit == Init => Ledger
<1> SUFFICES ASSUME Init PROVE Ledger
  OBVIOUS
<1>1. /\ \A s \in Seconds : ~LoggedIn(s)
      /\ \A m \in Managers : ~Proved(m)
  BY SMT DEF Init, NoSecond, NoManage, LoggedIn, Proved
<1>2. /\ codes = {} \/ (setting.on /\ codes = CodeSet(Original))
      /\ setting.on => setting.cfg = Original
  <2>1. CASE setting = NoSetting /\ codes = {}
    BY <2>1, SMT DEF NoSetting
  <2>2. CASE setting = [cfg |-> Original, on |-> FALSE, expires |-> SetupLife, last |-> -1] /\ codes = {}
    BY <2>2
  <2>3. CASE /\ setting = [cfg |-> Original, on |-> TRUE, expires |-> 0, last |-> -1]
             /\ codes = CodeSet(Original)
    BY <2>3
  <2> QED
    BY <2>1, <2>2, <2>3, Zenon DEF Init
<1>3. CodesAreCurrent
  <2>1. CASE codes = {}
    BY <2>1 DEF CodesAreCurrent
  <2>2. CASE setting.on /\ codes = CodeSet(Original)
    <3>1. \A c \in codes : c.of = Original
      BY <2>2, SMT DEF CodeSet
    <3> QED
      BY <1>2, <2>2, <3>1, Zenon DEF CodesAreCurrent
  <2> QED
    BY <1>2, <2>1, <2>2
<1> QED
  BY <1>1, <1>2, <1>3 DEF Ledger, Bounded, Used, CodeOnce, EnabledIsProved

\* Codes of a configuration or set that is not there yet are in nobody's hands.
LEMMA NotYet ==
    ASSUME TypeOK, Known, NEW m, m = NoId \/ (m \in Managers /\ manage[m].at # "ok")
    PROVE  /\ \A s \in Seconds : LoggedIn(s) => second[s].code.of # m
           /\ \A k \in Managers : Proved(k) => manage[k].cfg # m
<1>1. ~Made(m) /\ ~Issued(m)
  BY TwoFactorAssumption DEF Made, Issued, Proved
<1>2. ASSUME NEW s \in Seconds, LoggedIn(s) PROVE second[s].code.of # m
  BY <1>1, <1>2 DEF Known, KnownSecond, LoggedIn
<1>3. ASSUME NEW k \in Managers, Proved(k) PROVE manage[k].cfg # m
  BY <1>1, <1>3 DEF Known, KnownManage, Proved
<1> QED
  BY <1>2, <1>3

LEMMA LedgerStep == TypeOK /\ Known /\ Ledger /\ [Next]_vars => Ledger'
<1> SUFFICES ASSUME TypeOK, Known, Ledger, [Next]_vars PROVE Ledger'
  OBVIOUS
<1>t. /\ setting \in Settings
      /\ second \in [Seconds -> SecondRecords]
      /\ manage \in [Managers -> ManageRecords]
      /\ \A s \in Seconds : second[s].code \in CodeTypes /\ second[s].code.n \in Nat
      /\ \A m \in Managers : manage[m].n \in Nat
      /\ setting.last \in Int
  BY TypeParts, SMT DEF Settings, SecondRecords, ManageRecords, CodeTypes
<1>1. ASSUME SameSeconds, SameManagers(Managers), codes' \subseteq codes PROVE Used' /\ CodeOnce'
  <2>1. Used'
    BY <1>1 DEF Used, SameSeconds, Ledger, LoggedIn
  <2>2. CodeOnce'
    BY <1>1 DEF CodeOnce, SameSeconds, SameManagers, Ledger, LoggedIn, Proved, Proof, Totp
  <2> QED
    BY <2>1, <2>2
<1>2. CASE Quiet
  <2>1. Bounded'
    BY <1>2 DEF Quiet, Bounded, SameSeconds, SameManagers, Ledger, LoggedIn, Proved
  <2>2. CodesAreCurrent'
    <3>1. \A c \in codes : c.of # Original => c.of \in Managers
      BY DEF Known, KnownCodes, Issued
    <3> QED
      BY <1>2, <3>1, Zenon DEF Quiet, CodesAreCurrent, SameManagers, Ledger
  <2>3. EnabledIsProved'
    BY <1>2, Zenon DEF Quiet, EnabledIsProved, SameManagers, Ledger
  <2> QED
    BY <1>1, <1>2, <2>1, <2>2, <2>3 DEF Quiet, Ledger
<1>3. ASSUME NEW m \in Managers, Disabled(m) PROVE Ledger'
  <2>1. setting'.cfg = NoId /\ ~setting'.on
    BY <1>3, SMT DEF Disabled, NoSetting
  <2>2. Bounded'
    BY <1>3, <2>1, NotYet DEF Disabled, Bounded, SameSeconds, SameManagers, LoggedIn, Proved
  <2> QED
    BY <1>1, <1>3, <2>1, <2>2 DEF Disabled, Ledger, CodesAreCurrent, EnabledIsProved
<1>4. ASSUME NEW m \in Managers, Changed(m), manage[m].kind = "setup" PROVE SameManagers(Managers)
  BY <1>4, SMT DEF Changed, SameManagers, Proved
<1>5. UNCHANGED second => SameSeconds
  BY DEF SameSeconds, LoggedIn
<1>6. ASSUME NEW m \in Managers, Saved(m) PROVE Ledger'
  <2>1. Changed(m) /\ SameSeconds /\ SameManagers(Managers)
    BY <1>4, <1>5, <1>6 DEF Saved, Changed
  <2>2. Bounded'
    BY <1>6, <2>1, NotYet DEF Saved, Changed, Bounded, SameSeconds, SameManagers, LoggedIn, Proved
  <2>3. codes = {}
    BY <1>6, Zenon DEF Saved, Ledger, CodesAreCurrent
  <2>4. CodesAreCurrent' /\ EnabledIsProved'
    BY <1>6, <2>3 DEF Saved, CodesAreCurrent, EnabledIsProved
  <2> QED
    BY <1>1, <1>6, <2>1, <2>2, <2>4 DEF Saved, Ledger
<1>7. ASSUME NEW m \in Managers, Changed(m), manage[m].kind \in {"enable", "rotate"}
      PROVE  /\ Proved(m)' /\ ~Proved(m) /\ Proof(m)' = Proof(m)
             /\ SameManagers(Managers \ {m})
             /\ SameSeconds
  BY <1>5, <1>7, SMT DEF Changed, SameManagers, Proved, Proof, Totp
<1>8. ASSUME NEW m \in Managers, Changed(m), manage[m].kind \in {"enable", "rotate"},
             manage[m].cfg = setting.cfg, setting.last < manage[m].n
      PROVE  CodeOnce'
  <2>1. \A s \in Seconds : LoggedIn(s) => second[s].code # Proof(m)
    BY <1>t, <1>8, SMT DEF Ledger, Bounded, Proof, Totp
  <2>2. \A k \in Managers : Proved(k) => Proof(k) # Proof(m)
    BY <1>t, <1>8, SMT DEF Ledger, Bounded, Proof, Totp
  <2>5. \A k \in Managers \ {m} : (Proved(k)' <=> Proved(k)) /\ (Proved(k) => Proof(k)' = Proof(k))
    BY <1>7, <1>8, Zenon DEF SameManagers, Proof
  <2>6. \A s \in Seconds : (LoggedIn(s)' <=> LoggedIn(s)) /\ (LoggedIn(s) => second'[s].code = second[s].code)
    BY <1>7, <1>8, Zenon DEF SameSeconds
  <2>3. /\ \A s, u \in Seconds : LoggedIn(s)' /\ LoggedIn(u)' /\ second'[s].code = second'[u].code => s = u
        /\ \A s \in Seconds, k \in Managers \ {m} : LoggedIn(s)' /\ Proved(k)' => second'[s].code # Proof(k)'
        /\ \A j, k \in Managers \ {m} : Proved(j)' /\ Proved(k)' /\ Proof(j)' = Proof(k)' => j = k
    BY <2>5, <2>6, SMT DEF Ledger, CodeOnce
  <2>4. /\ \A s \in Seconds : LoggedIn(s)' => second'[s].code # Proof(m)'
        /\ \A k \in Managers \ {m} : Proved(k)' => Proof(k)' # Proof(m)'
    BY <1>7, <1>8, <2>1, <2>2 DEF SameSeconds, SameManagers, Proof, Totp
  <2> QED
    BY <2>3, <2>4 DEF CodeOnce
<1>9. ASSUME NEW m \in Managers, Changed(m), manage[m].kind \in {"enable", "rotate"},
             manage[m].cfg = setting.cfg, setting.last < manage[m].n,
             setting'.cfg = setting.cfg, setting'.last = manage[m].n
      PROVE  Bounded'
  <2>1. \A s \in Seconds : LoggedIn(s)' /\ second'[s].code.t = "totp"
              /\ second'[s].code.of = setting'.cfg => second'[s].code.n <= setting'.last
    <3> SUFFICES ASSUME NEW s \in Seconds, LoggedIn(s)', second'[s].code.t = "totp",
                        second'[s].code.of = setting'.cfg
                 PROVE  second'[s].code.n <= setting'.last
      OBVIOUS
    <3>1. LoggedIn(s) /\ second'[s] = second[s]
      BY <1>7, <1>9, Zenon DEF SameSeconds
    <3>2. second[s].code.n <= setting.last
      BY <1>9, <3>1 DEF Ledger, Bounded
    <3> QED
      BY <1>9, <1>t, <3>1, <3>2, SMT
  <2>2. \A k \in Managers \ {m} : Proved(k)' /\ manage'[k].cfg = setting'.cfg
              => manage'[k].n <= setting'.last
    BY <1>7, <1>9, <1>t, SMT DEF Ledger, Bounded, SameManagers
  <2>3. manage'[m].n <= setting'.last
    BY <1>9, <1>t, SMT DEF Changed
  <2> QED
    BY <2>1, <2>2, <2>3 DEF Bounded
<1>10. ASSUME NEW m \in Managers, Changed(m), manage[m].kind \in {"enable", "rotate"},
              codes' = CodeSet(m)
       PROVE  Used'
  <2>1. \A s \in Seconds : LoggedIn(s) => second[s].code.of # m
    BY <1>10, NotYet DEF Changed
  <2> QED
    <3>1. \A c \in codes' : c.of = m
      BY <1>10, SMT DEF CodeSet
    <3>2. \A s \in Seconds : LoggedIn(s)' => LoggedIn(s) /\ second'[s] = second[s]
      BY <1>7, <1>10, Zenon DEF SameSeconds
    <3> QED
      BY <2>1, <3>1, <3>2, Zenon DEF Used
<1>11. ASSUME NEW m \in Managers, Changed(m), manage[m].kind \in {"enable", "rotate"},
              codes' = CodeSet(m), setting'.on, setting'.cfg = manage[m].cfg
       PROVE  CodesAreCurrent'
  <2>1. \A c \in codes' : c.of = m
    BY <1>11, SMT DEF CodeSet
  <2>2. m # Original /\ Proved(m)' /\ manage'[m].cfg = setting'.cfg
    BY <1>7, <1>11, TwoFactorAssumption DEF Changed
  <2> QED
    BY <1>11, <2>1, <2>2, Zenon DEF CodesAreCurrent
<1>12. ASSUME NEW m \in Managers, Enabled(m) PROVE Ledger'
  <2>1. /\ Changed(m) /\ manage[m].kind = "enable" /\ codes' = CodeSet(m)
        /\ manage[m].cfg = setting.cfg /\ ~setting.on
    BY <1>12 DEF Enabled
  <2>2. setting'.on /\ setting'.cfg = setting.cfg /\ setting'.last = manage[m].n
    BY <1>12 DEF Enabled
  <2>3. setting.last < manage[m].n
    BY <2>1, <1>t, SMT DEF Known, KnownSetting
  <2>4. EnabledIsProved'
    BY <1>7, <2>1, <2>2 DEF EnabledIsProved, Changed
  <2> QED
    BY <2>1, <2>2, <2>3, <2>4, <1>8, <1>9, <1>10, <1>11 DEF Ledger
<1>13. ASSUME NEW m \in Managers, Rotated(m) PROVE Ledger'
  <2>1. /\ Changed(m) /\ manage[m].kind = "rotate" /\ codes' = CodeSet(m)
        /\ manage[m].cfg = setting.cfg /\ setting.on /\ setting.last < manage[m].n
    BY <1>13 DEF Rotated, Current
  <2>2. setting'.on /\ setting'.cfg = setting.cfg /\ setting'.last = manage[m].n
    BY <1>13, <2>1, <1>t DEF Rotated, Settings
  <2>3. EnabledIsProved'
    <3>1. CASE setting.cfg = Original
      BY <2>2, <3>1 DEF EnabledIsProved
    <3>2. ASSUME NEW k \in Managers, Proved(k), manage[k].kind = "enable", manage[k].cfg = setting.cfg
          PROVE  EnabledIsProved'
      <4>1. Proved(k)' /\ manage'[k] = manage[k]
        BY <3>2, <2>1, EndedStays DEF Proved
      <4> QED
        BY <3>2, <4>1, <2>2 DEF EnabledIsProved
    <3> QED
      BY <2>1, <3>1, <3>2 DEF Ledger, EnabledIsProved
  <2> QED
    BY <2>1, <2>2, <2>3, <1>8, <1>9, <1>10, <1>11 DEF Ledger
<1>14. ASSUME NEW s \in Seconds, Consumed(s) PROVE Ledger'
  <2>1. /\ SameManagers(Managers) /\ LoggedIn(s)' /\ ~LoggedIn(s) /\ second'[s].code = second[s].code
        /\ \A u \in Seconds \ {s} : second'[u] = second[u] /\ (LoggedIn(u)' <=> LoggedIn(u))
        /\ \A m \in Managers : (Proved(m)' <=> Proved(m)) /\ Proof(m)' = Proof(m)
    BY <1>14, SMT DEF Consumed, SameManagers, Proved, Proof, LoggedIn, Totp
  <2>2. codes' \subseteq codes /\ setting'.cfg = setting.cfg /\ (setting.on => setting'.on) /\ setting.on
    BY <1>14, <1>t DEF Consumed, Settings, Current
  <2>3. CodesAreCurrent'
    BY <1>14, <2>1, <2>2 DEF Ledger, CodesAreCurrent, Consumed, Proved
  <2>4. EnabledIsProved'
    BY <1>14, <2>1, <2>2 DEF Ledger, EnabledIsProved, Consumed, Proved
  <2>5. CASE second[s].code.t = "totp"
    <3>1. /\ second[s].code.of = setting.cfg /\ setting.last < second[s].code.n
          /\ UNCHANGED codes /\ setting'.last = second[s].code.n
      BY <1>14, <2>5, <1>t DEF Consumed, Current, Unused, Known, KnownSecond, Settings
    <3>2. Bounded'
      <4>1. \A u \in Seconds \ {s} : LoggedIn(u)' /\ second'[u].code.t = "totp"
                  /\ second'[u].code.of = setting'.cfg => second'[u].code.n <= setting'.last
        BY <2>1, <2>2, <3>1, <1>t, SMT DEF Ledger, Bounded
      <4>2. \A m \in Managers : Proved(m)' /\ manage'[m].cfg = setting'.cfg
                  => manage'[m].n <= setting'.last
        BY <2>1, <2>2, <3>1, <1>14, <1>t, SMT DEF Ledger, Bounded, Consumed
      <4>3. second'[s].code.n <= setting'.last
        BY <2>1, <3>1, <1>t, SMT
      <4> QED
        BY <4>1, <4>2, <4>3 DEF Bounded
    <3>3. second[s].code \notin codes
      BY <2>5, SMT DEF Known, KnownCodes
    <3>4. Used'
      BY <2>1, <3>1, <3>3 DEF Ledger, Used
    <3>5. /\ \A u \in Seconds : LoggedIn(u) => second[u].code # second[s].code
          /\ \A m \in Managers : Proved(m) => Proof(m) # second[s].code
      BY <2>5, <3>1, <1>t, SMT DEF Ledger, Bounded, Proof, Totp
    <3>6. CodeOnce'
      BY <2>1, <3>5 DEF Ledger, CodeOnce
    <3> QED
      BY <2>3, <2>4, <3>2, <3>4, <3>6 DEF Ledger
  <2>6. CASE second[s].code.t # "totp"
    <3>1. UNCHANGED setting /\ second[s].code \in codes /\ codes' = codes \ {second[s].code}
      BY <1>14, <2>6 DEF Consumed, Unused
    <3>2. Bounded'
      BY <1>14, <2>1, <2>6, <3>1 DEF Ledger, Bounded, Consumed
    <3>3. Used'
      BY <2>1, <3>1 DEF Ledger, Used
    <3>4. /\ \A u \in Seconds : LoggedIn(u) => second[u].code # second[s].code
          /\ \A m \in Managers : Proof(m) # second[s].code
      BY <2>6, <3>1, SMT DEF Ledger, Used, Proof, Totp
    <3>5. CodeOnce'
      BY <2>1, <3>4 DEF Ledger, CodeOnce
    <3> QED
      BY <2>3, <2>4, <3>2, <3>3, <3>5 DEF Ledger
  <2> QED
    BY <2>5, <2>6
<1> QED
  BY <1>2, <1>3, <1>6, <1>12, <1>13, <1>14, StepKinds

-----------------------------------------------------------------------------
(* Challenges *)

\* A challenge of a session was consumed: it can never be open again.
Consumable == \A s \in Seconds : LoggedIn(s) => row[second[s].of] # "open"

\* An open challenge belongs to a login that asked for it.
OpenIsAsked == \A l \in Logins : row[l] = "open" => login[l].at = "asked"

Challenges == OneSessionPerChallenge /\ Consumable /\ OpenIsAsked /\ OneOpenChallenge

LEMMA ChallengesInit == Init => Challenges
BY SMT DEF Init, Challenges, OneSessionPerChallenge, Consumable, OpenIsAsked, OneOpenChallenge,
           LoggedIn, NoSecond

LEMMA ChallengesStep == TypeOK /\ Known /\ Challenges /\ [Next]_vars => Challenges'
<1> SUFFICES ASSUME TypeOK, Known, Challenges, [Next]_vars PROVE Challenges'
  OBVIOUS
<1>t. /\ login \in [Logins -> LoginRecords]
      /\ row \in [Logins -> {"none", "open", "spent"}]
      /\ second \in [Seconds -> SecondRecords]
  BY TypeParts
<1>1. ASSUME UNCHANGED <<row, login>>, SameSeconds PROVE Challenges'
  BY <1>1 DEF Challenges, OneSessionPerChallenge, Consumable, OpenIsAsked, OneOpenChallenge, SameSeconds
<1>2. UNCHANGED second => SameSeconds
  BY DEF SameSeconds, LoggedIn
<1>3. ASSUME NEW l \in Logins, LoginReads(l) PROVE Challenges'
  <2>1. OpenIsAsked'
    BY <1>3, <1>t, SMT DEF LoginReads, Challenges, OpenIsAsked
  <2> QED
    BY <1>3, <2>1, <1>2 DEF LoginReads, Challenges, OneSessionPerChallenge, Consumable,
                            OneOpenChallenge, SameSeconds
<1>4. ASSUME NEW l \in Logins, LoginAsks(l) PROVE Challenges'
  <2>1. /\ login[l].at = "read" /\ UNCHANGED second
        /\ row[l] # "open"
    BY <1>4, <1>t DEF LoginAsks, Challenges, OpenIsAsked
  <2>2. \A s \in Seconds : LoggedIn(s) => second[s].of \in Logins /\ second[s].of # l
    BY <2>1 DEF Known, KnownSecond, LoggedIn
  <2>3. CASE login' = [login EXCEPT ![l].at = "asked"] /\ row' = RowsWith(l)
    <3>1. /\ row'[l] = "open"
          /\ \A k \in Logins \ {l} : row'[k] # "open" /\ row'[k] \in {"none", "spent"}
      BY <2>3, <1>t, SMT DEF RowsWith
    <3>2. Consumable'
      BY <2>1, <2>2, <3>1 DEF Consumable, LoggedIn
    <3>3. OpenIsAsked' /\ OneOpenChallenge'
      BY <2>3, <3>1, <1>t DEF OpenIsAsked, OneOpenChallenge
    <3> QED
      BY <2>1, <3>2, <3>3 DEF Challenges, OneSessionPerChallenge, LoggedIn
  <2>4. CASE login' = [login EXCEPT ![l] = NoAsk("failed")] /\ UNCHANGED row
    <3>1. OpenIsAsked'
      BY <2>1, <2>4, <1>t, SMT DEF Challenges, OpenIsAsked
    <3> QED
      BY <2>1, <2>4, <3>1 DEF Challenges, OneSessionPerChallenge, Consumable, OneOpenChallenge, LoggedIn
  <2> QED
    BY <1>4, <2>3, <2>4 DEF LoginAsks
<1>5. ASSUME NEW s \in Seconds, NEW l \in Logins, NEW c, SecondVerifies(s, l, c) PROVE Challenges'
  <2>1. SameSeconds
    BY <1>5, <1>t, SMT DEF SecondVerifies, SameSeconds, LoggedIn
  <2> QED
    BY <1>5, <2>1, <1>1 DEF SecondVerifies
<1>6. ASSUME NEW s \in Seconds, SecondConsumes(s) PROVE Challenges'
  <2>1. CASE second' = [second EXCEPT ![s] = NoSecond("refused")] /\ UNCHANGED row
    <3>1. SameSeconds
      BY <1>6, <2>1, <1>t, SMT DEF SecondConsumes, SameSeconds, LoggedIn, NoSecond
    <3> QED
      BY <1>6, <2>1, <3>1, <1>1 DEF SecondConsumes
  <2>2. CASE ~(second' = [second EXCEPT ![s] = NoSecond("refused")] /\ UNCHANGED row)
    <3>1. /\ second[s].at = "verified" /\ second' = [second EXCEPT ![s] = Done(@, "in")]
          /\ row[second[s].of] = "open" /\ row' = Spent(second[s].of) /\ UNCHANGED login
      BY <1>6, <2>2, Zenon DEF SecondConsumes
    <3>2. /\ second'[s].of = second[s].of /\ ~LoggedIn(s)
          /\ \A u \in Seconds \ {s} : second'[u] = second[u]
          /\ second[s].of \in Logins
      BY <3>1, <1>t, DoneFields DEF LoggedIn, Known, KnownSecond
    <3>3. \A u \in Seconds : LoggedIn(u) => second[u].of # second[s].of
      BY <3>1 DEF Challenges, Consumable
    <3>4. OneSessionPerChallenge'
      BY <3>2, <3>3 DEF Challenges, OneSessionPerChallenge, LoggedIn
    <3>5. \A k \in Logins : row'[k] = IF k = second[s].of THEN "spent" ELSE row[k]
      BY <3>1, <3>2, <1>t DEF Spent
    <3>6. Consumable'
      <4>1. \A u \in Seconds : LoggedIn(u) => second[u].of \in Logins
        BY DEF Known, KnownSecond, LoggedIn
      <4> QED
        BY <3>2, <3>5, <4>1, SMT DEF Challenges, Consumable, LoggedIn
    <3>7. OpenIsAsked' /\ OneOpenChallenge'
      BY <3>1, <3>5, SMT DEF Challenges, OpenIsAsked, OneOpenChallenge
    <3> QED
      BY <3>4, <3>6, <3>7 DEF Challenges
  <2> QED
    BY <2>1, <2>2
<1>7. CASE UNCHANGED <<row, login, second>>
  BY <1>1, <1>2, <1>7
<1>8. ASSUME NEW m \in Managers,
             \/ SetupReads(m) \/ SetupSaves(m)
             \/ \E n \in Window(now) : EnableReads(m, n) \/ RotateReads(m, n)
             \/ EnableCommits(m) \/ RotateCommits(m) \/ Disable(m)
      PROVE  UNCHANGED <<row, login, second>>
  BY <1>8, Zenon DEF SetupReads, SetupSaves, EnableReads, RotateReads, EnableCommits, RotateCommits,
                     Disable, Reads, Refused, Succeeds
<1>9. CASE UNCHANGED vars \/ Tick
  BY <1>9, <1>7 DEF vars, Tick
<1> QED
  BY <1>3, <1>4, <1>5, <1>6, <1>7, <1>8, <1>9, Zenon DEF Next

-----------------------------------------------------------------------------
(* The theorems *)

IInv == TypeOK /\ Known /\ Ledger /\ Challenges

\* IInv is inductive: identifiers in flight were made, the ledger of codes and
\* the challenges agree with what was accepted.
THEOREM Inductive == Spec => []IInv
<1>1. Spec => []TypeOK
  BY TypeCorrect
<1>2. Init => Known /\ Ledger /\ Challenges
  BY KnownInit, LedgerInit, ChallengesInit
<1>3. TypeOK /\ (Known /\ Ledger /\ Challenges) /\ [Next]_vars => (Known /\ Ledger /\ Challenges)'
  BY KnownStep, LedgerStep, ChallengesStep
<1> QED
  BY <1>1, <1>2, <1>3, PTL DEF Spec, IInv

\* The last counter was accepted for this configuration.
Reached ==
    \/ setting.last = -1
    \/ \E s \in Seconds : /\ LoggedIn(s) /\ second[s].code.t = "totp"
                          /\ second[s].code.of = setting.cfg /\ second[s].code.n = setting.last
    \/ \E m \in Managers : Proved(m) /\ manage[m].cfg = setting.cfg /\ manage[m].n = setting.last

LEMMA ReachedInit == Init => Reached
<1> SUFFICES ASSUME Init PROVE setting.last = -1
  BY DEF Reached
<1>1. CASE setting = NoSetting
  BY <1>1, SMT DEF NoSetting
<1>2. CASE setting = [cfg |-> Original, on |-> FALSE, expires |-> SetupLife, last |-> -1]
  BY <1>2
<1>3. CASE setting = [cfg |-> Original, on |-> TRUE, expires |-> 0, last |-> -1]
  BY <1>3
<1> QED
  BY <1>1, <1>2, <1>3, Zenon DEF Init

LEMMA ReachedStep == IInv /\ Reached /\ [Next]_vars => Reached'
<1> SUFFICES ASSUME TypeOK, Known, Reached, [Next]_vars PROVE Reached'
  BY DEF IInv
<1>t. setting \in Settings
  BY TypeParts
<1>1. ASSUME SameSeconds, SameManagers(Managers), UNCHANGED setting PROVE Reached'
  BY <1>1 DEF SameSeconds, SameManagers, Reached
<1>2. CASE Quiet
  BY <1>1, <1>2 DEF Quiet
<1>3. ASSUME NEW s \in Seconds, Consumed(s) PROVE Reached'
  <2>1. CASE second[s].code.t = "totp"
    <3>1. second[s].code.of = setting.cfg
      BY <1>3, <2>1 DEF Consumed, Known, KnownSecond, Current
    <3> QED
      BY <1>3, <2>1, <3>1, <1>t DEF Consumed, Reached, Settings
  <2>2. CASE second[s].code.t # "totp"
    <3>1. \A u \in Seconds : LoggedIn(u) => LoggedIn(u)' /\ second'[u].code = second[u].code
      BY <1>3, SMT DEF Consumed, LoggedIn
    <3>2. SameManagers(Managers) /\ UNCHANGED setting
      BY <1>3, <2>2 DEF Consumed, SameManagers, Proved
    <3> QED
      BY <3>1, <3>2 DEF SameManagers, Reached
  <2> QED
    BY <2>1, <2>2
<1>4. ASSUME NEW m \in Managers, Enabled(m) \/ Rotated(m) PROVE Reached'
  <2>1. Proved(m)' /\ manage'[m].cfg = manage[m].cfg /\ manage'[m].n = manage[m].n
    BY <1>4 DEF Enabled, Rotated, Changed, Proved
  <2>2. setting'.cfg = manage[m].cfg /\ setting'.last = manage[m].n
    BY <1>4, <1>t DEF Enabled, Rotated, Current, Settings
  <2> QED
    BY <2>1, <2>2 DEF Reached
<1>5. ASSUME NEW m \in Managers, Saved(m) \/ Disabled(m) PROVE Reached'
  <2>1. setting'.last = -1
    BY <1>5, SMT DEF Saved, Disabled, NoSetting
  <2> QED
    BY <2>1 DEF Reached
<1> QED
  BY <1>2, <1>3, <1>4, <1>5, StepKinds

\* However requests overlap, no TOTP code and no recovery code is accepted
\* twice by logins, enable and rotation together.
THEOREM CodeOnceCorrect == Spec => []CodeOnce
<1>1. IInv => CodeOnce
  BY DEF IInv, Ledger
<1> QED
  BY <1>1, Inductive, PTL

\* last_totp_counter is the greatest counter accepted for its configuration.
THEOREM LastCorrect == Spec => []LastIsGreatest
<1>1. Spec => []Reached
  BY ReachedInit, ReachedStep, Inductive, PTL DEF Spec
<1>2. IInv /\ Reached => LastIsGreatest
  <2> SUFFICES ASSUME Bounded, Reached PROVE LastIsGreatest
    BY DEF IInv, Ledger
  <2>1. \A n \in Accepted(setting.cfg) : n <= setting.last
    BY SMT DEF Accepted, Bounded
  <2>2. setting.last = -1 \/ setting.last \in Accepted(setting.cfg)
    BY SMT DEF Accepted, Reached
  <2> QED
    BY <2>1, <2>2 DEF LastIsGreatest
<1> QED
  BY <1>1, <1>2, Inductive, PTL

\* A challenge makes one session at most, however often its token is sent.
THEOREM SessionCorrect == Spec => []OneSessionPerChallenge
<1>1. IInv => OneSessionPerChallenge
  BY DEF IInv, Challenges
<1> QED
  BY <1>1, Inductive, PTL

\* One challenge of the user at most is open.
THEOREM ChallengeCorrect == Spec => []OneOpenChallenge
<1>1. IInv => OneOpenChallenge
  BY DEF IInv, Challenges
<1> QED
  BY <1>1, Inductive, PTL

\* The recovery codes that are valid are those of the enabled configuration
\* that were given last.
THEOREM CodesCorrect == Spec => []CodesAreCurrent
<1>1. IInv => CodesAreCurrent
  BY DEF IInv, Ledger
<1> QED
  BY <1>1, Inductive, PTL

\* An enabled configuration was proved by a code of its own secret.
THEOREM EnabledCorrect == Spec => []EnabledIsProved
<1>1. IInv => EnabledIsProved
  BY DEF IInv, Ledger
<1> QED
  BY <1>1, Inductive, PTL

\* Only disable ends or exchanges an enabled configuration.
THEOREM DisableCorrect == Spec => OnlyDisableTurnsOff
<1>1. TypeOK /\ [Next]_vars =>
        [setting.on /\ ~(setting'.on /\ setting'.cfg = setting.cfg)
         => \E m \in Managers : manage'[m].kind = "disable" /\ manage[m].at = "idle"]_vars
  <2> SUFFICES ASSUME TypeOK, Next, setting.on, ~(setting'.on /\ setting'.cfg = setting.cfg)
               PROVE  \E m \in Managers : manage'[m].kind = "disable" /\ manage[m].at = "idle"
    BY Zenon
  <2>t. setting \in Settings /\ manage \in [Managers -> ManageRecords]
    BY TypeParts
  <2>1. ~UNCHANGED setting
    OBVIOUS
  <2>2. ASSUME NEW s \in Seconds, SecondConsumes(s) PROVE FALSE
    BY <2>2, <2>t, <2>1, SMT DEF SecondConsumes, Settings
  <2>3. ASSUME NEW m \in Managers, RotateCommits(m) PROVE FALSE
    BY <2>3, <2>t, <2>1, SMT DEF RotateCommits, Refused, Settings
  <2>4. ASSUME NEW m \in Managers, SetupSaves(m) \/ EnableCommits(m) PROVE FALSE
    BY <2>4, <2>1, Zenon DEF SetupSaves, EnableCommits, Unchanged, Pending, Refused
  <2>5. ASSUME NEW m \in Managers, Disable(m)
        PROVE  manage'[m].kind = "disable" /\ manage[m].at = "idle"
    BY <2>5, <2>t, SMT DEF Disable, NoManage
  <2>6. ASSUME NEW l \in Logins, LoginReads(l) \/ LoginAsks(l) PROVE FALSE
    BY <2>6, <2>1 DEF LoginReads, LoginAsks
  <2>7. ASSUME NEW s \in Seconds, NEW l \in Logins, NEW c, SecondVerifies(s, l, c) PROVE FALSE
    BY <2>7, <2>1 DEF SecondVerifies
  <2>8. ASSUME NEW m \in Managers,
               SetupReads(m) \/ \E n \in Window(now) : EnableReads(m, n) \/ RotateReads(m, n)
        PROVE  FALSE
    BY <2>8, <2>1, Zenon DEF SetupReads, EnableReads, RotateReads, Reads
  <2>9. ~Tick
    BY <2>1 DEF Tick
  <2> QED
    BY <2>2, <2>3, <2>4, <2>5, <2>6, <2>7, <2>8, <2>9 DEF Next
<1> QED
  BY <1>1, TypeCorrect, PTL DEF Spec, OnlyDisableTurnsOff

-----------------------------------------------------------------------------
(* The ledger of codes *)

\* What a request has read of the time and the setting is within their bounds.
Bounds ==
    /\ now <= MaxTime
    /\ \A l \in Logins : login[l].at \in {"read", "asked"} => login[l].cfg \in Managers \union {Original}
    /\ \A s \in Seconds : second[s].at = "verified" /\ second[s].code.t = "totp" =>
           second[s].code.n \in 0..MaxTime + 1
    /\ \A m \in Managers : manage[m].at = "read" => manage[m].n \in 0..MaxTime + 1

LEMMA BoundsInit == Init => Bounds
<1> SUFFICES ASSUME Init PROVE Bounds
  OBVIOUS
<1>1. now <= MaxTime
  BY TwoFactorAssumption, SMT DEF Init
<1>2. /\ \A l \in Logins : login[l].at = "idle"
      /\ \A s \in Seconds : second[s].at = "idle"
      /\ \A m \in Managers : manage[m].at = "idle"
  BY Zenon DEF Init, NoAsk, NoSecond, NoManage
<1> QED
  BY <1>1, <1>2 DEF Bounds

\* No step reads past the bounds.
LEMMA BoundsStep == TypeOK /\ Known /\ Bounds /\ [Next]_vars => Bounds'
<1> SUFFICES ASSUME TypeOK, Known, Bounds, [Next]_vars PROVE Bounds'
  OBVIOUS
<1>t. /\ now \in Nat /\ setting \in Settings
      /\ login \in [Logins -> LoginRecords]
      /\ second \in [Seconds -> SecondRecords]
      /\ manage \in [Managers -> ManageRecords]
  BY TypeParts DEF TypeOK
<1>w. \A n \in Window(now) : n \in 0..MaxTime + 1
  BY <1>t, TwoFactorAssumption, SMT DEF Window, Bounds
<1>1. CASE UNCHANGED <<login, second, manage>> /\ now' <= MaxTime
  BY <1>1 DEF Bounds
<1>2. ASSUME NEW l \in Logins, LoginReads(l) PROVE Bounds'
  <2>1. setting.on => setting.cfg \in Managers \union {Original}
    BY DEF Known, KnownSetting, Made
  <2>2. /\ login' = [login EXCEPT ![l] = IF setting.on
                                         THEN [at |-> "read", cfg |-> setting.cfg, exp |-> now + ChallengeLife]
                                         ELSE NoAsk("in")]
        /\ UNCHANGED <<now, second, manage>>
    BY <1>2, Zenon DEF LoginReads
  <2>3. /\ login'[l].at \in {"read", "asked"} => login'[l].cfg \in Managers \union {Original}
        /\ \A k \in Logins \ {l} : login'[k] = login[k]
    BY <1>t, <2>1, <2>2, SMT DEF NoAsk
  <2> QED
    BY <2>2, <2>3 DEF Bounds
<1>3. ASSUME NEW l \in Logins, LoginAsks(l) PROVE Bounds'
  <2>1. /\ login[l].at = "read" /\ UNCHANGED <<now, second, manage>>
        /\ login' = [login EXCEPT ![l].at = "asked"] \/ login' = [login EXCEPT ![l] = NoAsk("failed")]
    BY <1>3, Zenon DEF LoginAsks
  <2>2. /\ login'[l].at \in {"read", "asked"} => login'[l].cfg = login[l].cfg
        /\ \A k \in Logins \ {l} : login'[k] = login[k]
    BY <1>t, <2>1, SMT DEF NoAsk, LoginRecords
  <2> QED
    BY <2>1, <2>2 DEF Bounds
<1>4. ASSUME NEW s \in Seconds, NEW l \in Logins, NEW c, SecondVerifies(s, l, c) PROVE Bounds'
  <2>1. /\ c.t = "totp" => c.n \in 0..MaxTime + 1
        /\ second' = [second EXCEPT ![s] = [at |-> "verified", of |-> l, code |-> c, t |-> now]]
        /\ UNCHANGED <<now, login, manage>>
    <3>1. c \in Given => c.t # "totp"
      BY GivenAreIssued
    <3> QED
      BY <1>4, <1>w, <3>1, Zenon DEF SecondVerifies
  <2>2. second'[s].code = c /\ \A u \in Seconds \ {s} : second'[u] = second[u]
    BY <1>t, <2>1, SMT
  <2> QED
    BY <2>1, <2>2 DEF Bounds
<1>5. ASSUME NEW s \in Seconds, SecondConsumes(s) PROVE Bounds'
  <2>1. /\ second' = [second EXCEPT ![s] = Done(second[s], "in")]
           \/ second' = [second EXCEPT ![s] = NoSecond("refused")]
        /\ UNCHANGED <<now, login, manage>>
    BY <1>5, Zenon DEF SecondConsumes
  <2>2. Done(second[s], "in").at = "in" /\ NoSecond("refused").at = "refused"
    BY <1>t, DoneFields, Zenon DEF NoSecond
  <2>3. second'[s].at # "verified" /\ \A u \in Seconds \ {s} : second'[u] = second[u]
    BY <1>t, <2>1, <2>2, SMT
  <2> QED
    BY <2>1, <2>3 DEF Bounds
<1>6. ASSUME NEW m \in Managers, UNCHANGED <<now, login, second>>,
             \A k \in Managers \ {m} : manage'[k] = manage[k],
             manage'[m].at = "read" => manage'[m].n \in 0..MaxTime + 1
      PROVE  Bounds'
  BY <1>6 DEF Bounds
<1>7. ASSUME NEW m \in Managers, NEW kind, NEW cfg, NEW n \in 0..MaxTime + 1, Reads(m, kind, cfg, n)
      PROVE  Bounds'
  <2>1. manage'[m].n = n /\ \A k \in Managers \ {m} : manage'[k] = manage[k]
    BY <1>t, <1>7, SMT DEF Reads
  <2> QED
    BY <1>6, <1>7, <2>1 DEF Reads
<1>8. ASSUME NEW m \in Managers, Refused(m) \/ Succeeds(m) \/ Disable(m) PROVE Bounds'
  <2>1. manage'[m].at # "read" /\ \A k \in Managers \ {m} : manage'[k] = manage[k]
    <3>1. CASE Refused(m)
      BY <1>t, <3>1, SMT DEF Refused, NoManage
    <3>2. CASE Succeeds(m)
      BY <3>2, ManageSteps
    <3>3. CASE Disable(m)
      BY <1>t, <3>3, SMT DEF Disable, NoManage
    <3> QED
      BY <1>8, <3>1, <3>2, <3>3
  <2> QED
    BY <1>6, <1>8, <2>1 DEF Refused, Succeeds, Disable
<1>9. ASSUME NEW m \in Managers,
             \/ SetupReads(m) \/ SetupSaves(m)
             \/ \E n \in Window(now) : EnableReads(m, n) \/ RotateReads(m, n)
             \/ EnableCommits(m) \/ RotateCommits(m) \/ Disable(m)
      PROVE  Bounds'
  <2>1. 0 \in 0..MaxTime + 1
    BY TwoFactorAssumption
  <2> QED
    BY <1>7, <1>8, <1>9, <1>w, <2>1, Zenon
    DEF SetupReads, SetupSaves, EnableReads, RotateReads, EnableCommits, RotateCommits
<1>10. CASE Tick \/ UNCHANGED vars
  <2>1. now' <= MaxTime
    BY <1>10, <1>t, TwoFactorAssumption, SMT DEF Tick, vars, Bounds
  <2> QED
    BY <1>1, <1>10, <2>1 DEF Tick, vars
<1> QED
  BY <1>2, <1>3, <1>4, <1>5, <1>9, <1>10, Zenon DEF Next

\* The state of the ledger while nobody takes a code.
LEMMA QuietLedger ==
    ASSUME TypeOK, SameSeconds, SameManagers(Managers)
    PROVE  CodesTaken' = CodesTaken /\ SessionOf' = SessionOf
<1>1. {u \in Seconds : LoggedIn(u)}' = {u \in Seconds : LoggedIn(u)}
  BY DEF SameSeconds
<1>2. {k \in Managers : Proved(k)}' = {k \in Managers : Proved(k)}
  BY DEF SameManagers
<1>3. \A s \in Seconds : LoggedIn(s) => second'[s] = second[s]
  BY DEF SameSeconds
<1>4. \A m \in Managers : Proved(m) => Proof(m)' = Proof(m)
  BY DEF SameManagers, Proof
<1>5. CodesTaken' = CodesTaken
  BY <1>1, <1>2, <1>3, <1>4, Zenon DEF CodesTaken
<1>6. SessionOf' = SessionOf
  BY Zenon DEF SameSeconds, SessionOf
<1> QED
  BY <1>5, <1>6

\* A second factor takes its code.
LEMMA SecondLedger ==
    ASSUME TypeOK, NEW s \in Seconds, ~LoggedIn(s), LoggedIn(s)', second'[s].code = second[s].code,
           second'[s].of = second[s].of,
           \A u \in Seconds \ {s} : second'[u] = second[u], SameManagers(Managers)
    PROVE  /\ CodesTaken' = CodesTaken \union {second[s].code}
           /\ SessionOf' = [SessionOf EXCEPT ![s] = second[s].of]
           /\ SessionOf[s] = NoLogin
<1>1. \A u \in Seconds : LoggedIn(u)' <=> LoggedIn(u) \/ u = s
  BY DEF LoggedIn
<1>2. {k \in Managers : Proved(k)}' = {k \in Managers : Proved(k)}
  BY DEF SameManagers
<1>3. \A m \in Managers : Proved(m) => Proof(m)' = Proof(m)
  BY DEF SameManagers, Proof
<1> DEFINE secondCodes == {second[u].code : u \in {v \in Seconds : LoggedIn(v)}}
           manageCodes == {Proof(m) : m \in {k \in Managers : Proved(k)}}
<1>4. manageCodes' = manageCodes
  BY <1>2, <1>3, Zenon
<1>5. secondCodes' = secondCodes \union {second[s].code}
  <2>1. \A u \in Seconds : second'[u].code = second[u].code
    OBVIOUS
  <2> QED
    BY <1>1, <2>1, SMT
<1>6. CodesTaken' = CodesTaken \union {second[s].code}
  <2>1. CodesTaken = secondCodes \union manageCodes /\ CodesTaken' = secondCodes' \union manageCodes'
    BY Zenon DEF CodesTaken
  <2> HIDE DEF secondCodes, manageCodes
  <2> QED
    BY <1>4, <1>5, <2>1
<1>7. SessionOf' = [SessionOf EXCEPT ![s] = second[s].of]
  <2>1. \A u \in Seconds : SessionOf'[u] = IF u = s THEN second[s].of ELSE SessionOf[u]
    BY <1>1, Zenon DEF SessionOf
  <2>2. SessionOf' = [u \in Seconds |-> SessionOf'[u]] /\ SessionOf = [u \in Seconds |-> SessionOf[u]]
    BY Zenon DEF SessionOf
  <2> QED
    BY <2>1, <2>2, SMT
<1>8. SessionOf[s] = NoLogin
  BY DEF SessionOf
<1> QED
  BY <1>6, <1>7, <1>8

\* An enable or a replacement takes its code.
LEMMA ManageLedger ==
    ASSUME TypeOK, NEW m \in Managers, Changed(m), manage[m].kind \in {"enable", "rotate"}
    PROVE  CodesTaken' = CodesTaken \union {Totp(manage[m].cfg, manage[m].n)} /\ SessionOf' = SessionOf
<1>1. \A k \in Managers : Proved(k)' <=> Proved(k) \/ k = m
  BY DEF Changed, Proved
<1>2. \A k \in Managers : Proof(k)' = Proof(k)
  BY DEF Changed, Proof
<1> DEFINE secondCodes == {second[u].code : u \in {v \in Seconds : LoggedIn(v)}}
           manageCodes == {Proof(k) : k \in {j \in Managers : Proved(j)}}
<1>3. manageCodes' = manageCodes \union {Proof(m)}
  BY <1>1, <1>2, SMT
<1>4. UNCHANGED second
  BY DEF Changed
<1>5. secondCodes' = secondCodes
  BY <1>4, Zenon DEF LoggedIn
<1>6. CodesTaken' = CodesTaken \union {Proof(m)}
  <2>1. CodesTaken = secondCodes \union manageCodes /\ CodesTaken' = secondCodes' \union manageCodes'
    BY Zenon DEF CodesTaken
  <2> HIDE DEF secondCodes, manageCodes
  <2> QED
    BY <1>3, <1>5, <2>1
<1>7. SessionOf' = SessionOf
  BY <1>4, Zenon DEF SessionOf, LoggedIn
<1> QED
  BY <1>6, <1>7, Zenon DEF Proof

\* What is known of a code that was taken.
LEMMA TakenIs ==
    ASSUME NEW d \in CodesTaken
    PROVE  \/ \E s \in Seconds : LoggedIn(s) /\ d = second[s].code
           \/ \E m \in Managers : Proved(m) /\ d = Totp(manage[m].cfg, manage[m].n)
BY Zenon DEF CodesTaken, Proof

\* A counter above the last one is above all that were taken, and new.
LEMMA NewerIsFree ==
    ASSUME Ledger, NEW n \in Nat, setting.last < n, NEW c, c.t = "totp", c.of = setting.cfg, c.n = n,
           TypeOK
    PROVE  c \notin CodesTaken /\ \A d \in CodesTaken : d.t = "totp" /\ d.of = setting.cfg => d.n < n
<1>t. /\ setting.last \in Int
      /\ second \in [Seconds -> SecondRecords] /\ manage \in [Managers -> ManageRecords]
  BY TypeParts DEF Settings
<1>1. ASSUME NEW d \in CodesTaken, d.t = "totp", d.of = setting.cfg PROVE d.n < n
  <2>1. ASSUME NEW s \in Seconds, LoggedIn(s), d = second[s].code PROVE d.n <= setting.last /\ d.n \in Nat
    BY <1>t, <1>1, <2>1 DEF Ledger, Bounded, SecondRecords, CodeTypes
  <2>2. ASSUME NEW m \in Managers, Proved(m), d = Totp(manage[m].cfg, manage[m].n)
        PROVE  d.n <= setting.last /\ d.n \in Nat
    <3>1. d.of = manage[m].cfg /\ d.n = manage[m].n
      BY <2>2 DEF Totp
    <3> QED
      BY <1>t, <1>1, <2>2, <3>1 DEF Ledger, Bounded, ManageRecords
  <2>3. d.n <= setting.last /\ d.n \in Nat
    BY <2>1, <2>2, TakenIs
  <2> QED
    BY <1>t, <2>3
<1> QED
  BY <1>1

\* Steps that make no challenge and meet none leave the challenges as they are.
LEMMA RowsStay ==
    ASSUME TypeOK, [Next]_vars, \A l \in Logins : ~LoginAsks(l),
           \A s \in Seconds : second[s].at = "verified" => second'[s].at # "in"
    PROVE  UNCHANGED <<OpenRows, AskedFor>>
<1>t. login \in [Logins -> LoginRecords] /\ second \in [Seconds -> SecondRecords]
  BY TypeParts
<1>1. CASE UNCHANGED <<row, login>>
  BY <1>1, Zenon DEF OpenRows, AskedFor
<1>2. ASSUME NEW l \in Logins, LoginReads(l) PROVE UNCHANGED <<OpenRows, AskedFor>>
  <2>1. /\ login' = [login EXCEPT ![l] = IF setting.on
                                         THEN [at |-> "read", cfg |-> setting.cfg, exp |-> now + ChallengeLife]
                                         ELSE NoAsk("in")]
        /\ login[l].at = "idle" /\ UNCHANGED row
    BY <1>2, Zenon DEF LoginReads
  <2>2. login'[l].at # "asked" /\ \A k \in Logins \ {l} : login'[k] = login[k]
    BY <1>t, <2>1, SMT DEF NoAsk
  <2>3. \A k \in Logins : (IF login'[k].at = "asked" THEN login'[k].cfg ELSE NoId)
                            = (IF login[k].at = "asked" THEN login[k].cfg ELSE NoId)
    BY <2>1, <2>2
  <2>4. AskedFor' = AskedFor
    BY <2>3, Zenon DEF AskedFor
  <2>5. OpenRows' = OpenRows
    BY <2>1, Zenon DEF OpenRows
  <2> QED
    BY <2>4, <2>5
<1>3. ASSUME NEW s \in Seconds, SecondConsumes(s) PROVE UNCHANGED <<row, login>>
  <2>1. ASSUME second' = [second EXCEPT ![s] = Done(@, "in")] PROVE FALSE
    <3>1. second'[s].at = "in"
      BY <1>t, <2>1, DoneFields, Zenon
    <3>2. second[s].at = "verified"
      BY <1>3, Zenon DEF SecondConsumes
    <3> QED
      BY <3>1, <3>2
  <2> QED
    BY <1>3, <2>1, Zenon DEF SecondConsumes
<1>4. ASSUME \/ Tick \/ UNCHANGED vars
             \/ \E s \in Seconds, l \in Logins : \E c : SecondVerifies(s, l, c)
             \/ \E m \in Managers : Refused(m) \/ Succeeds(m) \/ Disable(m) \/ \E kind, cfg, n : Reads(m, kind, cfg, n)
      PROVE  UNCHANGED <<row, login>>
  BY <1>4, Zenon DEF Tick, vars, SecondVerifies, Refused, Succeeds, Disable, Reads
<1>5. ASSUME NEW m \in Managers,
             \/ SetupReads(m) \/ SetupSaves(m)
             \/ \E n \in Window(now) : EnableReads(m, n) \/ RotateReads(m, n)
             \/ EnableCommits(m) \/ RotateCommits(m)
      PROVE  UNCHANGED <<row, login>>
  BY <1>4, <1>5, Zenon DEF SetupReads, SetupSaves, EnableReads, EnableCommits, RotateReads, RotateCommits
<1> QED
  BY <1>1, <1>2, <1>3, <1>4, <1>5, Zenon DEF Next

\* A challenge that is made is the only open one.
LEMMA AskRefines ==
    ASSUME TypeOK, Challenges, Bounds, NEW l \in Logins, LoginAsks(l)
    PROVE  Codes!Ask(l) \/ UNCHANGED Codes!lvars
<1>t. login \in [Logins -> LoginRecords] /\ row \in [Logins -> {"none", "open", "spent"}]
  BY TypeParts
<1>1. /\ login[l].at = "read" /\ UNCHANGED <<setting, codes, second, manage>>
      /\ \/ login' = [login EXCEPT ![l].at = "asked"] /\ row' = RowsWith(l)
         \/ login' = [login EXCEPT ![l] = NoAsk("failed")] /\ UNCHANGED row
  BY Zenon DEF LoginAsks
<1>2. UNCHANGED <<EnabledNow, codes, CodesTaken, SessionOf>>
  BY <1>1, Zenon DEF EnabledNow, CodesTaken, SessionOf, LoggedIn, Proved, Proof
<1>3. CASE login' = [login EXCEPT ![l].at = "asked"] /\ row' = RowsWith(l)
  <2>1. /\ login'[l].at = "asked" /\ login'[l].cfg = login[l].cfg
        /\ \A k \in Logins \ {l} : login'[k] = login[k]
    BY <1>3, <1>t, SMT DEF LoginRecords
  <2>2. login[l].cfg \in Managers \union {Original}
    BY <1>1 DEF Bounds
  <2>3. AskedFor[l] = NoId
    BY <1>1 DEF AskedFor
  <2>4. AskedFor' = [AskedFor EXCEPT ![l] = login[l].cfg]
    <3>1. \A k \in Logins : AskedFor'[k] = IF k = l THEN login[l].cfg ELSE AskedFor[k]
      BY <2>1, Zenon DEF AskedFor
    <3>2. AskedFor' = [k \in Logins |-> AskedFor'[k]] /\ AskedFor = [k \in Logins |-> AskedFor[k]]
      BY Zenon DEF AskedFor
    <3> QED
      BY <3>1, <3>2, SMT
  <2>5. OpenRows' = {l}
    <3>1. \A k \in Logins : row'[k] = "open" <=> k = l
      BY <1>3, SMT DEF RowsWith
    <3> QED
      BY <3>1, SMT DEF OpenRows
  <2> QED
    BY <1>2, <2>2, <2>3, <2>4, <2>5, Zenon DEF Codes!Ask
<1>4. CASE login' = [login EXCEPT ![l] = NoAsk("failed")] /\ UNCHANGED row
  <2>1. login'[l].at # "asked" /\ \A k \in Logins \ {l} : login'[k] = login[k]
    BY <1>4, <1>t, SMT DEF NoAsk
  <2>2. \A k \in Logins : (IF login'[k].at = "asked" THEN login'[k].cfg ELSE NoId)
                            = (IF login[k].at = "asked" THEN login[k].cfg ELSE NoId)
    BY <1>1, <2>1
  <2>3. AskedFor' = AskedFor
    BY <2>2, Zenon DEF AskedFor
  <2>4. OpenRows' = OpenRows
    BY <1>4, Zenon DEF OpenRows
  <2> QED
    BY <1>2, <2>3, <2>4 DEF Codes!lvars
<1> QED
  BY <1>1, <1>3, <1>4

\* A second factor that is accepted meets its challenge.
LEMMA EnterRefines ==
    ASSUME IInv, Bounds, NEW s \in Seconds, SecondConsumes(s), second'[s].at = "in"
    PROVE  Codes!Enter(s)
<1> DEFINE l == second[s].of
           c == second[s].code
<1>t. /\ setting \in Settings /\ login \in [Logins -> LoginRecords]
      /\ row \in [Logins -> {"none", "open", "spent"}]
      /\ second \in [Seconds -> SecondRecords]
  BY TypeParts DEF IInv
<1>1. /\ second[s].at = "verified" /\ row[l] = "open" /\ Current(login[l].cfg) /\ Unused(c)
      /\ row' = Spent(l) /\ second' = [second EXCEPT ![s] = Done(@, "in")]
      /\ IF c.t = "totp" THEN setting' = [setting EXCEPT !.last = c.n] /\ UNCHANGED codes
                         ELSE codes' = codes \ {c} /\ UNCHANGED setting
      /\ UNCHANGED <<login, manage>>
  <2>1. ~(second' = [second EXCEPT ![s] = NoSecond("refused")])
    BY <1>t, SMT DEF NoSecond
  <2> QED
    BY <2>1, Zenon DEF SecondConsumes
<1>2. /\ l \in Logins /\ login[l].at = "asked" /\ c \in CodeTypes
      /\ c.t = "totp" => c.of = login[l].cfg /\ c.n \in 0..MaxTime + 1
  BY <1>1, <1>t DEF IInv, Known, KnownSecond, Bounds, SecondRecords
<1>3. EnabledNow = setting.cfg /\ EnabledNow # NoId /\ EnabledNow' = EnabledNow /\ login[l].cfg = EnabledNow
  <2>1. setting.on /\ setting.cfg = login[l].cfg /\ setting.cfg # NoId
    BY <1>1 DEF Current, IInv, Known, KnownSetting
  <2>2. setting'.on = setting.on /\ setting'.cfg = setting.cfg
    BY <1>1, <1>t, SMT DEF Settings
  <2> QED
    BY <2>1, <2>2 DEF EnabledNow
<1>4. /\ CodesTaken' = CodesTaken \union {c}
      /\ SessionOf' = [SessionOf EXCEPT ![s] = l] /\ SessionOf[s] = NoLogin
  <2>1. /\ second'[s].code = c /\ second'[s].of = l
        /\ \A u \in Seconds \ {s} : second'[u] = second[u]
    BY <1>1, <1>t, DoneFields, Zenon
  <2>2. SameManagers(Managers)
    BY <1>1 DEF SameManagers, Proved
  <2>3. ~LoggedIn(s) /\ LoggedIn(s)'
    BY <1>1 DEF LoggedIn
  <2> QED
    BY <2>1, <2>2, <2>3, SecondLedger DEF IInv
<1>5. /\ l \in OpenRows /\ AskedFor[l] = EnabledNow
      /\ OpenRows' = OpenRows \ {l} /\ AskedFor' = AskedFor
  <2>1. l \in OpenRows /\ AskedFor[l] = EnabledNow
    BY <1>1, <1>2, <1>3 DEF OpenRows, AskedFor
  <2>2. \A k \in Logins : row'[k] = "open" <=> row[k] = "open" /\ k # l
    BY <1>1, <1>t, SMT DEF Spent
  <2>3. OpenRows' = OpenRows \ {l}
    BY <2>2, SMT DEF OpenRows
  <2>4. AskedFor' = AskedFor
    BY <1>1, Zenon DEF AskedFor
  <2> QED
    BY <2>1, <2>3, <2>4
<1>6. /\ c \in codes \union {Codes!Totp(EnabledNow, n) : n \in 0..MaxTime + 1}
      /\ Codes!Take(c, EnabledNow) /\ codes' = codes \ {c}
  <2>1. CASE c.t = "totp"
    <3>1. c = Totp(c.of, c.n)
      BY <1>2, <2>1, SMT DEF CodeTypes, Totp
    <3>2. c \in {Codes!Totp(EnabledNow, n) : n \in 0..MaxTime + 1}
      BY <1>2, <1>3, <2>1, <3>1, Zenon DEF Codes!Totp, Totp
    <3>3. c \notin CodesTaken /\ \A d \in CodesTaken : d.t = "totp" /\ d.of = setting.cfg => d.n < c.n
      <4>1. setting.last < c.n /\ c.n \in Nat /\ c.of = setting.cfg
        BY <1>1, <1>2, <1>3, <2>1 DEF Unused, CodeTypes
      <4> QED
        BY <2>1, <4>1, NewerIsFree DEF IInv
    <3>4. c \notin codes
      BY <2>1 DEF IInv, Known, KnownCodes
    <3>5. codes' = codes \ {c}
      BY <1>1, <2>1, <3>4
    <3> QED
      BY <1>2, <1>3, <1>4, <2>1, <3>2, <3>3, <3>5, Zenon DEF Codes!Take
  <2>2. CASE c.t # "totp"
    <3>1. c \in codes /\ codes' = codes \ {c}
      BY <1>1, <2>2 DEF Unused
    <3>2. c \notin CodesTaken
      <4>1. ASSUME NEW u \in Seconds, LoggedIn(u), c = second[u].code PROVE FALSE
        BY <3>1, <4>1 DEF IInv, Ledger, Used
      <4>2. ASSUME NEW m \in Managers, c = Totp(manage[m].cfg, manage[m].n) PROVE FALSE
        <5>1. Totp(manage[m].cfg, manage[m].n).t = "totp"
          BY DEF Totp
        <5> QED
          BY <2>2, <4>2, <5>1
      <4> QED
        BY <4>1, <4>2, TakenIs
    <3> QED
      BY <1>4, <3>1, <3>2, Zenon DEF Codes!Take
  <2> QED
    BY <2>1, <2>2
<1> QED
  BY <1>3, <1>4, <1>5, <1>6, Zenon DEF Codes!Enter

\* Codes of a request that has not ended were not taken.
LEMMA GivenIsNew ==
    ASSUME TypeOK, Known, NEW m \in Managers, manage[m].at # "ok"
    PROVE  Codes!CodeSet(m) = CodeSet(m) /\ CodeSet(m) \intersect CodesTaken = {}
<1>1. Codes!CodeSet(m) = CodeSet(m)
  BY Zenon DEF Codes!CodeSet, CodeSet
<1>2. ASSUME NEW d \in CodeSet(m), NEW s \in Seconds, LoggedIn(s), d = second[s].code PROVE FALSE
  <2>1. d.of = m
    BY <1>2, SMT DEF CodeSet
  <2> QED
    BY <1>2, <2>1, NotYet
<1>3. ASSUME NEW d \in CodeSet(m), NEW k \in Managers, d = Totp(manage[k].cfg, manage[k].n) PROVE FALSE
  <2>1. d.t = "recovery"
    BY SMT DEF CodeSet
  <2>2. Totp(manage[k].cfg, manage[k].n).t = "totp"
    BY DEF Totp
  <2> QED
    BY <1>3, <2>1, <2>2
<1> QED
  BY <1>1, <1>2, <1>3, TakenIs

\* Enable and replacement take a code of their configuration and give new codes.
LEMMA GiveRefines ==
    ASSUME IInv, Bounds, NEW m \in Managers, Enabled(m) \/ Rotated(m), manage[m].at = "read",
           UNCHANGED <<OpenRows, AskedFor>>
    PROVE  Codes!Enable(m) \/ Codes!Replace(m)
<1> DEFINE cfg == manage[m].cfg
           n == manage[m].n
<1>t. /\ TypeOK /\ setting \in Settings /\ manage \in [Managers -> ManageRecords]
  BY TypeParts DEF IInv
<1>1. /\ Changed(m) /\ manage[m].kind \in {"enable", "rotate"} /\ codes' = CodeSet(m)
      /\ setting.cfg = cfg /\ setting'.cfg = cfg /\ setting'.on
      /\ setting.on <=> Rotated(m)
      /\ Rotated(m) => setting.last < n
  BY <1>t, SMT DEF Enabled, Rotated, Current, Settings
<1>2. cfg \in Managers \union {Original} /\ cfg # NoId /\ n \in 0..MaxTime + 1 /\ n \in Nat
  <2>1. cfg \in Managers \union {Original}
    BY <1>1 DEF IInv, Known, KnownManage, Made
  <2> QED
    BY <2>1, <1>t, TwoFactorAssumption DEF Bounds, ManageRecords
<1>3. EnabledNow' = cfg /\ (Rotated(m) => EnabledNow = cfg) /\ (~Rotated(m) => EnabledNow = NoId)
  BY <1>1 DEF EnabledNow
<1>4. CodesTaken' = CodesTaken \union {Codes!Totp(cfg, n)} /\ SessionOf' = SessionOf
  BY <1>1, <1>t, ManageLedger, Zenon DEF Codes!Totp, Totp
<1>5. Codes!Give(m)
  BY <1>1, <1>t, GivenIsNew, Zenon DEF Codes!Give, IInv, Changed
<1>6. setting.last < n
  <2>1. CASE Rotated(m)
    BY <1>1, <2>1
  <2>2. CASE ~Rotated(m)
    <3>1. setting.last = -1
      BY <1>1, <2>2 DEF IInv, Known, KnownSetting
    <3> QED
      BY <1>2, <3>1
  <2> QED
    BY <2>1, <2>2
<1>7. Codes!Take(Codes!Totp(cfg, n), cfg)
  <2> DEFINE c == Codes!Totp(cfg, n)
  <2>1. c.t = "totp" /\ c.of = cfg /\ c.n = n
    BY DEF Codes!Totp
  <2>2. c \notin CodesTaken /\ \A d \in CodesTaken : d.t = "totp" /\ d.of = cfg => d.n < n
    BY <1>1, <1>2, <1>6, <1>t, <2>1, NewerIsFree DEF IInv
  <2> QED
    BY <1>4, <2>1, <2>2, Zenon DEF Codes!Take
<1>8. CASE Rotated(m)
  BY <1>2, <1>3, <1>4, <1>5, <1>7, <1>8, Zenon DEF Codes!Replace
<1>9. CASE ~Rotated(m)
  BY <1>2, <1>3, <1>4, <1>5, <1>7, <1>9, Zenon DEF Codes!Enable
<1> QED
  BY <1>8, <1>9

\* Every step is a step of the ledger, or invisible there.
LEMMA CodesStep == IInv /\ Bounds /\ [Next]_vars => [Codes!Next]_(Codes!lvars)
<1> SUFFICES ASSUME IInv, Bounds, [Next]_vars PROVE Codes!Next \/ UNCHANGED Codes!lvars
  OBVIOUS
<1>t. /\ TypeOK /\ setting \in Settings /\ second \in [Seconds -> SecondRecords]
      /\ manage \in [Managers -> ManageRecords]
  BY TypeParts DEF IInv
<1>1. CASE \E l \in Logins : LoginAsks(l)
  BY <1>1, <1>t, AskRefines DEF Codes!Next, IInv
<1>2. CASE \E s \in Seconds : second[s].at = "verified" /\ second'[s].at = "in"
  <2>1. PICK s \in Seconds : second[s].at = "verified" /\ second'[s].at = "in"
    BY <1>2
  <2>2. SecondConsumes(s)
    <3>1. ~UNCHANGED second
      BY <2>1
    <3>2. ASSUME NEW u \in Seconds, NEW l \in Logins, NEW c, SecondVerifies(u, l, c) PROVE FALSE
      BY <1>t, <2>1, <3>2, SMT DEF SecondVerifies
    <3>3. ASSUME NEW u \in Seconds, SecondConsumes(u) PROVE u = s
      <4>1. \A v \in Seconds \ {u} : second'[v] = second[v]
        BY <1>t, <3>3, SMT DEF SecondConsumes
      <4> QED
        BY <2>1, <4>1
    <3>4. ASSUME \/ Tick \/ UNCHANGED vars
                 \/ \E l \in Logins : LoginReads(l) \/ LoginAsks(l)
                 \/ \E m \in Managers : \/ Refused(m) \/ Succeeds(m) \/ Disable(m)
                                        \/ \E kind, cfg, n : Reads(m, kind, cfg, n)
          PROVE  FALSE
      BY <3>1, <3>4, Zenon DEF Tick, vars, LoginReads, LoginAsks, Refused, Succeeds, Disable, Reads
    <3>5. ASSUME NEW m \in Managers,
                 \/ SetupReads(m) \/ SetupSaves(m)
                 \/ \E n \in Window(now) : EnableReads(m, n) \/ RotateReads(m, n)
                 \/ EnableCommits(m) \/ RotateCommits(m)
          PROVE  FALSE
      BY <3>4, <3>5, Zenon DEF SetupReads, SetupSaves, EnableReads, EnableCommits, RotateReads, RotateCommits
    <3> QED
      BY <3>2, <3>3, <3>4, <3>5, Zenon DEF Next
  <2> QED
    BY <2>1, <2>2, EnterRefines DEF Codes!Next
<1>3. CASE /\ \A l \in Logins : ~LoginAsks(l)
           /\ \A s \in Seconds : second[s].at = "verified" => second'[s].at # "in"
  <2>u. UNCHANGED <<OpenRows, AskedFor>>
    BY <1>3, <1>t, RowsStay
  <2>1. CASE Quiet
    <3>1. EnabledNow' = EnabledNow
      BY <2>1 DEF Quiet, EnabledNow
    <3> QED
      BY <1>t, <2>1, <2>u, <3>1, QuietLedger DEF Quiet, Codes!lvars
  <2>2. ASSUME NEW s \in Seconds, Consumed(s) PROVE FALSE
    BY <1>3, <2>2 DEF Consumed, LoggedIn
  <2>3. ASSUME NEW m \in Managers, Saved(m) PROVE UNCHANGED Codes!lvars
    <3>1. SameSeconds /\ SameManagers(Managers)
      BY <2>3 DEF Saved, Changed, SameSeconds, SameManagers, LoggedIn, Proved
    <3>2. UNCHANGED codes /\ EnabledNow' = EnabledNow
      BY <2>3 DEF Saved, EnabledNow
    <3> QED
      BY <1>t, <2>u, <3>1, <3>2, QuietLedger DEF Codes!lvars
  <2>4. ASSUME NEW m \in Managers, Enabled(m) \/ Rotated(m) PROVE Codes!Next
    <3>1. manage[m].at = "read"
      BY <2>4 DEF Enabled, Rotated, Changed
    <3> QED
      BY <2>4, <2>u, <3>1, GiveRefines DEF Codes!Next
  <2>5. ASSUME NEW m \in Managers, Disabled(m) PROVE Codes!Next \/ UNCHANGED Codes!lvars
    <3>1. EnabledNow' = NoId /\ codes' = {}
      BY <2>5, SMT DEF Disabled, NoSetting, EnabledNow
    <3>2. CodesTaken' = CodesTaken /\ SessionOf' = SessionOf
      BY <1>t, <2>5, QuietLedger DEF Disabled
    <3>3. CASE EnabledNow # NoId
      BY <2>u, <3>1, <3>2, <3>3, Zenon DEF Codes!Disable, Codes!Next
    <3>4. CASE EnabledNow = NoId
      <4>1. codes = {}
        BY <3>4 DEF EnabledNow, IInv, Ledger, CodesAreCurrent, Known, KnownSetting
      <4> QED
        BY <2>u, <3>1, <3>2, <3>4, <4>1 DEF Codes!lvars
    <3> QED
      BY <3>3, <3>4
  <2> QED
    BY <2>1, <2>2, <2>3, <2>4, <2>5, <1>t, StepKinds
<1> QED
  BY <1>1, <1>2, <1>3

\* Two-factor authentication implements the ledger of codes: whatever requests
\* overlap, whichever transactions fail and whether they share locks or not, each
\* code and each challenge is good once, for the configuration that is enabled.
THEOREM LedgerCorrect == Spec => ImplementsCodes
<1>1. Init => Codes!Init
  <2> SUFFICES ASSUME Init PROVE Codes!Init
    OBVIOUS
  <2>1. (EnabledNow = NoId /\ codes = {}) \/ (EnabledNow = Original /\ codes = CodeSet(Original))
    BY SMT DEF Init, EnabledNow, NoSetting
  <2>2. /\ \A s \in Seconds : ~LoggedIn(s)
        /\ \A m \in Managers : ~Proved(m)
        /\ \A l \in Logins : row[l] # "open" /\ login[l].at # "asked"
    BY Zenon DEF Init, LoggedIn, Proved, NoAsk, NoSecond, NoManage
  <2>3. CodesTaken = {}
    BY <2>2, TakenIs
  <2>4. OpenRows = {}
    BY <2>2 DEF OpenRows
  <2>5. AskedFor = [l \in Logins |-> NoId] /\ SessionOf = [s \in Seconds |-> NoLogin]
    BY <2>2, Zenon DEF AskedFor, SessionOf
  <2> QED
    BY <2>1, <2>3, <2>4, <2>5, Zenon DEF Codes!Init, Codes!CodeSet, CodeSet
<1>2. Spec => []Bounds
  BY BoundsInit, BoundsStep, Inductive, PTL DEF Spec, IInv
<1> QED
  BY <1>1, <1>2, CodesStep, Inductive, PTL DEF Spec, ImplementsCodes, Codes!Spec
=============================================================================
