------------------------------ MODULE TwoFactor ------------------------------
(***************************************************************************)
(* Two-factor authentication of one user: the login in two requests        *)
(* (handleLogin, handleLoginTwoFactor), the management requests (setup,    *)
(* enable, recovery codes, disable; router_2fa.go), and the tables         *)
(* user_two_factor, two_factor_recovery_codes and login_challenges         *)
(* (store.go).                                                             *)
(*                                                                         *)
(* Grain.  A request reads the state, checks a code against what it has    *)
(* read, and then executes one statement or transaction that compares and  *)
(* sets; these are two steps, and any other request may come between them. *)
(* A request that is refused before its transaction has no effect here and *)
(* is left out; one that dies in between takes no further step.  Every      *)
(* transaction may also fail and be rolled back: the request is refused.   *)
(*                                                                         *)
(* Names.  A configuration is named by the setup request that makes it, a  *)
(* set of recovery codes by the request that makes it, a challenge by its  *)
(* login request: all three identifiers are random and never used again.   *)
(* A TOTP code is the pair of its configuration and counter: that six      *)
(* digits agree by chance is not modelled.  Time counts periods of TOTP; a  *)
(* request uses the time that it has read at its start.                    *)
(***************************************************************************)
EXTENDS Integers, FiniteSets

CONSTANTS
    Logins,         \* requests to /api/login with the right password
    Seconds,        \* requests to /api/login/2fa
    Managers,       \* requests to /api/security/2fa/...
    Original,       \* the configuration, and its codes, that exist at first
    NoId, NoLogin,
    CodesPerSet,    \* 10 in GenerateRecoveryCodes
    ChallengeLife, SetupLife,
    OneServer,      \* do management requests share the locks of one process?
    MaxTime         \* bound

ASSUME TwoFactorAssumption ==
    /\ Original \notin Managers /\ NoId \notin Managers \union {Original}
    /\ NoLogin \notin Logins
    /\ CodesPerSet \in Nat /\ ChallengeLife \in Nat /\ SetupLife \in Nat
    /\ OneServer \in BOOLEAN /\ MaxTime \in Nat

Ids == Managers \union {Original}

VARIABLES
    now,
    setting,        \* the user's row of user_two_factor
    codes,          \* recovery codes that are not used
    row,            \* rows of login_challenges
    login, second, manage   \* the requests

vars == <<now, setting, codes, row, login, second, manage>>

\* last is -1 if no code was accepted yet, or only codes from before the start.
NoSetting == [cfg |-> NoId, on |-> FALSE, expires |-> 0, last |-> -1]

Totp(cfg, n) == [t |-> "totp", of |-> cfg, n |-> n]
CodeSet(m) == [t : {"recovery"}, of : {m}, n : 1..CodesPerSet]
\* A request that has read nothing yet, or that has ended without effect.
NoAsk(at) == [at |-> at, cfg |-> NoId, exp |-> 0]
NoSecond(at) == [at |-> at, of |-> NoLogin, code |-> Totp(NoId, 0), t |-> 0]
NoManage(at) == [at |-> at, kind |-> "none", cfg |-> NoId, n |-> 0, t |-> 0]

\* A request that has ended with a change needs its time no more.
Done(r, result) == [r EXCEPT !.at = result, !.t = 0]

Init ==
    /\ now = 0
    /\ \/ setting = NoSetting /\ codes = {}
       \/ /\ setting = [cfg |-> Original, on |-> FALSE, expires |-> SetupLife, last |-> -1]
          /\ codes = {}
       \/ /\ setting = [cfg |-> Original, on |-> TRUE, expires |-> 0, last |-> -1]
          /\ codes = CodeSet(Original)
    /\ row = [l \in Logins |-> "none"]
    /\ login = [l \in Logins |-> NoAsk("idle")]
    /\ second = [s \in Seconds |-> NoSecond("idle")]
    /\ manage = [m \in Managers |-> NoManage("idle")]

Tick == /\ now < MaxTime
        /\ now' = now + 1
        /\ UNCHANGED <<setting, codes, row, login, second, manage>>

\* Slip: the counter below zero is tried, too.
WindowBelow(t) == t-1 .. t+1

\* MatchTOTP tries the counters around the time t.
Window(t) == {n \in t-1 .. t+1 : n >= 0}

-----------------------------------------------------------------------------
(* Login *)

\* handleLogin: without two-factor authentication the user is logged in.
LoginReads(l) ==
    /\ login[l].at = "idle"
    /\ login' = [login EXCEPT ![l] = IF setting.on
                                     THEN [at |-> "read", cfg |-> setting.cfg,
                                           exp |-> now + ChallengeLife]
                                     ELSE NoAsk("in")]
    /\ UNCHANGED <<now, setting, codes, row, second, manage>>

\* Slip: the user's other challenges are kept.
RowsKept(l) == [row EXCEPT ![l] = "open"]

\* CreateLoginChallenge deletes what has expired and the user's open challenges.
RowsWith(l) ==
    LET created == login[l].exp - ChallengeLife
        deleted == {k \in Logins : row[k] = "open" \/ login[k].exp < created}
    IN [k \in Logins |-> IF k = l THEN "open" ELSE IF k \in deleted THEN "none" ELSE row[k]]

\* The challenge is issued and stored, and its token given to the client.
LoginAsks(l) ==
    /\ login[l].at = "read"
    /\ \/ login' = [login EXCEPT ![l].at = "asked"] /\ row' = RowsWith(l)
       \/ login' = [login EXCEPT ![l] = NoAsk("failed")] /\ UNCHANGED row
    /\ UNCHANGED <<now, setting, codes, second, manage>>

\* The recovery codes that were ever given to the user.
Given == UNION {CodeSet(m) : m \in {Original} \union
                    {k \in Managers : manage[k].at = "ok" /\ manage[k].kind \in {"enable", "rotate"}}}

\* handleLoginTwoFactor, up to its transaction: the token is valid, its
\* configuration is enabled, and the code matches it if it is a TOTP code.  A
\* recovery code is not looked up yet.  A token may be sent any number of times.
SecondVerifies(s, l, c) ==
    /\ second[s].at = "idle"
    /\ login[l].at = "asked" /\ now <= login[l].exp
    /\ setting.on /\ setting.cfg = login[l].cfg
    /\ \/ c.t = "totp" /\ c.of = setting.cfg /\ c.n \in Window(now)
       \/ c \in Given
    /\ second' = [second EXCEPT ![s] = [at |-> "verified", of |-> l, code |-> c, t |-> now]]
    /\ UNCHANGED <<now, setting, codes, row, login, manage>>

\* Slip: a counter may be used again.
UnusedOrEqual(c) == IF c.t = "totp" THEN setting.last <= c.n ELSE c \in codes

\* A TOTP counter above the last one, a recovery code that is not used.
Unused(c) == IF c.t = "totp" THEN setting.last < c.n ELSE c \in codes

Current(cfg) == setting.on /\ setting.cfg = cfg

Spent(l) == [row EXCEPT ![l] = "spent"]

\* ConsumeLoginSecondFactor: the challenge, the configuration and the code, or
\* nothing at all.
SecondConsumes(s) ==
    LET r == second[s]
        l == r.of
    IN
    /\ r.at = "verified"
    /\ \/ /\ row[l] = "open" /\ login[l].exp >= r.t
          /\ Current(login[l].cfg)
          /\ Unused(r.code)
          /\ row' = Spent(l)
          /\ IF r.code.t = "totp"
             THEN setting' = [setting EXCEPT !.last = r.code.n] /\ UNCHANGED codes
             ELSE codes' = codes \ {r.code} /\ UNCHANGED setting
          /\ second' = [second EXCEPT ![s] = Done(@, "in")]
       \/ /\ second' = [second EXCEPT ![s] = NoSecond("refused")]
          /\ UNCHANGED <<row, setting, codes>>
    /\ UNCHANGED <<now, login, manage>>

-----------------------------------------------------------------------------
(* Management *)

\* The locks keep out other requests of the user between check and change;
\* setup gives them back before it reads.
Unlocked == OneServer => \A m \in Managers :
                            manage[m].at = "read" => manage[m].kind = "setup"

Reads(m, kind, cfg, n) ==
    /\ manage[m].at = "idle"
    /\ manage' = [manage EXCEPT ![m] = [at |-> "read", kind |-> kind, cfg |-> cfg,
                                        n |-> n, t |-> now]]
    /\ UNCHANGED <<now, setting, codes, row, login, second>>

Succeeds(m) ==
    /\ manage' = [manage EXCEPT ![m] = Done(@, "ok")]
    /\ UNCHANGED <<now, row, login, second>>

Refused(m) ==
    /\ manage' = [manage EXCEPT ![m] = NoManage("refused")]
    /\ UNCHANGED <<now, setting, codes, row, login, second>>

\* handleTwoFactorSetup: a new secret, unless a configuration is enabled ...
SetupReads(m) == ~setting.on /\ Reads(m, "setup", setting.cfg, 0)

\* Slip: an enabled configuration is replaced, too.
UnchangedOrOn(m) == setting.cfg = manage[m].cfg

Unchanged(m) == setting.cfg = manage[m].cfg /\ ~setting.on

\* ... that replaces the pending one which it has read: SavePendingTwoFactorIfUnchanged.
SetupSaves(m) ==
    /\ manage[m].at = "read" /\ manage[m].kind = "setup"
    /\ \/ /\ Unchanged(m)
          /\ setting' = [cfg |-> m, on |-> FALSE, last |-> -1,
                         expires |-> manage[m].t + SetupLife]
          /\ UNCHANGED codes
          /\ Succeeds(m)
       \/ Refused(m)

\* handleTwoFactorEnable: a code n of the pending secret proves that the user has it.
EnableReads(m, n) ==
    /\ Unlocked
    /\ setting.cfg # NoId /\ ~setting.on /\ setting.expires > now
    /\ n \in Window(now)
    /\ Reads(m, "enable", setting.cfg, n)

\* Slip: whatever is pending is enabled.
PendingAny(m) == setting.cfg # NoId /\ ~setting.on

Pending(m) == /\ setting.cfg = manage[m].cfg /\ ~setting.on
              /\ setting.expires > manage[m].t

\* Slip: the old codes remain beside the new ones.
CodesAdded(m) == codes \union CodeSet(m)

\* Recovery codes are replaced, all at once.
NewCodes(m) == CodeSet(m)

\* EnableTwoFactor
EnableCommits(m) ==
    /\ manage[m].at = "read" /\ manage[m].kind = "enable"
    /\ \/ /\ Pending(m)
          /\ setting' = [cfg |-> setting.cfg, on |-> TRUE, expires |-> 0, last |-> manage[m].n]
          /\ codes' = NewCodes(m)
          /\ Succeeds(m)
       \/ Refused(m)

\* handleTwoFactorRecoveryCodes: a code n of the enabled secret ...
RotateReads(m, n) ==
    /\ Unlocked
    /\ setting.on
    /\ n \in Window(now)
    /\ Reads(m, "rotate", setting.cfg, n)

\* ... whose counter is used up by the replacement: ReplaceRecoveryCodesAfterTOTP.
RotateCommits(m) ==
    /\ manage[m].at = "read" /\ manage[m].kind = "rotate"
    /\ \/ /\ Current(manage[m].cfg)
          /\ Unused(Totp(manage[m].cfg, manage[m].n))
          /\ setting' = [setting EXCEPT !.last = manage[m].n]
          /\ codes' = NewCodes(m)
          /\ Succeeds(m)
       \/ Refused(m)

\* handleTwoFactorDisable reads nothing but the password; DisableTwoFactor
\* deletes the enabled configuration with its codes.
Disable(m) ==
    /\ manage[m].at = "idle"
    /\ Unlocked
    /\ setting.on
    /\ setting' = NoSetting
    /\ codes' = {}
    /\ manage' = [manage EXCEPT ![m] = [NoManage("ok") EXCEPT !.kind = "disable"]]
    /\ UNCHANGED <<now, row, login, second>>

-----------------------------------------------------------------------------
Next ==
    \/ Tick
    \/ \E l \in Logins : LoginReads(l) \/ LoginAsks(l)
    \/ \E s \in Seconds : \/ \E l \in Logins :
                               \/ \E n \in Window(now) : SecondVerifies(s, l, Totp(setting.cfg, n))
                               \/ \E c \in Given : SecondVerifies(s, l, c)
                          \/ SecondConsumes(s)
    \/ \E m \in Managers :
          \/ SetupReads(m) \/ SetupSaves(m)
          \/ \E n \in Window(now) : EnableReads(m, n) \/ RotateReads(m, n)
          \/ EnableCommits(m) \/ RotateCommits(m) \/ Disable(m)

Spec == Init /\ [][Next]_vars

-----------------------------------------------------------------------------
(* Properties *)

\* Types of the state: every counter that is used is a natural number.
TypeOK ==
    /\ now \in Nat
    /\ setting \in [cfg : Ids \union {NoId}, on : BOOLEAN, expires : Nat, last : Int]
    /\ codes \subseteq UNION {CodeSet(m) : m \in Ids}
    /\ row \in [Logins -> {"none", "open", "spent"}]
    /\ login \in [Logins -> [at : {"idle", "read", "asked", "failed", "in"},
                             cfg : Ids \union {NoId}, exp : Nat]]
    /\ second \in [Seconds -> [at : {"idle", "verified", "in", "refused"},
                               of : Logins \union {NoLogin},
                               code : [t : {"totp", "recovery"}, of : Ids \union {NoId}, n : Nat],
                               t : Nat]]
    /\ manage \in [Managers -> [at : {"idle", "read", "ok", "refused"},
                                kind : {"none", "setup", "enable", "rotate", "disable"},
                                cfg : Ids \union {NoId}, n : Nat, t : Nat]]

LoggedIn(s) == second[s].at = "in"

\* A TOTP code was accepted from this management request.
Proved(m) == manage[m].at = "ok" /\ manage[m].kind \in {"enable", "rotate"}

Proof(m) == Totp(manage[m].cfg, manage[m].n)

\* However often a token of handleLogin is sent to handleLoginTwoFactor, by
\* however many requests at once, it makes one session.
OneSessionPerChallenge ==
    \A s, u \in Seconds : LoggedIn(s) /\ LoggedIn(u) /\ second[s].of = second[u].of => s = u

\* No code is accepted twice: a recovery code by two logins, or a TOTP code by
\* two of login, enable and rotation, in whatever order their reads and
\* transactions come and across configurations.
CodeOnce ==
    /\ \A s, u \in Seconds : LoggedIn(s) /\ LoggedIn(u) /\ second[s].code = second[u].code => s = u
    /\ \A m, k \in Managers : Proved(m) /\ Proved(k) /\ Proof(m) = Proof(k) => m = k
    /\ \A s \in Seconds, m \in Managers : LoggedIn(s) /\ Proved(m) => second[s].code # Proof(m)

\* The counters of a configuration that were accepted.
Accepted(cfg) ==
    {second[s].code.n : s \in {u \in Seconds : LoggedIn(u) /\ second[u].code.t = "totp"
                                              /\ second[u].code.of = cfg}}
    \union {manage[m].n : m \in {k \in Managers : Proved(k) /\ manage[k].cfg = cfg}}

\* last_totp_counter is the greatest counter accepted for this configuration: a
\* request that checked its code against a configuration that is gone never
\* moves the counter of the one that took its place.
LastIsGreatest ==
    /\ \A n \in Accepted(setting.cfg) : n <= setting.last
    /\ setting.last = -1 \/ setting.last \in Accepted(setting.cfg)

\* The codes in the table are of one set, were given to the user, and are the
\* codes of the enabled configuration: neither rotation nor disable leaves one.
CodesAreCurrent ==
    \A c, d \in codes : /\ setting.on /\ c.of = d.of
                       /\ IF c.of = Original THEN setting.cfg = Original
                          ELSE Proved(c.of) /\ manage[c.of].cfg = setting.cfg

\* A configuration is enabled only by a code of its own secret: a setup request
\* between the check and the transaction of handleTwoFactorEnable never has
\* its secret enabled unproved.
EnabledIsProved ==
    setting.on => \/ setting.cfg = Original
                  \/ \E m \in Managers : Proved(m) /\ manage[m].kind = "enable"
                                         /\ manage[m].cfg = setting.cfg

\* No request but disable ends or exchanges an enabled configuration, whatever
\* a setup request has read before it was enabled.
OnlyDisableTurnsOff ==
    [][setting.on /\ ~(setting'.on /\ setting'.cfg = setting.cfg)
       => \E m \in Managers : manage'[m].kind = "disable" /\ manage[m].at = "idle"]_vars

\* A login voids the challenges before it: one at most can be consumed.
OneOpenChallenge ==
    \A k, l \in Logins : row[k] = "open" /\ row[l] = "open" => k = l

\* The codes that were taken, by logins and by management requests.
CodesTaken == {second[s].code : s \in {u \in Seconds : LoggedIn(u)}}
              \union {Proof(m) : m \in {k \in Managers : Proved(k)}}

\* The rest of the ledger's state.
EnabledNow == IF setting.on THEN setting.cfg ELSE NoId
OpenRows == {l \in Logins : row[l] = "open"}
AskedFor == [l \in Logins |-> IF login[l].at = "asked" THEN login[l].cfg ELSE NoId]
SessionOf == [s \in Seconds |-> IF LoggedIn(s) THEN second[s].of ELSE NoLogin]

Codes == INSTANCE CodeLedger WITH
    Counters <- 0..MaxTime + 1, enabled <- EnabledNow, fresh <- codes, taken <- CodesTaken,
    open <- OpenRows, asked <- AskedFor, session <- SessionOf

\* Logins, second factors and management requests together implement the ledger
\* of codes, however their reads and transactions overlap.
ImplementsCodes == Codes!Spec

=============================================================================
