--------------------------- MODULE OperatorSignIn ---------------------------
(***************************************************************************)
(* The operators of the gateway's Web UI and how they sign in              *)
(* (internal/gateway/operators.go, the login handlers and the limiter of   *)
(* web.go): name and password open a short session of the password stage,  *)
(* a code of the authenticator turns it into an active one.  An operator   *)
(* without an authenticator enrols one on the way.  Several requests are   *)
(* served at a time; each statement on the database, and each use of the   *)
(* limiter under its mutex, is one step.                                   *)
(*                                                                         *)
(* One unit of time is one step of the codes (totpPeriod).  A code is the  *)
(* key it was made from and its step, so codes of two keys never happen to *)
(* be equal.  Origin and form tokens of the browser are left out.          *)
(***************************************************************************)
EXTENDS Naturals, FiniteSets, Sequences

CONSTANTS
  Accounts,         \* names of operators
  Addresses,        \* client addresses
  Visits,           \* bound: requests at the same time
  PasswordChecks,   \* capacity of passwordChecks
  AccountFailures,  \* accountFailures
  AddressFailures,  \* addressFailures
  LoginWindow,      \* loginWindow
  PasswordTTL,      \* passwordStageTTL
  SessionTTL,       \* sessionTTL
  SessionIdle,      \* sessionIdle
  MaxSessions,      \* bound: sessions ever opened
  MaxKeys,          \* bound: authenticator keys ever minted
  MaxAttempts,      \* bound: attempts that count or are under way at a time
  Near,             \* bound: codes entered are of the step before (0), of this (1) or
                    \* of the next step (2)
  LastStep          \* bound: the clock stops here

ASSUME SignInAssumption ==
    /\ PasswordTTL \in Nat /\ SessionTTL \in Nat /\ MaxAttempts \in Nat
    /\ LastStep \in Nat \ {0} /\ Near \subseteq 0..2

VARIABLES
  operator,  \* operators: status, authenticator key, last step used
  session,   \* web_sessions, in the order of their creation; its history: the
             \* keys its pages have shown
  counted,   \* loginLimiter.failures: the attempts counted for each key
  visit,     \* each request in progress
  keys,      \* keys minted so far
  clock,
  entered    \* history: how often each code of an operator was accepted

signVars == <<operator, session, counted, visit, keys, clock, entered>>

NoKey == 0
Ended == [stage |-> "ended"]
NoVisit == [pc |-> "none"]

SignInInit ==
    /\ operator = [a \in Accounts |-> [status |-> "unknown", key |-> NoKey, last |-> 0]]
    /\ session = <<>>
    /\ counted = [k \in Accounts \union Addresses |-> {}]
    /\ visit = [v \in Visits |-> NoVisit]
    /\ keys = 0 /\ clock = 1
    /\ entered = [a \in Accounts |-> [t \in 0..LastStep + 1 |-> 0]]

Turn(v, r) == visit' = [visit EXCEPT ![v] = r]
GoOn(v, pc) == Turn(v, [visit[v] EXCEPT !.pc = pc])
Return(v) == Turn(v, NoVisit)

-----------------------------------------------------------------------------
(* Sessions. *)

SessionRow(a, stage, at) ==
    [owner |-> a, stage |-> stage, pending |-> NoKey, shown |-> {}, seen |-> at,
     expires |-> at + IF stage = "active" THEN SessionTTL ELSE PasswordTTL]

\* What sweepSessions leaves of the rows.
Swept(rows, at) ==
    [s \in DOMAIN rows |->
        IF rows[s] # Ended /\ rows[s].expires <= at THEN Ended ELSE rows[s]]

Deleted(s) == [session EXCEPT ![s] = Ended]

\* lookupSession serves a row that is neither expired nor idle, of an
\* operator who is active now.
Live(s) ==
    /\ session[s] # Ended
    /\ clock < session[s].expires
    /\ clock - session[s].seen <= SessionIdle
    /\ operator[session[s].owner].status = "active"

Enrolled(s) == operator[session[s].owner].key # NoKey

\* withSession refreshes the idle timer of a session it serves.
Refreshed(s) == session' = [session EXCEPT ![s].seen = clock]

\* Every other page, GET /login included, only refreshes its session.
OtherPage(s) ==
    /\ Live(s) /\ session[s].seen # clock
    /\ Refreshed(s)
    /\ UNCHANGED <<operator, counted, visit, keys, clock, entered>>

\* A lookup deletes the row of a dead session, POST /logout that of a live
\* one.
DropSession(s) ==
    /\ session[s] # Ended
    /\ session' = Deleted(s)
    /\ UNCHANGED <<operator, counted, visit, keys, clock, entered>>

-----------------------------------------------------------------------------
(* The limiter.  Its entries are instants; two attempts are taken to begin *)
(* at different ones, so each entry is the attempt it counts.              *)

Young(e) == clock - e.at < LoginWindow
Recent(k) == {e \in counted[k] : Young(e)}

BelowLimits(a, d) ==
    /\ Cardinality(Recent(a)) < AccountFailures
    /\ Cardinality(Recent(d)) < AddressFailures

InUse == {visit[v].id : v \in {w \in Visits : visit[w] # NoVisit}}
            \union {e.id : e \in UNION {Recent(k) : k \in DOMAIN counted}}
Free == 1..MaxAttempts \ InUse

\* loginLimiter.begin: checks and counts in one step.
Begin(v, r) ==
    /\ BelowLimits(r.a, r.d)
    /\ Free # {}
    /\ LET i == CHOOSE x \in Free : \A y \in Free : x <= y
           e == [id |-> i, at |-> clock] IN
       /\ counted' = [counted EXCEPT ![r.a] = Recent(r.a) \union {e},
                                     ![r.d] = Recent(r.d) \union {e}]
       /\ Turn(v, [r EXCEPT !.id = i, !.at = clock])

Entry(r) == [id |-> r.id, at |-> r.at]
TakenBack(r) == counted' = [counted EXCEPT ![r.a] = @ \ {Entry(r)}, ![r.d] = @ \ {Entry(r)}]

\* A completed sign-in also clears what the account has counted.
Cleared(r) == counted' = [counted EXCEPT ![r.a] = {}, ![r.d] = @ \ {Entry(r)}]

-----------------------------------------------------------------------------
(* POST /login. *)

Checking == {v \in Visits : visit[v].pc = "check"}

\* The name and the password as typed; right says whether the password is
\* the operator's.
Login(v, a, d, right) ==
    /\ visit[v] = NoVisit
    /\ Begin(v, [pc |-> "wait", a |-> a, d |-> d, right |-> right, id |-> 0, at |-> 0])
    /\ UNCHANGED <<operator, session, keys, clock, entered>>

\* checkOperatorPassword gets one of the slots and reads the operator.
ReadOperator(v) ==
    /\ visit[v].pc = "wait"
    /\ Cardinality(Checking) < PasswordChecks
    /\ Turn(v, [visit[v] EXCEPT !.pc = "check",
                  !.right = @ /\ operator[visit[v].a].status = "active"])
    /\ UNCHANGED <<operator, session, counted, keys, clock, entered>>

\* No slot within passwordWait: the attempt is no failure.
Busy(v) ==
    /\ visit[v].pc = "wait"
    /\ Cardinality(Checking) = PasswordChecks
    /\ TakenBack(visit[v]) /\ Return(v)
    /\ UNCHANGED <<operator, session, keys, clock, entered>>

PasswordWrong(v) ==
    /\ visit[v].pc = "check" /\ ~visit[v].right
    /\ Return(v)
    /\ UNCHANGED <<operator, session, counted, keys, clock, entered>>

PasswordRight(v) ==
    /\ visit[v].pc = "check" /\ visit[v].right
    /\ Len(session) < MaxSessions
    /\ TakenBack(visit[v])
    /\ session' = Append(session, SessionRow(visit[v].a, "password", visit[v].at))
    /\ Return(v)
    /\ UNCHANGED <<operator, keys, clock, entered>>

-----------------------------------------------------------------------------
(* GET and POST /login/totp.  What the session said of its operator when   *)
(* it was looked up, whether they have enrolled, is what the handler goes  *)
(* by.                                                                     *)

CodePage(v, s, pc) ==
    [pc |-> pc, a |-> session[s].owner, d |-> "none", s |-> s, id |-> 0, at |-> clock,
     enrolled |-> Enrolled(s), k |-> NoKey, t |-> 0, own |-> NoKey]

\* The page needs a key only while the operator has none.
OpenPage(v, s) ==
    /\ visit[v] = NoVisit
    /\ Live(s) /\ session[s].stage = "password" /\ ~Enrolled(s)
    /\ Refreshed(s)
    /\ Turn(v, CodePage(v, s, "pending"))
    /\ UNCHANGED <<operator, counted, keys, clock, entered>>

\* The codes that someone may enter: those of any key for a step near now.
Codes == {[k |-> k, t |-> clock + n - 1] : k \in 1..keys, n \in Near}

\* A posted code is counted; one refused for the limits gets the page.
PostCode(v, s, c, d) ==
    /\ visit[v] = NoVisit
    /\ Live(s) /\ session[s].stage = "password"
    /\ Refreshed(s)
    /\ LET r == CodePage(v, s, IF Enrolled(s) THEN "secret" ELSE "pending") IN
       \/ Begin(v, [r EXCEPT !.d = d, !.k = c.k, !.t = c.t])
       \/ /\ ~BelowLimits(r.a, d)
          /\ IF Enrolled(s) THEN UNCHANGED visit ELSE Turn(v, r)
          /\ UNCHANGED counted
    /\ UNCHANGED <<operator, keys, clock, entered>>

\* A page shows the key of its session, a posted code is matched with it.
UseKey(v, key) ==
    IF visit[v].id = 0
    THEN /\ session' = [session EXCEPT ![visit[v].s].pending = key,
                                      ![visit[v].s].shown = @ \union {key}]
         /\ Return(v)
    ELSE /\ session' = [session EXCEPT ![visit[v].s].pending = key]
         /\ Turn(v, [visit[v] EXCEPT !.pc = "enroll", !.own = key])

\* pendingTOTP reads the key the session enrols.
Pending(v) ==
    /\ visit[v].pc = "pending"
    /\ LET s == visit[v].s IN
       \/ /\ session[s] = Ended
          /\ Return(v) /\ UNCHANGED session
       \/ /\ session[s] # Ended /\ session[s].pending = NoKey
          /\ GoOn(v, "mint") /\ UNCHANGED session
       \/ /\ session[s] # Ended /\ session[s].pending # NoKey
          /\ UseKey(v, session[s].pending)
    /\ UNCHANGED <<operator, counted, keys, clock, entered>>

\* It keeps a fresh key unless another request has kept one: then it reads
\* that one.
Vacant(s) == session[s] # Ended /\ session[s].pending = NoKey

Mint(v) ==
    /\ visit[v].pc = "mint" /\ keys < MaxKeys
    /\ IF Vacant(visit[v].s)
       THEN keys' = keys + 1 /\ UseKey(v, keys')
       ELSE GoOn(v, "pending") /\ UNCHANGED <<session, keys>>
    /\ UNCHANGED <<operator, counted, clock, entered>>

\* matchTOTP: one step of drift either way of the instant the request came.
Matches(key, r) == r.k = key /\ r.t <= r.at + 1 /\ r.t + 1 >= r.at

\* A code that fails ends the request with the page, which shows the key
\* again while the session says the operator has none.
CodeFails(v) ==
    IF visit[v].enrolled THEN Return(v) ELSE Turn(v, [visit[v] EXCEPT !.pc = "pending", !.id = 0])

\* checkTOTP reads the key of an active operator and matches the code.
ReadSecret(v) ==
    /\ visit[v].pc = "secret"
    /\ LET a == visit[v].a IN
       IF operator[a].status = "active" /\ Matches(operator[a].key, visit[v])
       THEN GoOn(v, "record")
       ELSE CodeFails(v)
    /\ UNCHANGED <<operator, session, counted, keys, clock, entered>>

RecordableAgain(v) == operator[visit[v].a].last <= visit[v].t

Accept(v) ==
    /\ Turn(v, [visit[v] EXCEPT !.pc = "passed", !.k = NoKey, !.t = 0, !.own = NoKey])
    /\ entered' = [entered EXCEPT ![visit[v].a][visit[v].t] = @ + 1]

\* Recording the step succeeds only after every step recorded before.
Recordable(v) == operator[visit[v].a].last < visit[v].t

RecordStep(v) ==
    /\ visit[v].pc = "record"
    /\ IF Recordable(v)
       THEN /\ operator' = [operator EXCEPT ![visit[v].a].last = visit[v].t]
            /\ Accept(v)
       ELSE /\ CodeFails(v)
            /\ UNCHANGED <<operator, entered>>
    /\ UNCHANGED <<session, counted, keys, clock>>

\* enrollTOTP: the code is of the session's key, and the operator is active
\* and has none yet.
Enroll(v) ==
    /\ visit[v].pc = "enroll"
    /\ LET a == visit[v].a IN
       IF /\ Matches(visit[v].own, visit[v])
          /\ operator[a].key = NoKey /\ operator[a].status = "active"
       THEN /\ operator' = [operator EXCEPT ![a].key = visit[v].own, ![a].last = visit[v].t]
            /\ Accept(v)
       ELSE /\ CodeFails(v)
            /\ UNCHANGED <<operator, entered>>
    /\ UNCHANGED <<session, counted, keys, clock>>

\* The password session is deleted, which may fail unnoticed, and then an
\* active one is inserted and the expired rows are swept.
EndPasswordSession(v) ==
    /\ visit[v].pc = "passed"
    /\ Cleared(visit[v])
    /\ session' = Deleted(visit[v].s) \/ UNCHANGED session
    /\ GoOn(v, "open")
    /\ UNCHANGED <<operator, keys, clock, entered>>

OpenActiveSession(v) ==
    /\ visit[v].pc = "open"
    /\ Len(session) < MaxSessions
    /\ session' = Swept(Append(session, SessionRow(visit[v].a, "active", visit[v].at)), visit[v].at)
    /\ Return(v)
    /\ UNCHANGED <<operator, counted, keys, clock, entered>>

-----------------------------------------------------------------------------
(* agentssh-gateway operator add and revoke, the clock, and what fails. *)

AddOperator(a) ==
    /\ operator[a].status = "unknown"
    /\ operator' = [operator EXCEPT ![a].status = "active"]
    /\ UNCHANGED <<session, counted, visit, keys, clock, entered>>

RevokeOperator(a) ==
    /\ operator[a].status = "active"
    /\ operator' = [operator EXCEPT ![a].status = "revoked"]
    /\ session' = [s \in DOMAIN session |->
                     IF session[s] # Ended /\ session[s].owner = a THEN Ended ELSE session[s]]
    /\ UNCHANGED <<counted, visit, keys, clock, entered>>

StepPasses ==
    /\ clock < LastStep /\ clock' = clock + 1
    /\ UNCHANGED <<operator, session, counted, visit, keys, entered>>

\* A statement fails.  While a code is checked this is answered like a wrong
\* one.
StatementFails(v) ==
    /\ visit[v].pc \in {"check", "pending", "mint", "secret", "record", "enroll", "open"}
    /\ IF \/ visit[v].pc \in {"secret", "record", "enroll"}
          \/ visit[v].pc \in {"pending", "mint"} /\ visit[v].id # 0
       THEN CodeFails(v) ELSE Return(v)
    /\ UNCHANGED <<operator, session, counted, keys, clock, entered>>

\* The limiter lives in the memory of the gateway, and so do the requests.
Restart ==
    /\ visit' = [v \in Visits |-> NoVisit]
    /\ counted' = [k \in Accounts \union Addresses |-> {}]
    /\ UNCHANGED <<operator, session, keys, clock, entered>>

LoginStep(v) ==
    \/ \E a \in Accounts, d \in Addresses, right \in BOOLEAN : Login(v, a, d, right)
    \/ ReadOperator(v) \/ Busy(v) \/ PasswordWrong(v) \/ PasswordRight(v)

CodeStep(v) ==
    \/ \E s \in DOMAIN session : OpenPage(v, s)
    \/ \E s \in DOMAIN session, c \in Codes, d \in Addresses : PostCode(v, s, c, d)
    \/ Pending(v) \/ Mint(v) \/ ReadSecret(v) \/ RecordStep(v) \/ Enroll(v)
    \/ EndPasswordSession(v) \/ OpenActiveSession(v)

SignInNext ==
    \/ \E v \in Visits : LoginStep(v) \/ CodeStep(v) \/ StatementFails(v)
    \/ \E s \in DOMAIN session : OtherPage(s) \/ DropSession(s)
    \/ \E a \in Accounts : AddOperator(a) \/ RevokeOperator(a)
    \/ StepPasses \/ Restart

SignInSpec == SignInInit /\ [][SignInNext]_signVars

-----------------------------------------------------------------------------
(* Properties. *)

\* A code signs in once: "a code is accepted once [...] which also settles
\* two sign-ins racing with one code" (operators.go, checkTOTP).  It holds for
\* the code that enrolled the operator, too.
CodeSignsInOnce == \A a \in Accounts : \A t \in DOMAIN entered[a] : entered[a][t] <= 1

\* Every page of a session shows one key, and a session that enrols its
\* operator does so with the key its pages showed: two tabs that ask for a
\* key at once do not leave the authenticator with another key than the
\* account (operators.go, pendingTOTP).
OneKeyShown ==
    \A s \in DOMAIN session : session[s] # Ended =>
        /\ Cardinality(session[s].shown) <= 1
        /\ \A v \in Visits : visit[v].pc = "enroll" /\ visit[v].s = s
                              => session[s].shown \subseteq {visit[v].own}

\* The second factor is worth its name: no code opens a second session, and
\* the key an account is left with is the one its operator was shown
\* (operators.go, checkTOTP and pendingTOTP).
SecondFactorHolds == CodeSignsInOnce /\ OneKeyShown
=============================================================================
