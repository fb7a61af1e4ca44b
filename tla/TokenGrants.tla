------------------------------ MODULE TokenGrants ------------------------------
(***************************************************************************)
(* OAuth for MCP clients: internal/gateway/oauth.go and the admission of   *)
(* bearer tokens in tokens.go.  An operator's consent binds a client to a  *)
(* token device as a grant with a code; a code, and then each refresh      *)
(* token, is exchanged once for an access token and the next refresh       *)
(* token.  The token endpoint, the MCP endpoint, the Web UI and the CLI    *)
(* share the database: an action is one read of a row, one transaction, or *)
(* the answer of a call, which keeps what it read and its clock between.   *)
(*                                                                         *)
(* Whoever holds a token can present it, with the right client and, for a  *)
(* code, its verifier; other requests are refused and change nothing.      *)
(***************************************************************************)
EXTENDS Naturals

CONSTANTS
  Devices,          \* token devices
  Grants,           \* bound: the grants ever made
  NoGrant,
  Calls,            \* bound: calls at the same time
  Durations,        \* lengths of activation windows
  CodeLifetime,     \* codeLifetime
  AccessLifetime,   \* accessLifetime
  RefreshLifetime,  \* refreshLifetime
  MaxTokens,        \* bound: rows of oauth_tokens ever inserted
  MaxTime,          \* bound: the clock stops here
  MaxFailures       \* bound: how many calls end in the middle

ASSUME BoundsAssumption ==
  /\ NoGrant \notin Grants /\ "none" \notin Devices
  /\ Durations \subseteq Nat \ {0}
  /\ CodeLifetime \in Nat /\ AccessLifetime \in Nat /\ RefreshLifetime \in Nat
  /\ MaxTokens \in Nat /\ MaxTime \in Nat /\ MaxFailures \in Nat

VARIABLES
  revoked,   \* devices whose status is revoked
  until,     \* the end of each device's activation window
  grant,     \* oauth_grants
  token,     \* oauth_tokens
  outbox,    \* grants whose revocation is a fact for the audit log
  call,      \* each call in progress
  inserted,  \* rows of oauth_tokens inserted so far
  held,      \* tokens that some answer has handed out
  now,
  failures,
  redeemed,  \* history: how often each token was exchanged
  caught     \* history: grants of which a finished call read a used token

tables == <<revoked, until, grant, token, outbox, inserted>>
bounds == <<now, failures>>
ghosts == <<redeemed, caught>>
vars   == <<tables, call, held, bounds, ghosts>>

Ids == 1..MaxTokens

\* A grant that was never made has no device.
Unmade == [device |-> "none", revoked |-> FALSE]

\* A row; of kind "none" when it was never inserted or is deleted.
NoToken == [kind |-> "none", grant |-> NoGrant, expires |-> 0, used |-> FALSE]

Row(kind, g, expires) == [kind |-> kind, grant |-> g, expires |-> expires, used |-> FALSE]

\* A call: its step, the device of a consent, the token presented with its
\* row as it was read, the clock it began with, the end of the window it
\* found, the tokens to answer, whether its body is still to come, and
\* whether its grant or device was revoked when the body had arrived.
Idle == [pc |-> "idle", device |-> "none", id |-> 0, row |-> NoToken, at |-> 0,
         until |-> 0, answer |-> {}, body |-> FALSE, late |-> FALSE]

Init ==
  /\ revoked = {} /\ until = [d \in Devices |-> 0]
  /\ grant = [g \in Grants |-> Unmade]
  /\ token = [i \in Ids |-> NoToken] /\ inserted = 0
  /\ outbox = {} /\ held = {}
  /\ call = [c \in Calls |-> Idle]
  /\ now = 1 /\ failures = 0
  /\ redeemed = [i \in Ids |-> 0] /\ caught = {}

-----------------------------------------------------------------------------
(* Operators *)

Activate(d, length) ==
  /\ d \notin revoked /\ now + length <= MaxTime
  /\ until' = [until EXCEPT ![d] = now + length]
  /\ UNCHANGED <<revoked, grant, token, outbox, inserted, call, held, bounds, ghosts>>

Deactivate(d) ==
  /\ now < until[d]
  /\ until' = [until EXCEPT ![d] = now]
  /\ UNCHANGED <<revoked, grant, token, outbox, inserted, call, held, bounds, ghosts>>

RevokeDevice(d) ==
  /\ revoked' = revoked \cup {d}
  /\ UNCHANGED <<until, grant, token, outbox, inserted, call, held, bounds, ghosts>>

\* revokeGrant's transaction: the grant and its fact, whoever came first.
RevokeRow(g) ==
  /\ grant' = [grant EXCEPT ![g].revoked = TRUE]
  /\ outbox' = outbox \cup {g}

RevokeGrant(g) ==
  /\ grant[g] # Unmade
  /\ RevokeRow(g)
  /\ UNCHANGED <<revoked, until, token, inserted, call, held, bounds, ghosts>>

Tick ==
  /\ now < MaxTime /\ now' = now + 1
  /\ UNCHANGED <<tables, call, held, failures, ghosts>>

-----------------------------------------------------------------------------
(* Calls *)

Become(c, r) == call' = [call EXCEPT ![c] = r]

\* A call reads: the database stays as it is.
Reads(c, r) == Become(c, r) /\ UNCHANGED <<tables, held, bounds, ghosts>>

\* A call is answered.  It may have read a used token.
Ends(c) ==
  /\ Become(c, Idle)
  /\ caught' = IF call[c].row.used THEN caught \cup {call[c].row.grant} ELSE caught
  /\ UNCHANGED <<tables, held, bounds, redeemed>>

\* It dies, or the database refuses its transaction, or its answer is lost.
Fail(c) ==
  /\ call[c].pc # "idle"
  /\ failures < MaxFailures /\ failures' = failures + 1
  /\ Become(c, Idle)
  /\ UNCHANGED <<tables, held, now, ghosts>>

\* Authorize reads the device,
Consent(c, d) ==
  /\ call[c].pc = "idle" /\ d \notin revoked
  /\ Reads(c, [Idle EXCEPT !.pc = "authorize", !.device = d, !.at = now])

\* makes the grant and its code in one transaction,
Authorize(c, g) ==
  LET code == inserted + 1 IN
  /\ call[c].pc = "authorize"
  /\ grant[g] = Unmade /\ code \in Ids
  /\ grant' = [grant EXCEPT ![g] = [device |-> call[c].device, revoked |-> FALSE]]
  /\ token' = [token EXCEPT ![code] = Row("code", g, call[c].at + CodeLifetime)]
  /\ inserted' = code
  /\ Become(c, [call[c] EXCEPT !.pc = "answer", !.answer = {code}])
  /\ UNCHANGED <<revoked, until, outbox, held, bounds, ghosts>>

\* and hands the code out once the grant is audited; a token request answers
\* with its new tokens.
Answer(c) ==
  /\ call[c].pc = "answer"
  /\ held' = held \cup call[c].answer
  /\ Become(c, Idle)
  /\ UNCHANGED <<tables, bounds, ghosts>>

\* lookupToken of a code or a refresh token.
Lookup(c, i) ==
  /\ call[c].pc = "idle"
  /\ token[i].kind \in {"code", "refresh"}
  /\ Reads(c, [Idle EXCEPT !.pc = "check", !.id = i, !.row = token[i], !.at = now])

ReusedUnexpired(r, at, dead) == r.used /\ at < r.expires /\ (r.kind = "refresh" => ~dead)

\* A used token counts as reused, whatever its age; of a refresh token, the
\* grant's revocation is found first.
Reused(r, at, dead) == r.used /\ (r.kind = "refresh" => ~dead)

\* exchangeCode and refresh load the grant and decide.
Check(c) ==
  LET r    == call[c].row
      dead == grant[r.grant].revoked
  IN
  /\ call[c].pc = "check"
  /\ \/ /\ Reused(r, call[c].at, dead)
        /\ Reads(c, [call[c] EXCEPT !.pc = "reuse"])
     \/ /\ ~Reused(r, call[c].at, dead)
        /\ ~dead /\ call[c].at < r.expires
        /\ Reads(c, [call[c] EXCEPT !.pc = "standing"])
     \/ /\ ~Reused(r, call[c].at, dead)
        /\ dead \/ call[c].at >= r.expires
        /\ Ends(c)

\* The device's status and its window, by a call's clock.  The status is read
\* first; no window opens once it is revoked, so one step stands for both.
Stands(d, at) == d \notin revoked /\ at < until[d]

\* grantStanding.
Standing(c) ==
  LET d == grant[call[c].row.grant].device IN
  /\ call[c].pc = "standing"
  /\ IF Stands(d, call[c].at)
     THEN Reads(c, [call[c] EXCEPT !.pc = "issue", !.until = until[d]])
     ELSE Ends(c)

Earlier(a, b) == IF a <= b THEN a ELSE b

\* Rows past their expiry go with every exchange.
Pruned(rows, at) == [i \in Ids |-> IF rows[i].expires < at THEN NoToken ELSE rows[i]]

IssuableUnlocked(r, i) == token[i].kind # "none" /\ ~token[i].used

IssuableTwice(r, i) == ~grant[r.grant].revoked /\ token[i].kind # "none"

\* What issueTokens checks again inside its transaction.
Issuable(r, i) == ~grant[r.grant].revoked /\ token[i].kind # "none" /\ ~token[i].used

\* The exchange: the token is used, its successors are inserted.
IssueTokens(c) ==
  LET r       == call[c].row
      i       == call[c].id
      at      == call[c].at
      access  == inserted + 1
      refresh == inserted + 2
  IN
  /\ call[c].pc = "issue"
  /\ Issuable(r, i) /\ refresh \in Ids
  /\ token' = Pruned([token EXCEPT
                ![i].used   = TRUE,
                ![access]   = Row("access", r.grant, Earlier(at + AccessLifetime, call[c].until)),
                ![refresh]  = Row("refresh", r.grant, at + RefreshLifetime)], at)
  /\ inserted' = refresh
  /\ redeemed' = [redeemed EXCEPT ![i] = @ + 1]
  /\ Become(c, [call[c] EXCEPT !.pc = "answer", !.answer = {access, refresh}])
  /\ UNCHANGED <<revoked, until, grant, outbox, held, bounds, caught>>

\* The grant was revoked meanwhile,
IssueRefused(c) ==
  /\ call[c].pc = "issue" /\ grant[call[c].row.grant].revoked
  /\ Ends(c)

\* or the row is not there unused, which is taken for reuse.
IssueLost(c) ==
  LET row == token[call[c].id] IN
  /\ call[c].pc = "issue" /\ ~grant[call[c].row.grant].revoked
  /\ row.kind = "none" \/ row.used
  /\ Reads(c, [call[c] EXCEPT !.pc = "reuse"])

\* revokeReused.
RevokeReused(c) ==
  LET g == call[c].row.grant IN
  /\ call[c].pc = "reuse"
  /\ RevokeRow(g)
  /\ Become(c, Idle)
  /\ caught' = caught \cup {g}
  /\ UNCHANGED <<revoked, until, token, inserted, held, bounds, redeemed>>

\* admitToken for the MCP endpoint, before the body and again after it: the
\* access token,
Admit(c, i) ==
  /\ call[c].pc = "idle"
  /\ token[i].kind = "access" /\ now < token[i].expires
  /\ Reads(c, [Idle EXCEPT !.pc = "grant", !.id = i, !.row = token[i], !.body = TRUE])

AdmitAgain(c) ==
  LET row == token[call[c].id] IN
  /\ call[c].pc = "again"
  /\ IF row.kind = "access" /\ now < row.expires
     THEN Reads(c, [call[c] EXCEPT !.pc = "grant"])
     ELSE Ends(c)

\* its grant,
AdmitGrant(c) ==
  /\ call[c].pc = "grant"
  /\ IF grant[call[c].row.grant].revoked THEN Ends(c)
     ELSE Reads(c, [call[c] EXCEPT !.pc = "device"])

\* and the device, active by a clock read now.
AdmitDevice(c) ==
  /\ call[c].pc = "device"
  /\ IF Stands(grant[call[c].row.grant].device, now)
     THEN Reads(c, [call[c] EXCEPT !.pc = IF call[c].body THEN "body" ELSE "serve"])
     ELSE Ends(c)

\* Whether what call c acts with is revoked for good.
Gone(c) == LET g == grant[call[c].row.grant] IN g.revoked \/ g.device \in revoked

BodyServed(c) ==
  /\ call[c].pc = "body"
  /\ Reads(c, [call[c] EXCEPT !.pc = "serve", !.body = FALSE, !.late = Gone(c)])

\* The body has arrived, however slowly.
Body(c) ==
  /\ call[c].pc = "body"
  /\ Reads(c, [call[c] EXCEPT !.pc = "again", !.body = FALSE, !.late = Gone(c)])

\* The handler runs; what it starts is the module RunStanding's.
Serve(c) == call[c].pc = "serve" /\ Ends(c)

TokenCall(c) ==
  \/ \E i \in held : Lookup(c, i)
  \/ Check(c) \/ Standing(c)
  \/ IssueTokens(c) \/ IssueRefused(c) \/ IssueLost(c) \/ RevokeReused(c)

Request(c) ==
  \/ \E i \in held : Admit(c, i)
  \/ AdmitAgain(c) \/ AdmitGrant(c) \/ AdmitDevice(c) \/ Body(c) \/ Serve(c)

Operators ==
  \/ \E d \in Devices : \/ Deactivate(d) \/ RevokeDevice(d)
                        \/ \E n \in Durations : Activate(d, n)
  \/ \E g \in Grants : RevokeGrant(g)

Next ==
  \/ \E c \in Calls : \/ \E d \in Devices : Consent(c, d)
                      \/ \E g \in Grants : Authorize(c, g)
                      \/ Answer(c) \/ TokenCall(c) \/ Request(c) \/ Fail(c)
  \/ Operators
  \/ Tick

Spec == Init /\ [][Next]_vars
-----------------------------------------------------------------------------
(* Correctness *)

\* A code or a refresh token is exchanged at most once, whichever requests
\* read it unused at the same time.
RedeemedOnce == \A i \in Ids : redeemed[i] <= 1

\* No request hands out or stores a token of a grant that was revoked before
\* its transaction, though it found the grant standing when it began.
NoneAfterRevocation ==
  [][\A i \in Ids : token'[i].kind \notin {"none", token[i].kind} =>
       ~grant[token'[i].grant].revoked]_vars

\* gateway-mode.md, OAuth: "a reused one revokes the grant, since someone else
\* holds it": no request that saw a used token is over before its grant is
\* revoked, with the fact for the audit log, unless it failed.
ReuseEndsGrant == \A g \in caught : grant[g].revoked /\ g \in outbox

\* tokens.go:245-250: a grant or a device revoked during a slow upload keeps
\* the request from running anything.
UploadStands == \A c \in Calls : call[c].pc = "serve" => ~call[c].late
===============================================================================
