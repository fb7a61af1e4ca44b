------------------------------- MODULE Approval -------------------------------
(***************************************************************************)
(* Asynchronous approval: the pending requests (internal/approval/         *)
(* request.go), an operator's decision (adjudicate.go), the grants it      *)
(* leaves in a session's file (session_store.go), and the run that asks    *)
(* for approval or spends a grant (internal/runner/runner.go).  Runs,      *)
(* operators and the gateway are processes that meet only in these files,  *)
(* so an action is one locked update, one exclusive creation, one read, or *)
(* one append to the audit log.                                            *)
(*                                                                         *)
(* A key stands for what a grant is bound to: session, host, exact command *)
(* and stdin.  Every key here is one that policy denies by default, the    *)
(* only commands approval is asked for.                                    *)
(***************************************************************************)
EXTENDS Naturals, FiniteSets

CONSTANTS
  Keys,
  Runs,         \* bound: run calls, each with request IDs of its own
  Calls,        \* bound: decisions that operators try to make
  MaxRequests,  \* bound: approval IDs
  MaxPlanned,   \* bound: a plan's request has one of the first IDs
  MaxPending,   \* --max-pending-approvals
  GrantTTL,     \* approval.session_ttl
  ReapTTL,      \* resolvedReapTTL
  MaxTime,      \* bound: the clock stops here
  MaxFailures   \* bound: processes that die and writes that fail

ASSUME BoundsAssumption ==
  /\ MaxRequests \in Nat /\ MaxPlanned \in Nat /\ MaxPending \in Nat
  /\ GrantTTL \in Nat \ {0} /\ ReapTTL \in Nat
  /\ MaxTime \in Nat /\ MaxFailures \in Nat

Nobody == "nobody"

\* An empty claim or decision names no process.
ASSUME NamesAssumption == Nobody \notin Runs \cup Calls

VARIABLES
  issued,    \* approval IDs 1..issued were given out
  request,   \* pending/<id>.json: its key and when it was written
  response,  \* responses/<id>.json: the decision and the call that made it
  grants,    \* each key's grants, by their place in the list: oldest first
  log,       \* the audit log's decisions, by call
  run,       \* each run call
  call,      \* each operator call
  now,
  failures,
  spent      \* history: how many remote exits each call's once grant allowed

files  == <<issued, request, response, grants>>
bounds == <<now, failures>>
vars   == <<files, log, run, call, bounds, spent>>

Ids == 1..MaxRequests

\* A request file; at is its modification time, 0 when there is no file.
NoRequest == [key |-> Nobody, at |-> 0]

\* A decision is denied or the scope of its grant.
Scopes     == {"once", "session"}
NoResponse == [verdict |-> "none", by |-> Nobody]

\* A run: where it is, the targets of its group still to do in this pass over
\* them, all of them, those that need approval, the target it is at with the
\* call whose grant it uses, and whether it gave up a claim unsettled.
NoRun == [pc |-> "none", left |-> {}, all |-> {}, ask |-> {}, key |-> Nobody,
          scope |-> "none", by |-> Nobody, result |-> "none", abandoned |-> FALSE]

\* What is removed from a list of grants leaves its place empty.
NoGrants == [i \in {} |-> Nobody]

\* A call holds the request it read, whatever becomes of the file.
NoCall == [pc |-> "none", id |-> 0, key |-> Nobody, verdict |-> "none"]

Init ==
  /\ issued = 0
  /\ request = [i \in Ids |-> NoRequest] /\ response = [i \in Ids |-> NoResponse]
  /\ grants = [k \in Keys |-> NoGrants]
  /\ log = {}
  /\ run = [r \in Runs |-> NoRun] /\ call = [c \in Calls |-> NoCall]
  /\ now = 1 /\ failures = 0
  /\ spent = [c \in Calls |-> 0]

-----------------------------------------------------------------------------
(* Files *)

Pending(i)    == request[i].at # 0
Undecided(i)  == Pending(i) /\ response[i] = NoResponse

\* reapResolved: decided requests go, with their response, once the request
\* file is old enough.
Reapable(i) == Pending(i) /\ response[i] # NoResponse /\ request[i].at + ReapTTL <= now

Kept(file, none) == [i \in Ids |-> IF Reapable(i) THEN none ELSE file[i]]

LiveGrant(g) == now < g.until

Only(list, places) == [i \in places |-> list[i]]

Live(k) == Only(grants[k], {i \in DOMAIN grants[k] : LiveGrant(grants[k][i])})

UsableByAll(g, r) == now < g.until

\* A once grant that another run has claimed authorizes nobody else.
Usable(g, r) == g.scope = "once" => g.claim \in {Nobody, r}

\* The place of the first grant of key k that run r may use, 0 for none.
FirstMatch(k, r) ==
  LET at == {i \in DOMAIN Live(k) : Usable(Live(k)[i], r)} IN
  IF at = {} THEN 0 ELSE CHOOSE i \in at : \A j \in at : i <= j

\* settleClaims: the once grants run r claimed go, or are free again.
Settled(k, r, consume) ==
  LET list    == grants[k]
      mine(i) == list[i].scope = "once" /\ list[i].claim = r
  IN [grants EXCEPT ![k] =
        [i \in {j \in DOMAIN list : ~(consume /\ mine(j))} |->
           IF mine(i) THEN [list[i] EXCEPT !.claim = Nobody] ELSE list[i]]]

-----------------------------------------------------------------------------
(* A run *)

Become(r, c) == run' = [run EXCEPT ![r] = c]

Moves(r, c) == Become(r, c) /\ UNCHANGED <<files, log, call, bounds, spent>>

Over(c) == [NoRun EXCEPT !.pc = "over", !.abandoned = c.abandoned]

Begin(r, K) ==
  /\ run[r].pc = "none"
  /\ Moves(r, [NoRun EXCEPT !.pc = "plan", !.left = K, !.all = K])

\* buildPlans previews each target and changes nothing; a grant for another
\* stdin size turns the target into a refusal, which needs no approval.
Preflight(r, k) ==
  /\ run[r].pc = "plan" /\ k \in run[r].left
  /\ Moves(r, [run[r] EXCEPT !.left = @ \ {k},
                 !.ask = IF FirstMatch(k, Nobody) = 0 THEN @ \cup {k} ELSE @])

\* preflightBlock asks for what is missing and runs nothing.
PreflightDone(r) ==
  LET c == run[r] IN
  /\ c.pc = "plan" /\ c.left = {}
  /\ Moves(r, IF c.ask = {} THEN [c EXCEPT !.pc = "loop", !.left = c.all]
              ELSE [c EXCEPT !.pc = "block", !.left = c.ask])

\* PendingStore.Create: a sweep of what is decided, then one step under the
\* store's lock.  A request for the key that is still undecided is joined, else
\* a new one is published,
Publish(k) ==
  LET same == {i \in Ids : Undecided(i) /\ request[i].key = k} IN
  /\ response' = Kept(response, NoResponse)
  /\ \/ /\ same # {}
        /\ request' = Kept(request, NoRequest) /\ issued' = issued
     \/ /\ same = {} /\ issued < MaxRequests
        /\ Cardinality({i \in Ids : Undecided(i)}) < MaxPending
        /\ issued' = issued + 1
        /\ request' = [Kept(request, NoRequest) EXCEPT
                         ![issued + 1] = [key |-> k, at |-> now]]

\* unless the cap is reached.
TooManyPending(k) ==
  /\ \A i \in Ids : Undecided(i) => request[i].key # k
  /\ Cardinality({i \in Ids : Undecided(i)}) >= MaxPending
  /\ request' = Kept(request, NoRequest) /\ response' = Kept(response, NoResponse)
  /\ issued' = issued

\* appendPending for one target; a refusal ends the run.
AppendPending(r, k) ==
  LET c == run[r] IN
  /\ \/ c.pc = "block" /\ k \in c.left
     \/ c.pc = "ask" /\ k = c.key
  /\ \/ /\ Publish(k)
        /\ Become(r, [c EXCEPT !.pc = IF c.pc = "ask" THEN "loop" ELSE "block",
                               !.left = @ \ {k}, !.key = Nobody])
     \/ TooManyPending(k) /\ Become(r, Over(c))
  /\ UNCHANGED <<grants, log, call, bounds, spent>>

\* A line of a submitted plan, which was previewed some time before.
SubmitPlan(k) ==
  /\ Publish(k) \/ TooManyPending(k)
  /\ issued' # issued => issued' <= MaxPlanned
  /\ UNCHANGED <<grants, log, run, call, bounds, spent>>

\* Authorize with a request ID: the first match is used, and claimed under
\* the session's lock when it is a once grant.
Authorize(r, k) ==
  LET c    == run[r]
      at   == FirstMatch(k, r)
      g    == Live(k)[at]
  IN
  /\ c.pc = "loop" /\ k \in c.left
  /\ IF at = 0
     THEN /\ grants' = [grants EXCEPT ![k] = Live(k)]
          /\ Become(r, [c EXCEPT !.pc = "ask", !.key = k])
     ELSE /\ grants' = [grants EXCEPT ![k] =
               IF g.scope = "once" THEN [Live(k) EXCEPT ![at].claim = r] ELSE Live(k)]
          /\ Become(r, [c EXCEPT !.pc = "claimed", !.key = k,
                                 !.scope = g.scope, !.by = g.by])
  /\ UNCHANGED <<issued, request, response, log, call, bounds, spent>>

\* A run ends between two targets: all are done, or its context has ended.
Finish(r) ==
  /\ \/ run[r].pc = "loop"
     \/ run[r].pc = "block" /\ run[r].left = {}
  /\ Moves(r, Over(run[r]))

NextTarget(c) == [c EXCEPT !.pc = "loop", !.left = @ \ {c.key}, !.key = Nobody,
                           !.scope = "none", !.by = Nobody, !.result = "none"]

Holds(c) == c.scope = "once"

\* CheckGrantedStdin: stdin was not of the size the grant approved; the refused
\* once grant stays for the run it was meant for.
RefuseStdin(r) ==
  LET c == run[r] IN
  /\ c.pc = "claimed"
  /\ grants' = IF Holds(c) THEN Settled(c.key, r, FALSE) ELSE grants
  /\ Become(r, NextTarget(c))
  /\ UNCHANGED <<issued, request, response, log, call, bounds, spent>>

\* The start cannot be audited: nothing runs and the grant is handed back.
StartUnaudited(r) ==
  LET c == run[r] IN
  /\ c.pc = "claimed"
  /\ failures < MaxFailures /\ failures' = failures + 1
  /\ grants' = IF Holds(c) THEN Settled(c.key, r, FALSE) ELSE grants
  /\ Become(r, Over(c))
  /\ UNCHANGED <<issued, request, response, log, call, now, spent>>

\* The start is audited and the command runs: it exits, or its connection
\* fails.  The audit records of runs are not part of the state.
Execute(r) ==
  LET c == run[r] IN
  /\ c.pc = "claimed"
  /\ \E result \in {"exit", "ssh"} :
       /\ Become(r, [c EXCEPT !.pc = "settle", !.result = result])
       /\ spent' = IF result = "exit" /\ Holds(c) THEN [spent EXCEPT ![c.by] = @ + 1]
                   ELSE spent
  /\ UNCHANGED <<files, log, call, bounds>>

SettleSpends(r) == Settled(run[r].key, r, TRUE)

\* settleOnceClaim: a remote exit spends the grant, a transport failure
\* restores it.
SettleOnceClaim(r) == Settled(run[r].key, r, run[r].result = "exit")

Settle(r) ==
  /\ run[r].pc = "settle"
  /\ grants' = IF Holds(run[r]) THEN SettleOnceClaim(r) ELSE grants
  /\ Become(r, NextTarget(run[r]))
  /\ UNCHANGED <<issued, request, response, log, call, bounds, spent>>

\* A settlement that fails is a warning: the claim stays and the run goes on.
SettleFails(r) ==
  /\ run[r].pc = "settle"
  /\ failures < MaxFailures /\ failures' = failures + 1
  /\ Become(r, [NextTarget(run[r]) EXCEPT !.abandoned = @ \/ Holds(run[r])])
  /\ UNCHANGED <<files, log, call, now, spent>>

\* The process dies, or what it writes next fails in a place where the code
\* gives up: a claim it holds stays.
Die(r) ==
  /\ run[r].pc \notin {"none", "over"}
  /\ failures < MaxFailures /\ failures' = failures + 1
  /\ Become(r, Over([run[r] EXCEPT !.abandoned = @ \/ Holds(run[r])]))
  /\ UNCHANGED <<files, log, call, now, spent>>

-----------------------------------------------------------------------------
(* Operators *)

Decides(c, d) == call' = [call EXCEPT ![c] = d]

\* ApplyDecision reads the request and finds no decision.
Open(c, i, verdict) ==
  /\ call[c].pc = "none" /\ Undecided(i)
  /\ Decides(c, [pc |-> "open", id |-> i, key |-> request[i].key,
                 verdict |-> verdict])
  /\ UNCHANGED <<files, log, run, bounds, spent>>

\* Resolve creates the response exclusively: the first publisher wins.
Resolve(c) ==
  LET i == call[c].id IN
  /\ call[c].pc = "open"
  /\ IF response[i] = NoResponse
     THEN /\ response' = [response EXCEPT ![i] = [verdict |-> call[c].verdict, by |-> c]]
          /\ Decides(c, [call[c] EXCEPT !.pc = "resolved"])
     ELSE /\ Decides(c, [call[c] EXCEPT !.pc = "over"])
          /\ UNCHANGED response
  /\ UNCHANGED <<issued, request, grants, log, run, bounds, spent>>

AuditDecision(c) ==
  /\ call[c].pc = "resolved"
  /\ log' = log \cup {c}
  /\ Decides(c, [call[c] EXCEPT !.pc = IF call[c].verdict \in Scopes THEN "audited"
                                       ELSE "over"])
  /\ UNCHANGED <<files, run, bounds, spent>>

\* Which of a key's grants a new one replaces: one of the same scope.
Others(k, scope) ==
  Only(grants[k], {i \in DOMAIN Live(k) : grants[k][i].scope # scope})

\* The place at the end of a list.
End(list) ==
  1 + CHOOSE i \in DOMAIN list \cup {0} : \A j \in DOMAIN list : j <= i

\* Places from which the code goes on to write the grant.
GrantsUnaudited == {"resolved", "audited"}

GrantsFrom == {"audited"}

\* applySessionGrant.
Grant(c) ==
  LET k == call[c].key
      s == call[c].verdict
  IN
  /\ call[c].pc \in GrantsFrom /\ s \in Scopes
  /\ grants' = [grants EXCEPT ![k] =
       LET rest == Others(k, s) IN
       [i \in DOMAIN rest \cup {End(rest)} |->
          IF i \in DOMAIN rest THEN rest[i]
          ELSE [scope |-> s, until |-> now + GrantTTL, by |-> c, claim |-> Nobody]]]
  /\ Decides(c, [call[c] EXCEPT !.pc = "over"])
  /\ UNCHANGED <<issued, request, response, log, run, bounds, spent>>

\* It dies, or its audit record or its grant cannot be written.
DecisionFails(c) ==
  /\ call[c].pc \notin {"none", "over"}
  /\ failures < MaxFailures /\ failures' = failures + 1
  /\ Decides(c, [call[c] EXCEPT !.pc = "over"])
  /\ UNCHANGED <<files, log, run, now, spent>>

\* Any listing of the requests reaps the old decided ones,
List ==
  /\ \E i \in Ids : Reapable(i)
  /\ request' = Kept(request, NoRequest) /\ response' = Kept(response, NoResponse)
  /\ UNCHANGED <<issued, grants, log, run, call, bounds, spent>>

HalfReapedResponse(i) ==
  /\ response' = [response EXCEPT ![i] = NoResponse]
  /\ request' = request

\* the request first, then its response,
HalfReaped(i) ==
  /\ request' = [request EXCEPT ![i] = NoRequest]
  /\ response' = response

\* and can die between the two.
CrashInReap(i) ==
  /\ Reapable(i)
  /\ failures < MaxFailures /\ failures' = failures + 1
  /\ HalfReaped(i)
  /\ UNCHANGED <<issued, grants, log, run, call, now, spent>>

\* SessionStore.End.
EndSession(k) ==
  /\ DOMAIN grants[k] # {}
  /\ grants' = [grants EXCEPT ![k] = NoGrants]
  /\ UNCHANGED <<issued, request, response, log, run, call, bounds, spent>>

Tick ==
  /\ now < MaxTime /\ now' = now + 1
  /\ UNCHANGED <<files, log, run, call, failures, spent>>

RunStep(r) ==
  \/ \E K \in SUBSET Keys \ {{}} : Begin(r, K)
  \/ \E k \in Keys : Preflight(r, k) \/ AppendPending(r, k) \/ Authorize(r, k)
  \/ PreflightDone(r) \/ Finish(r) \/ RefuseStdin(r)
  \/ StartUnaudited(r) \/ Execute(r) \/ Settle(r) \/ SettleFails(r)
  \/ Die(r)

CallStep(c) ==
  \/ \E i \in Ids, v \in Scopes \cup {"denied"} : Open(c, i, v)
  \/ Resolve(c) \/ AuditDecision(c) \/ Grant(c) \/ DecisionFails(c)

Next ==
  \/ \E r \in Runs : RunStep(r)
  \/ \E c \in Calls : CallStep(c)
  \/ List
  \/ \E i \in Ids : CrashInReap(i)
  \/ \E k \in Keys : SubmitPlan(k) \/ EndSession(k)
  \/ Tick

Spec == Init /\ [][Next]_vars
-----------------------------------------------------------------------------
(* Correctness *)

\* One decision for once lets one command run to a remote exit, whatever runs
\* at the same time and wherever it dies.
OnceSpentOnce == \A c \in Calls : spent[c] <= 1

\* A grant that could authorize a command has its approval in the audit log.
GrantAudited ==
  \A k \in Keys : \A i \in DOMAIN grants[k] : grants[k][i].by \in log

\* No command loses an approval it did not use: a once grant goes only when a
\* remote exit spent it, its time is over, a newer approval replaced it or its
\* session ended.
OnceGrantKept ==
  [][\A k \in Keys : \A i \in DOMAIN grants[k] :
       LET g == grants[k][i]
           there(c) == \E j \in DOMAIN grants'[k] : grants'[k][j].by = c
       IN g.scope = "once" /\ ~there(g.by) =>
            \/ spent[g.by] > 0
            \/ ~LiveGrant(g)
            \/ \E c \in Calls \ {g.by} : there(c) /\ call[c].pc = "audited"
            \/ DOMAIN grants'[k] = {} /\ run' = run]_vars

\* A once grant is reserved only by a run that is still using it or that died
\* without settling it: refusals and failed starts hand it back.
ReservationHasOwner ==
  \A k \in Keys : \A i \in DOMAIN grants[k] : LET r == grants[k][i].claim IN
    r # Nobody => \/ run[r].pc \in {"claimed", "settle"}
                     /\ run[r].key = k
                  \/ run[r].abandoned

\* An approval for once is worth one command, no more and no less: two runs do
\* not use it, and no run that stopped short of a remote exit keeps it
\* (session_store.go, Claim, Commit and Release).
OnceIsOnce == OnceSpentOnce /\ ReservationHasOwner

\* A request that was decided never waits for a decision again, even when the
\* sweep of old requests dies half way.
DecidedStaysDecided ==
  [][\A i \in Ids : i <= issued /\ Undecided(i)' => Undecided(i)]_vars
===============================================================================
