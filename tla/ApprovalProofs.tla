---------------------------- MODULE ApprovalProofs ----------------------------
(***************************************************************************)
(* Proofs about Approval, and at the end about DevicePlans, the plans of   *)
(* several devices.  A decision for once is worth one command              *)
(* because of what holds between three files' worth of state that no step  *)
(* writes together: the claim in the grant, the place of the run that made *)
(* it, and how often the command ran.  A run that gives up a claim without *)
(* settling it never comes back to that target, so the claim it leaves     *)
(* behind authorizes nobody.                                               *)
(***************************************************************************)
EXTENDS Approval, DevicePlans, TLAPS, NaturalsInduction, WellFoundedInduction, FiniteSetTheorems

Grants == [scope : Scopes, until : Nat, by : Calls, claim : Runs \cup {Nobody}]

Bounded(places) == \E m \in Nat : \A i \in places : i <= m

\* A key's grants, by their places.
IsList(list) ==
  /\ DOMAIN list \subseteq Nat \ {0} /\ Bounded(DOMAIN list)
  /\ list \in [DOMAIN list -> Grants]

RunRecords ==
  [pc : {"none", "plan", "block", "loop", "ask", "claimed", "settle", "over"},
   left : SUBSET Keys, all : SUBSET Keys, ask : SUBSET Keys,
   key : Keys \cup {Nobody}, scope : Scopes \cup {"none"}, by : Calls \cup {Nobody},
   result : {"none", "exit", "ssh"}, abandoned : BOOLEAN]

Verdicts == Scopes \cup {"denied", "none"}

CallRecords ==
  [pc : {"none", "open", "resolved", "audited", "over"}, id : Nat,
   key : Keys \cup {Nobody}, verdict : Verdicts]

\* Every variable has its type.
TypeOK ==
  /\ issued \in Nat
  /\ request \in [Ids -> [key : Keys \cup {Nobody}, at : Nat]]
  /\ response \in [Ids -> [verdict : Verdicts, by : Calls \cup {Nobody}]]
  /\ DOMAIN grants = Keys /\ \A k \in Keys : IsList(grants[k])
  /\ log \in SUBSET Calls
  /\ run \in [Runs -> RunRecords] /\ call \in [Calls -> CallRecords]
  /\ now \in Nat /\ failures \in Nat
  /\ spent \in [Calls -> Nat]

PendingKeyed == \A i \in Ids : Pending(i) => request[i].key \in Keys

\* A run that may still use a grant is at one of its targets.
RunValid(c) ==
  /\ c.pc \in {"ask", "claimed", "settle"} => c.key \in c.left
  /\ c.pc \in {"claimed", "settle"} => c.scope \in Scopes /\ c.by \in Calls
  /\ c.pc \notin {"claimed", "settle"} => c.scope = "none"
  /\ c.pc = "settle" => c.result # "none"
  /\ c.pc \in {"none", "plan"} => ~c.abandoned

RunsValid == \A r \in Runs : RunValid(run[r])

\* Run r holds the once grant of a decision that is made, and whether the
\* command ran on it shows in the run's place.
HolderValid(r) ==
  Holds(run[r]) =>
    /\ call[run[r].by].pc = "over"
    /\ spent[run[r].by] =
         IF run[r].pc = "settle" /\ run[r].result = "exit" THEN 1 ELSE 0
    /\ \A q \in Runs \ {r} : Holds(run[q]) => run[q].by # run[r].by

HoldersValid == \A r \in Runs : HolderValid(r)

\* Run r left a claim on a grant of key k behind and does not come back to k.
GaveUp(r, k) ==
  run[r].abandoned /\ run[r].pc \notin {"none", "plan"} /\ k \notin run[r].left

\* What a grant g of key k says of the run that claimed it.
GrantValid(g, k) ==
  /\ g.by \in log /\ call[g.by].pc = "over"
  /\ g.scope = "session" => g.claim = Nobody
  /\ g.scope = "once" =>
       /\ \A r \in Runs : Holds(run[r]) /\ run[r].by = g.by =>
            g.claim = r /\ run[r].key = k
       /\ IF g.claim = Nobody THEN spent[g.by] = 0
          ELSE \/ Holds(run[g.claim]) /\ run[g.claim].by = g.by
               \/ GaveUp(g.claim, k)

GrantsValid == \A k \in Keys : \A i \in DOMAIN grants[k] : GrantValid(grants[k][i], k)

\* A decision leaves one grant.
GrantsDistinct ==
  \A k, l \in Keys : \A i \in DOMAIN grants[k], j \in DOMAIN grants[l] :
    grants[k][i].by = grants[l][j].by => k = l /\ i = j

CallValid(c) ==
  /\ call[c].pc \in {"open", "resolved", "audited"} =>
       call[c].key \in Keys /\ call[c].verdict # "none"
  /\ call[c].pc = "audited" => c \in log /\ call[c].verdict \in Scopes
  /\ call[c].pc # "over" => spent[c] = 0

CallsValid == \A c \in Calls : CallValid(c)

IInv ==
  /\ TypeOK /\ PendingKeyed /\ RunsValid /\ HoldersValid /\ GrantsValid
  /\ GrantsDistinct /\ CallsValid /\ OnceSpentOnce
-----------------------------------------------------------------------------

THEOREM Initially == Init => IInv
<1> SUFFICES ASSUME Init PROVE IInv
  OBVIOUS
<1>1. NoRun \in RunRecords /\ RunValid(NoRun) /\ ~Holds(NoRun)
  BY DEF NoRun, RunRecords, RunValid, Holds
<1>2. NoCall \in CallRecords /\ NoCall.pc = "none"
  BY DEF NoCall, CallRecords, Verdicts
<1>3. IsList(NoGrants) /\ DOMAIN NoGrants = {}
  BY DEF NoGrants, IsList, Bounded
<1>4. TypeOK
  BY <1>1, <1>2, <1>3, BoundsAssumption DEF Init, TypeOK, NoRequest, NoResponse, Verdicts
<1>5. PendingKeyed /\ OnceSpentOnce
  BY DEF Init, PendingKeyed, Pending, NoRequest, OnceSpentOnce
<1>6. RunsValid /\ HoldersValid
  BY <1>1 DEF Init, RunsValid, HoldersValid, HolderValid
<1>7. GrantsValid /\ GrantsDistinct
  BY <1>3 DEF Init, GrantsValid, GrantsDistinct
<1>8. CallsValid
  BY <1>2 DEF Init, CallsValid, CallValid
<1>. QED  BY <1>4, <1>5, <1>6, <1>7, <1>8 DEF IInv

-----------------------------------------------------------------------------
(* Lists of grants *)

\* Every nonempty set of naturals has a least element.
LEMMA LeastExists ==
  ASSUME NEW S, S \subseteq Nat, S # {}
  PROVE  \E x \in S : \A y \in S : x <= y
<1> DEFINE Below == {ss \in Nat \X Nat : ss[1] < ss[2]}
<1>1. IsWellFoundedOn(Below, Nat)
  BY NatLessThanWellFounded DEF OpToRel
<1> HIDE DEF Below
<1>2. PICK x \in S : \A y \in S : ~(<<y, x>> \in Below)
  BY <1>1, WFMin
<1>3. ASSUME NEW y \in S PROVE x <= y
  <2>1. ~(<<y, x>> \in Below)
    BY <1>2
  <2>2. x \in Nat /\ y \in Nat
    OBVIOUS
  <2>. QED  BY <2>1, <2>2 DEF Below
<1>. QED  BY <1>3

\* The end of a list is a place behind all others.
LEMMA EndIsFree ==
  ASSUME NEW list, IsList(list)
  PROVE  End(list) \in Nat \ {0} /\ \A i \in DOMAIN list : i < End(list)
<1> DEFINE places == DOMAIN list
           uppers == {m \in Nat : \A i \in places : i <= m}
<1>1. places \subseteq Nat \ {0} /\ uppers # {} /\ uppers \subseteq Nat
  BY DEF IsList, Bounded
<1>2. PICK u \in uppers : \A m \in uppers : u <= m
  <2> HIDE DEF uppers
  <2>. QED  BY <1>1, LeastExists
<1>3. \E i \in places \cup {0} : \A j \in places : j <= i
  <2>1. CASE u \in places
    BY <2>1
  <2>2. CASE u \notin places
    <3>1. \A i \in places : i < u
      BY <1>1, <2>2
    <3>2. CASE u = 0
      BY <1>1, <3>2
    <3>3. CASE u # 0
      <4>1. u - 1 \in uppers
        BY <1>1, <3>1, <3>3
      <4>. QED  BY <1>2, <4>1
    <3>. QED  BY <3>2, <3>3
  <2>. QED  BY <2>1, <2>2
<1>4. PICK e : /\ e = CHOOSE i \in places \cup {0} : \A j \in places : j <= i
               /\ e \in places \cup {0} /\ \A j \in places : j <= e
  BY <1>3
<1>5. End(list) = 1 + e
  BY <1>4 DEF End
<1>. QED  BY <1>1, <1>4, <1>5

\* The first match is a live grant the run may use, if there is one.
LEMMA FirstMatchUsable ==
  ASSUME TypeOK, NEW k \in Keys, NEW r
  PROVE  LET at == FirstMatch(k, r) IN
         at # 0 => /\ at \in DOMAIN Live(k) /\ at \in DOMAIN grants[k]
                   /\ Usable(grants[k][at], r) /\ Live(k)[at] = grants[k][at]
<1> DEFINE S == {i \in DOMAIN Live(k) : Usable(Live(k)[i], r)}
<1>1. DOMAIN Live(k) \subseteq DOMAIN grants[k]
      /\ \A i \in DOMAIN Live(k) : Live(k)[i] = grants[k][i]
  BY DEF Live, Only
<1>2. S \subseteq Nat
  BY <1>1 DEF TypeOK, IsList
<1>3. CASE S = {}
  BY <1>3 DEF FirstMatch
<1>4. CASE S # {}
  <2>1. FirstMatch(k, r) = CHOOSE i \in S : \A j \in S : i <= j
    BY <1>4 DEF FirstMatch
  <2> HIDE DEF S
  <2>2. \E i \in S : \A j \in S : i <= j
    BY <1>2, <1>4, LeastExists
  <2>3. FirstMatch(k, r) \in S
    BY <2>1, <2>2
  <2>. QED  BY <1>1, <2>3 DEF S
<1>. QED  BY <1>3, <1>4

\* A part of a list is a list.
LEMMA PartIsList ==
  ASSUME NEW list, IsList(list), NEW part, DOMAIN part \subseteq DOMAIN list,
         part \in [DOMAIN part -> Grants]
  PROVE  IsList(part)
BY DEF IsList, Bounded

\* Lists in which grants are removed, and nothing else.
Loses ==
  /\ DOMAIN grants' = Keys
  /\ \A k \in Keys : /\ DOMAIN grants'[k] \subseteq DOMAIN grants[k]
                     /\ grants'[k] = Only(grants[k], DOMAIN grants'[k])

LEMMA LosesKeeps ==
  ASSUME TypeOK, Loses
  PROVE  /\ \A k \in Keys : IsList(grants'[k])
         /\ \A k \in Keys : \A i \in DOMAIN grants'[k] :
              i \in DOMAIN grants[k] /\ grants'[k][i] = grants[k][i]
<1>1. ASSUME NEW k \in Keys
      PROVE  /\ IsList(grants'[k])
             /\ \A i \in DOMAIN grants'[k] :
                  i \in DOMAIN grants[k] /\ grants'[k][i] = grants[k][i]
  <2>1. /\ IsList(grants[k]) /\ DOMAIN grants'[k] \subseteq DOMAIN grants[k]
        /\ grants'[k] = [i \in DOMAIN grants'[k] |-> grants[k][i]]
    BY DEF TypeOK, Loses, Only
  <2>2. \A i \in DOMAIN grants'[k] : grants'[k][i] = grants[k][i] /\ grants[k][i] \in Grants
    BY <2>1 DEF IsList
  <2>3. grants'[k] \in [DOMAIN grants'[k] -> Grants]
    BY <2>1, <2>2
  <2>. QED  BY <2>1, <2>2, <2>3, PartIsList
<1>. QED  BY <1>1

-----------------------------------------------------------------------------
(* Steps that leave the runs, the calls and the log alone *)

LEMMA FilesKeep ==
  ASSUME IInv, TypeOK', PendingKeyed', Loses, UNCHANGED <<log, run, call, spent>>
  PROVE  IInv'
<1>1. \A k \in Keys : \A i \in DOMAIN grants'[k] :
        i \in DOMAIN grants[k] /\ grants'[k][i] = grants[k][i]
  BY LosesKeeps DEF IInv
<1>2. RunsValid' /\ HoldersValid' /\ CallsValid' /\ OnceSpentOnce'
  BY DEF IInv, RunsValid, RunValid, HoldersValid, HolderValid, Holds, CallsValid, CallValid,
         OnceSpentOnce
<1>3. GrantsValid'
  BY <1>1 DEF IInv, GrantsValid, GrantValid, GaveUp, Holds
<1>4. GrantsDistinct'
  BY <1>1 DEF IInv, GrantsDistinct
<1>. QED  BY <1>2, <1>3, <1>4 DEF IInv

\* grants are as before: nothing is lost.
LEMMA SameLoses == ASSUME TypeOK, grants' = grants PROVE Loses /\ \A k \in Keys : IsList(grants'[k])
BY DEF TypeOK, Loses, Only, IsList

\* What a sweep keeps of the request and response files.
LEMMA KeptTypes ==
  ASSUME TypeOK
  PROVE  /\ Kept(request, NoRequest) \in [Ids -> [key : Keys \cup {Nobody}, at : Nat]]
         /\ Kept(response, NoResponse) \in [Ids -> [verdict : Verdicts, by : Calls \cup {Nobody}]]
         /\ \A i \in Ids : Kept(request, NoRequest)[i] \in {request[i], NoRequest}
BY DEF TypeOK, Kept, NoRequest, NoResponse, Verdicts

LEMMA PublishTypes ==
  ASSUME IInv, NEW k \in Keys, Publish(k) \/ TooManyPending(k)
  PROVE  /\ issued' \in Nat
         /\ request' \in [Ids -> [key : Keys \cup {Nobody}, at : Nat]]
         /\ response' \in [Ids -> [verdict : Verdicts, by : Calls \cup {Nobody}]]
         /\ PendingKeyed'
<1>1. CASE /\ request' = Kept(request, NoRequest) /\ response' = Kept(response, NoResponse)
           /\ issued' = issued
  BY <1>1, KeptTypes DEF IInv, TypeOK, PendingKeyed, Pending, NoRequest
<1>2. CASE /\ issued < MaxRequests /\ issued' = issued + 1
           /\ response' = Kept(response, NoResponse)
           /\ request' = [Kept(request, NoRequest) EXCEPT
                            ![issued + 1] = [key |-> k, at |-> now]]
  <2> DEFINE new == [key |-> k, at |-> now]
             kept == Kept(request, NoRequest)
  <2>1. TypeOK /\ PendingKeyed /\ now \in Nat /\ issued \in Nat
    BY DEF IInv, TypeOK
  <2>2. new \in [key : Keys \cup {Nobody}, at : Nat] /\ new.key = k
    BY <2>1
  <2>3. /\ kept \in [Ids -> [key : Keys \cup {Nobody}, at : Nat]]
        /\ response' \in [Ids -> [verdict : Verdicts, by : Calls \cup {Nobody}]]
        /\ \A i \in Ids : kept[i] \in {request[i], NoRequest}
    BY <1>2, <2>1, KeptTypes
  <2>4. \A i \in Ids : kept[i].at # 0 => kept[i].key \in Keys
    BY <2>1, <2>3 DEF PendingKeyed, Pending, NoRequest
  <2> HIDE DEF kept, new
  <2>5. request' = [kept EXCEPT ![issued + 1] = new] /\ issued' = issued + 1
    BY <1>2 DEF kept, new
  <2>6. request' \in [Ids -> [key : Keys \cup {Nobody}, at : Nat]]
    BY <2>2, <2>3, <2>5
  <2>7. \A i \in Ids : request'[i] \in {kept[i], new}
    BY <2>3, <2>5
  <2>8. PendingKeyed'
    BY <2>2, <2>4, <2>7 DEF PendingKeyed, Pending
  <2>. QED  BY <2>1, <2>3, <2>5, <2>6, <2>8
<1>. QED  BY <1>1, <1>2 DEF Publish, TooManyPending

LEMMA SubmitPlanKeeps == ASSUME IInv, NEW k \in Keys, SubmitPlan(k) PROVE IInv'
<1>1. UNCHANGED <<grants, log, run, call, bounds, spent>>
  BY DEF SubmitPlan
<1>2. Loses /\ \A l \in Keys : IsList(grants'[l])
  BY <1>1, SameLoses DEF IInv
<1>3. TypeOK' /\ PendingKeyed'
  BY <1>1, <1>2, PublishTypes DEF SubmitPlan, IInv, TypeOK, bounds
<1>. QED  BY <1>1, <1>2, <1>3, FilesKeep

LEMMA ListKeeps == ASSUME IInv, List PROVE IInv'
<1>1. UNCHANGED <<issued, grants, log, run, call, bounds, spent>>
  BY DEF List
<1>2. Loses /\ \A l \in Keys : IsList(grants'[l])
  BY <1>1, SameLoses DEF IInv
<1>3. TypeOK' /\ PendingKeyed'
  BY <1>1, <1>2, KeptTypes DEF List, IInv, TypeOK, bounds, PendingKeyed, Pending, NoRequest
<1>. QED  BY <1>1, <1>2, <1>3, FilesKeep

LEMMA CrashInReapKeeps == ASSUME IInv, NEW i \in Ids, CrashInReap(i) PROVE IInv'
<1>1. UNCHANGED <<issued, grants, log, run, call, now, spent>> /\ failures' \in Nat
  BY DEF CrashInReap, IInv, TypeOK
<1>2. Loses /\ \A l \in Keys : IsList(grants'[l])
  BY <1>1, SameLoses DEF IInv
<1>3. TypeOK' /\ PendingKeyed'
  BY <1>1, <1>2 DEF CrashInReap, HalfReaped, IInv, TypeOK, PendingKeyed, Pending, NoRequest
<1>. QED  BY <1>1, <1>2, <1>3, FilesKeep

LEMMA TickKeeps == ASSUME IInv, Tick PROVE IInv'
<1>1. UNCHANGED <<files, log, run, call, failures, spent>> /\ now' \in Nat
  BY DEF Tick, IInv, TypeOK
<1>2. Loses /\ \A l \in Keys : IsList(grants'[l])
  BY <1>1, SameLoses DEF IInv, files
<1>3. TypeOK' /\ PendingKeyed'
  BY <1>1, <1>2 DEF IInv, TypeOK, PendingKeyed, Pending, files
<1>. QED  BY <1>1, <1>2, <1>3, FilesKeep

LEMMA EndSessionKeeps == ASSUME IInv, NEW k \in Keys, EndSession(k) PROVE IInv'
<1>1. UNCHANGED <<issued, request, response, log, run, call, bounds, spent>>
      /\ grants' = [grants EXCEPT ![k] = NoGrants]
  BY DEF EndSession
<1>2. Loses
  <2>1. grants'[k] = NoGrants /\ \A l \in Keys \ {k} : grants'[l] = grants[l]
    BY <1>1 DEF IInv, TypeOK
  <2>2. NoGrants = Only(grants[k], {}) /\ DOMAIN NoGrants = {}
    BY DEF NoGrants, Only
  <2>3. \A l \in Keys : grants[l] = Only(grants[l], DOMAIN grants[l])
    BY DEF IInv, TypeOK, IsList, Only
  <2>. QED  BY <1>1, <2>1, <2>2, <2>3 DEF Loses, IInv, TypeOK
<1>3. \A l \in Keys : IsList(grants'[l])
  BY <1>2, LosesKeeps DEF IInv
<1>4. TypeOK' /\ PendingKeyed'
  BY <1>1, <1>2, <1>3 DEF IInv, TypeOK, PendingKeyed, Pending, bounds, Loses
<1>. QED  BY <1>1, <1>2, <1>4, FilesKeep

-----------------------------------------------------------------------------
(* Steps of a run *)

\* A run that holds no once grant, before and after its step.
LEMMA FreeRunKeeps ==
  ASSUME IInv, TypeOK', PendingKeyed', Loses, UNCHANGED <<log, call, spent>>,
         NEW r \in Runs, NEW n, Become(r, n), RunValid(n),
         ~Holds(run[r]), ~Holds(n), run[r].abandoned => n.abandoned,
         \/ run[r].pc \in {"none", "plan"}
         \/ n.pc \notin {"none", "plan"} /\ n.left \subseteq run[r].left
  PROVE  IInv'
<1>1. \A k \in Keys : \A i \in DOMAIN grants'[k] :
        i \in DOMAIN grants[k] /\ grants'[k][i] = grants[k][i]
  BY LosesKeeps DEF IInv
<1>2. run'[r] = n /\ \A q \in Runs \ {r} : run'[q] = run[q]
  BY DEF Become, IInv, TypeOK
<1>3. RunsValid' /\ HoldersValid'
  BY <1>2 DEF IInv, RunsValid, RunValid, HoldersValid, HolderValid, Holds
<1>4. CallsValid' /\ OnceSpentOnce'
  BY DEF IInv, CallsValid, CallValid, OnceSpentOnce
<1>5. GrantsValid'
  <2>1. ASSUME NEW k \in Keys, NEW q \in Runs, GaveUp(q, k) PROVE GaveUp(q, k)'
    BY <1>2, <2>1 DEF GaveUp
  <2>2. \A q \in Runs : Holds(run'[q]) <=> Holds(run[q])
    BY <1>2
  <2>3. \A q \in Runs : Holds(run[q]) => run'[q] = run[q]
    BY <1>2
  <2>4. ASSUME NEW k \in Keys, NEW i \in DOMAIN grants'[k]
        PROVE  GrantValid(grants[k][i], k)'
    <3> DEFINE g == grants[k][i]
    <3>1. i \in DOMAIN grants[k] /\ grants'[k][i] = g
      BY <1>1
    <3>2. GrantValid(g, k) /\ g.claim \in Runs \cup {Nobody} /\ g.scope \in Scopes
      BY <3>1 DEF IInv, GrantsValid, TypeOK, IsList, Grants
    <3>. QED  BY <2>1, <2>2, <2>3, <3>1, <3>2 DEF GrantValid
  <2>. QED  BY <2>4 DEF GrantsValid
<1>6. GrantsDistinct'
  BY <1>1 DEF IInv, GrantsDistinct
<1>. QED  BY <1>3, <1>4, <1>5, <1>6 DEF IInv

LEMMA RunTyped == ASSUME IInv, NEW r \in Runs PROVE run[r] \in RunRecords /\ RunValid(run[r])
BY DEF IInv, TypeOK, RunsValid

\* A run that only moves, and holds no once grant.
LEMMA MovesKeep ==
  ASSUME IInv, NEW r \in Runs, NEW n \in RunRecords, Moves(r, n), RunValid(n),
         ~Holds(run[r]), ~Holds(n), run[r].abandoned => n.abandoned,
         \/ run[r].pc \in {"none", "plan"}
         \/ n.pc \notin {"none", "plan"} /\ n.left \subseteq run[r].left
  PROVE  IInv'
<1>1. Become(r, n) /\ UNCHANGED <<files, log, call, bounds, spent>>
  BY DEF Moves
<1>2. Loses /\ \A l \in Keys : IsList(grants'[l])
  BY <1>1, SameLoses DEF IInv, files
<1>3. TypeOK' /\ PendingKeyed'
  BY <1>1, <1>2 DEF IInv, TypeOK, PendingKeyed, Pending, files, bounds, Become
<1>. QED  BY <1>1, <1>2, <1>3, FreeRunKeeps

LEMMA BeginKeeps ==
  ASSUME IInv, NEW r \in Runs, NEW K \in SUBSET Keys, Begin(r, K) PROVE IInv'
<1> DEFINE n == [NoRun EXCEPT !.pc = "plan", !.left = K, !.all = K]
<1>1. n \in RunRecords /\ RunValid(n) /\ ~Holds(n)
  BY DEF NoRun, RunRecords, RunValid, Holds
<1>2. run[r].pc = "none" /\ Moves(r, n) /\ ~Holds(run[r])
  BY RunTyped DEF Begin, RunValid, Holds
<1>3. ~run[r].abandoned
  BY <1>2, RunTyped DEF RunValid
<1>. QED  BY <1>1, <1>2, <1>3, MovesKeep

LEMMA PreflightKeeps ==
  ASSUME IInv, NEW r \in Runs, NEW k \in Keys, Preflight(r, k) PROVE IInv'
<1> DEFINE c == run[r]
           n == [c EXCEPT !.left = @ \ {k},
                   !.ask = IF FirstMatch(k, Nobody) = 0 THEN @ \cup {k} ELSE @]
<1>1. c \in RunRecords /\ RunValid(c) /\ c.pc = "plan" /\ Moves(r, n)
  BY RunTyped DEF Preflight
<1>2. n \in RunRecords /\ RunValid(n) /\ ~Holds(c) /\ ~Holds(n)
      /\ n.abandoned = c.abandoned
  BY <1>1 DEF RunRecords, RunValid, Holds
<1>. QED  BY <1>1, <1>2, MovesKeep

LEMMA PreflightDoneKeeps == ASSUME IInv, NEW r \in Runs, PreflightDone(r) PROVE IInv'
<1> DEFINE c == run[r]
           n == IF c.ask = {} THEN [c EXCEPT !.pc = "loop", !.left = c.all]
                ELSE [c EXCEPT !.pc = "block", !.left = c.ask]
<1>1. c \in RunRecords /\ RunValid(c) /\ c.pc = "plan" /\ Moves(r, n)
  BY RunTyped DEF PreflightDone
<1>2. n \in RunRecords /\ RunValid(n) /\ ~Holds(c) /\ ~Holds(n)
      /\ n.abandoned = c.abandoned
  BY <1>1 DEF RunRecords, RunValid, Holds
<1>. QED  BY <1>1, <1>2, MovesKeep

\* A run that is over, whatever it left behind.
LEMMA OverValid ==
  ASSUME NEW c \in RunRecords
  PROVE  /\ Over(c) \in RunRecords /\ RunValid(Over(c)) /\ ~Holds(Over(c))
         /\ Over(c).pc = "over" /\ Over(c).left = {} /\ Over(c).abandoned = c.abandoned
BY DEF Over, NoRun, RunRecords, RunValid, Holds

LEMMA FinishKeeps == ASSUME IInv, NEW r \in Runs, Finish(r) PROVE IInv'
<1>1. /\ run[r] \in RunRecords /\ RunValid(run[r]) /\ run[r].pc \in {"loop", "block"}
      /\ Moves(r, Over(run[r]))
  BY RunTyped DEF Finish
<1>2. ~Holds(run[r])
  BY <1>1 DEF RunValid, Holds
<1>. QED  BY <1>1, <1>2, OverValid, MovesKeep

LEMMA AppendPendingKeeps ==
  ASSUME IInv, NEW r \in Runs, NEW k \in Keys, AppendPending(r, k) PROVE IInv'
<1> DEFINE c == run[r]
           done == [c EXCEPT !.pc = IF c.pc = "ask" THEN "loop" ELSE "block",
                             !.left = @ \ {k}, !.key = Nobody]
<1>1. c \in RunRecords /\ RunValid(c) /\ c.pc \in {"ask", "block"}
  BY RunTyped DEF AppendPending
<1>2. PICK n \in {done, Over(c)} : Become(r, n)
  BY DEF AppendPending
<1>3. /\ n \in RunRecords /\ RunValid(n) /\ ~Holds(n) /\ n.abandoned = c.abandoned
      /\ n.pc \notin {"none", "plan"} /\ n.left \subseteq c.left
  <2>1. /\ done \in RunRecords /\ RunValid(done) /\ ~Holds(done)
        /\ done.abandoned = c.abandoned
        /\ done.pc \notin {"none", "plan"} /\ done.left \subseteq c.left
    BY <1>1 DEF RunRecords, RunValid, Holds
  <2>. QED  BY <1>1, <1>2, <2>1, OverValid
<1>4. ~Holds(c)
  BY <1>1 DEF RunValid, Holds
<1>5. UNCHANGED <<grants, log, call, bounds, spent>> /\ (Publish(k) \/ TooManyPending(k))
  BY DEF AppendPending
<1>6. Loses /\ \A l \in Keys : IsList(grants'[l])
  BY <1>5, SameLoses DEF IInv
<1>7. TypeOK' /\ PendingKeyed'
  BY <1>2, <1>3, <1>5, <1>6, PublishTypes DEF IInv, TypeOK, bounds, Become
<1>. QED  BY <1>2, <1>3, <1>4, <1>5, <1>6, <1>7, FreeRunKeeps

\* Lists in which grants are removed and claims change.
Reclaims ==
  /\ DOMAIN grants' = Keys
  /\ \A k \in Keys :
       /\ DOMAIN grants'[k] \subseteq DOMAIN grants[k]
       /\ grants'[k] \in [DOMAIN grants'[k] -> Grants]
       /\ \A i \in DOMAIN grants'[k] : /\ grants'[k][i].by = grants[k][i].by
                                       /\ grants'[k][i].scope = grants[k][i].scope

LEMMA ReclaimsKeeps ==
  ASSUME IInv, Reclaims
  PROVE  /\ \A k \in Keys : IsList(grants'[k])
         /\ GrantsDistinct'
<1>1. \A k \in Keys : IsList(grants[k]) /\ IsList(grants'[k])
  BY PartIsList DEF IInv, TypeOK, Reclaims
<1>2. GrantsDistinct'
  <2>1. ASSUME NEW k \in Keys, NEW l \in Keys,
               NEW i \in DOMAIN grants'[k], NEW j \in DOMAIN grants'[l],
               grants'[k][i].by = grants'[l][j].by
        PROVE  k = l /\ i = j
    <3>1. i \in DOMAIN grants[k] /\ j \in DOMAIN grants[l]
          /\ grants[k][i].by = grants[l][j].by
      BY <2>1 DEF Reclaims
    <3>. QED  BY <3>1 DEF IInv, GrantsDistinct
  <2>. QED  BY <2>1 DEF GrantsDistinct
<1>. QED  BY <1>1, <1>2

LEMMA GrantTyped ==
  ASSUME IInv, NEW k \in Keys, NEW i \in DOMAIN grants[k]
  PROVE  grants[k][i] \in Grants /\ GrantValid(grants[k][i], k)
BY DEF IInv, TypeOK, IsList, GrantsValid

\* A run claims an unclaimed once grant, at place p of key k.
LEMMA ClaimKeeps ==
  ASSUME IInv, TypeOK', PendingKeyed', UNCHANGED <<log, call, spent>>,
         NEW r \in Runs, NEW k \in Keys, NEW p \in DOMAIN grants[k],
         grants[k][p].scope = "once", grants[k][p].claim = Nobody,
         ~Holds(run[r]), NEW n, Become(r, n), RunValid(n), Holds(n), n.pc = "claimed",
         n.key = k, n.by = grants[k][p].by, n.abandoned = run[r].abandoned,
         n.left = run[r].left, Reclaims,
         \A l \in Keys : \A i \in DOMAIN grants'[l] :
           grants'[l][i] = IF l = k /\ i = p THEN [grants[l][i] EXCEPT !.claim = r]
                           ELSE grants[l][i]
  PROVE  IInv'
<1> DEFINE g == grants[k][p]
<1>1. run'[r] = n /\ \A q \in Runs \ {r} : run'[q] = run[q]
  BY DEF Become, IInv, TypeOK
<1>2. g \in Grants /\ GrantValid(g, k) /\ Nobody \notin Runs
  BY GrantTyped, NamesAssumption
<1>3. \A q \in Runs : Holds(run[q]) => run[q].by # g.by
  BY <1>2 DEF GrantValid
<1>4. GrantsDistinct' /\ \A l \in Keys : DOMAIN grants'[l] \subseteq DOMAIN grants[l]
  BY ReclaimsKeeps DEF Reclaims
<1>5. RunsValid'
  BY <1>1 DEF IInv, RunsValid, RunValid, Holds
<1>6. CallsValid' /\ OnceSpentOnce'
  BY DEF IInv, CallsValid, CallValid, OnceSpentOnce
<1>7. HoldersValid'
  <2>1. ASSUME NEW q \in Runs PROVE HolderValid(q)'
    <3>1. CASE q = r
      BY <1>1, <1>2, <1>3, <3>1 DEF HolderValid, GrantValid
    <3>2. CASE q # r
      BY <1>1, <1>3, <3>2 DEF HolderValid, HoldersValid, IInv
    <3>. QED  BY <3>1, <3>2
  <2>. QED  BY <2>1 DEF HoldersValid
<1>8. GrantsValid'
  <2>1. ASSUME NEW l \in Keys, NEW q \in Runs, GaveUp(q, l) PROVE GaveUp(q, l)'
    <3>1. CASE q = r
      BY <1>1, <2>1, <3>1 DEF GaveUp
    <3>2. CASE q # r
      BY <1>1, <2>1, <3>2 DEF GaveUp
    <3>. QED  BY <3>1, <3>2
  <2>2. ASSUME NEW l \in Keys, NEW i \in DOMAIN grants'[l]
        PROVE  GrantValid(grants[l][i], l)'
    <3> DEFINE x == grants[l][i]
    <3>1. x \in Grants /\ GrantValid(x, l) /\ i \in DOMAIN grants[l]
      BY <1>4, GrantTyped
    <3>2. CASE l = k /\ i = p
      <4>1. /\ grants'[l][i].by = g.by /\ grants'[l][i].scope = "once"
            /\ grants'[l][i].claim = r
        BY <1>2, <3>2 DEF Grants
      <4>2. \A q \in Runs : Holds(run'[q]) /\ run'[q].by = g.by => q = r
        BY <1>1, <1>3
      <4>. QED  BY <1>1, <1>2, <3>2, <4>1, <4>2 DEF GrantValid
    <3>3. CASE ~(l = k /\ i = p)
      <4>0. grants[l][i].by = grants[k][p].by => l = k /\ i = p
        BY <3>1 DEF IInv, GrantsDistinct
      <4>1. grants'[l][i] = x /\ x.by # g.by
        BY <3>3, <4>0
      <4>2. \A q \in Runs : Holds(run'[q]) /\ run'[q].by = x.by => q # r /\ Holds(run[q])
        BY <1>1, <4>1
      <4>3. \A q \in Runs : Holds(run[q]) => Holds(run'[q]) /\ run'[q] = run[q]
        BY <1>1
      <4>. QED  BY <1>1, <2>1, <3>1, <4>1, <4>2, <4>3 DEF GrantValid, Grants
    <3>. QED  BY <3>2, <3>3
  <2>. QED  BY <2>2 DEF GrantsValid
<1>. QED  BY <1>4, <1>5, <1>6, <1>7, <1>8 DEF IInv

\* Whether the grant at place i of key l is a once grant of key k that run r claimed.
Claimed(r, k, l, i) == l = k /\ grants[l][i].scope = "once" /\ grants[l][i].claim = r

Freed(g) == [g EXCEPT !.claim = Nobody]

\* A run lets go of its once grant: the grant is removed, free again though the
\* command did not run, or left claimed by a run that does not come back.
LEMMA ReleaseKeeps ==
  ASSUME IInv, TypeOK', PendingKeyed', UNCHANGED <<log, call, spent>>,
         NEW r \in Runs, NEW n, Become(r, n), RunValid(n), Holds(run[r]), ~Holds(n),
         run[r].abandoned => n.abandoned, n.pc \notin {"none", "plan"},
         n.left \subseteq run[r].left, Reclaims,
         \A l \in Keys : \A i \in DOMAIN grants'[l] :
           \/ /\ grants'[l][i] = grants[l][i]
              /\ Claimed(r, run[r].key, l, i) => n.abandoned /\ l \notin n.left
           \/ /\ grants'[l][i] = Freed(grants[l][i])
              /\ Claimed(r, run[r].key, l, i) /\ spent[run[r].by] = 0
  PROVE  IInv'
<1> DEFINE c == run[r]
<1>1. run'[r] = n /\ \A q \in Runs \ {r} : run'[q] = run[q]
  BY DEF Become, IInv, TypeOK
<1>2. c.key \in c.left /\ HolderValid(r)
  BY RunTyped DEF RunValid, Holds, IInv, HoldersValid
<1>3. GrantsDistinct' /\ \A l \in Keys : DOMAIN grants'[l] \subseteq DOMAIN grants[l]
  BY ReclaimsKeeps DEF Reclaims
<1>4. RunsValid' /\ HoldersValid'
  BY <1>1 DEF IInv, RunsValid, RunValid, HoldersValid, HolderValid, Holds
<1>5. CallsValid' /\ OnceSpentOnce'
  BY DEF IInv, CallsValid, CallValid, OnceSpentOnce
<1>6. ASSUME NEW l \in Keys, NEW q \in Runs, GaveUp(q, l) PROVE GaveUp(q, l)'
  <2>1. CASE q = r
    BY <1>1, <1>6, <2>1 DEF GaveUp
  <2>2. CASE q # r
    BY <1>1, <1>6, <2>2 DEF GaveUp
  <2>. QED  BY <2>1, <2>2
<1>7. ASSUME NEW l \in Keys, NEW i \in DOMAIN grants'[l]
      PROVE  GrantValid(grants[l][i], l)'
  <2> DEFINE g == grants[l][i]
             mine == l = c.key /\ g.scope = "once" /\ g.claim = r
  <2>1. g \in Grants /\ GrantValid(g, l) /\ i \in DOMAIN grants[l]
    BY <1>3, GrantTyped
  <2>0. \/ grants'[l][i] = g /\ (mine => n.abandoned /\ l \notin n.left)
        \/ grants'[l][i] = [g EXCEPT !.claim = Nobody] /\ mine /\ spent[c.by] = 0
    BY DEF Claimed, Freed
  <2>2. \A q \in Runs : Holds(run'[q]) => q # r /\ Holds(run[q]) /\ run'[q] = run[q]
    BY <1>1
  <2>3. CASE mine
    <3>1. g.by = c.by
      BY <1>2, <2>1, <2>3, NamesAssumption DEF GrantValid, GaveUp
    <3>2. \A q \in Runs : Holds(run'[q]) => run'[q].by # g.by
      BY <1>2, <2>2, <3>1 DEF HolderValid
    <3>3. CASE /\ grants'[l][i] = [g EXCEPT !.claim = Nobody] /\ spent[c.by] = 0
      <4>1. /\ grants'[l][i].by = g.by /\ grants'[l][i].scope = "once"
            /\ grants'[l][i].claim = Nobody
        BY <2>1, <2>3, <3>3 DEF Grants
      <4>. QED  BY <2>1, <3>1, <3>2, <3>3, <4>1 DEF GrantValid
    <3>4. CASE grants'[l][i] = g /\ n.abandoned /\ l \notin n.left
      <4>1. GaveUp(r, l)'
        BY <1>1, <3>4 DEF GaveUp
      <4>2. g.claim = r /\ r \in Runs /\ Nobody \notin Runs /\ g.scope = "once"
        BY <2>3, NamesAssumption
      <4>3. UNCHANGED <<log, call, spent>> /\ g.by \in log /\ call[g.by].pc = "over"
        BY <2>1 DEF GrantValid
      <4>. QED  BY <3>2, <3>4, <4>1, <4>2, <4>3 DEF GrantValid
    <3>. QED  BY <2>0, <2>3, <3>3, <3>4
  <2>4. CASE ~mine
    <3>1. grants'[l][i] = g
      BY <2>0, <2>4
    <3>2. ASSUME NEW q \in Runs, g.scope = "once", g.claim = q
          PROVE  (Holds(run'[q]) /\ run'[q].by = g.by) \/ GaveUp(q, l)'
      <4>1. CASE GaveUp(q, l)
        BY <1>6, <4>1
      <4>2. CASE Holds(run[q]) /\ run[q].by = g.by
        <5>1. q # r
          BY <2>1, <2>4, <3>2, <4>2 DEF GrantValid
        <5>. QED  BY <1>1, <4>2, <5>1
      <4>. QED  BY <2>1, <3>2, <4>1, <4>2, NamesAssumption DEF GrantValid
    <3>3. g.claim \in Runs \cup {Nobody}
      BY <2>1 DEF Grants
    <3>. QED  BY <2>1, <2>2, <3>1, <3>2, <3>3 DEF GrantValid
  <2>. QED  BY <2>3, <2>4
<1>8. GrantsValid'
  BY <1>7 DEF GrantsValid
<1>. QED  BY <1>3, <1>4, <1>5, <1>8 DEF IInv

\* settleClaims removes or frees the once grants that run r claimed at key k.
LEMMA SettledIs ==
  ASSUME IInv, NEW k \in Keys, NEW r \in Runs, NEW consume \in BOOLEAN,
         grants' = Settled(k, r, consume)
  PROVE  /\ Reclaims
         /\ \A l \in Keys : \A i \in DOMAIN grants'[l] :
              IF Claimed(r, k, l, i)
              THEN ~consume /\ grants'[l][i] = Freed(grants[l][i])
              ELSE grants'[l][i] = grants[l][i]
<1> DEFINE mine(l, i) == l = k /\ grants[l][i].scope = "once" /\ grants[l][i].claim = r
           left == {j \in DOMAIN grants[k] : ~(consume /\ mine(k, j))}
<1>1. /\ grants'[k] = [i \in left |-> IF mine(k, i) THEN [grants[k][i] EXCEPT !.claim = Nobody]
                                      ELSE grants[k][i]]
      /\ \A l \in Keys \ {k} : grants'[l] = grants[l]
      /\ DOMAIN grants' = Keys
  BY DEF Settled, IInv, TypeOK
<1>2. ASSUME NEW l \in Keys, NEW i \in DOMAIN grants'[l]
      PROVE  /\ i \in DOMAIN grants[l]
             /\ mine(l, i) => ~consume /\ grants'[l][i] = [grants[l][i] EXCEPT !.claim = Nobody]
             /\ ~mine(l, i) => grants'[l][i] = grants[l][i]
  BY <1>1
<1>3. ASSUME NEW l \in Keys, NEW i \in DOMAIN grants'[l]
      PROVE  /\ grants'[l][i] \in Grants /\ grants'[l][i].by = grants[l][i].by
             /\ grants'[l][i].scope = grants[l][i].scope
  <2>1. grants[l][i] \in Grants
    BY <1>2, GrantTyped
  <2>2. CASE mine(l, i)
    <3>1. grants'[l][i] = [grants[l][i] EXCEPT !.claim = Nobody]
      BY <1>2, <2>2
    <3>. QED  BY <2>1, <3>1 DEF Grants
  <2>3. CASE ~mine(l, i)
    <3>1. grants'[l][i] = grants[l][i]
      BY <1>2, <2>3
    <3>. QED  BY <2>1, <3>1 DEF Grants
  <2>. QED  BY <2>2, <2>3
<1>4. ASSUME NEW l \in Keys
      PROVE  /\ DOMAIN grants'[l] \subseteq DOMAIN grants[l]
             /\ grants'[l] \in [DOMAIN grants'[l] -> Grants]
  <2>1. CASE l = k
    BY <1>1, <1>3, <2>1
  <2>2. CASE l # k
    BY <1>1, <2>2 DEF IInv, TypeOK, IsList
  <2>. QED  BY <2>1, <2>2
<1>5. Reclaims
  BY <1>1, <1>2, <1>3, <1>4 DEF Reclaims
<1>6. ASSUME NEW l \in Keys, NEW i \in DOMAIN grants'[l]
      PROVE  IF Claimed(r, k, l, i)
             THEN ~consume /\ grants'[l][i] = Freed(grants[l][i])
             ELSE grants'[l][i] = grants[l][i]
  BY <1>2 DEF Claimed, Freed
<1>. QED  BY <1>5, <1>6

\* The rest of the type invariant, when a run step changes grants, too.
LEMMA RunStepTyped ==
  ASSUME IInv, NEW r \in Runs, NEW n \in RunRecords, Become(r, n), DOMAIN grants' = Keys,
         \A k \in Keys : IsList(grants'[k]), UNCHANGED <<issued, request, response, log, call, now>>,
         failures' \in Nat, spent' \in [Calls -> Nat]
  PROVE  TypeOK' /\ PendingKeyed'
BY DEF IInv, TypeOK, PendingKeyed, Pending, Become

LEMMA NextTargetValid ==
  ASSUME NEW c \in RunRecords
  PROVE  /\ NextTarget(c) \in RunRecords /\ RunValid(NextTarget(c)) /\ ~Holds(NextTarget(c))
         /\ NextTarget(c).pc = "loop" /\ NextTarget(c).left = c.left \ {c.key}
         /\ NextTarget(c).abandoned = c.abandoned
BY DEF NextTarget, RunRecords, RunValid, Holds

\* What a run may rely on while it may use a grant.
LEMMA AtTarget ==
  ASSUME IInv, NEW r \in Runs, run[r].pc \in {"claimed", "settle"}
  PROVE  /\ run[r] \in RunRecords /\ RunValid(run[r]) /\ run[r].key \in Keys
         /\ run[r].key \in run[r].left /\ run[r].by \in Calls
         /\ Holds(run[r]) => HolderValid(r)
BY RunTyped DEF RunValid, RunRecords, IInv, HoldersValid

\* A step that hands back an unused grant, if it is a once grant, and goes on as n.
LEMMA RestoreKeeps ==
  ASSUME IInv, NEW r \in Runs, NEW n \in RunRecords, Become(r, n), RunValid(n), ~Holds(n),
         \/ run[r].pc = "claimed"
         \/ run[r].pc = "settle" /\ run[r].result = "ssh",
         n.pc \in {"loop", "over"}, n.left \subseteq run[r].left, n.abandoned = run[r].abandoned,
         grants' = (IF Holds(run[r]) THEN Settled(run[r].key, r, FALSE) ELSE grants),
         UNCHANGED <<issued, request, response, log, call, now, spent>>, failures' \in Nat
  PROVE  IInv'
<1> DEFINE c == run[r]
<1>1. c.key \in Keys /\ (Holds(c) => spent[c.by] = 0)
  BY AtTarget DEF HolderValid
<1>2. CASE Holds(c)
  <2>1. /\ Reclaims
        /\ \A l \in Keys : \A i \in DOMAIN grants'[l] :
             IF Claimed(r, c.key, l, i)
             THEN grants'[l][i] = Freed(grants[l][i]) ELSE grants'[l][i] = grants[l][i]
    <3>1. grants' = Settled(c.key, r, FALSE)
      BY <1>2
    <3> HIDE DEF c
    <3>. QED  BY <1>1, <3>1, SettledIs
  <2>2. TypeOK' /\ PendingKeyed'
    <3>1. \A k \in Keys : IsList(grants'[k])
      BY <2>1, ReclaimsKeeps
    <3>2. spent' \in [Calls -> Nat] /\ DOMAIN grants' = Keys
      BY <2>1 DEF IInv, TypeOK, Reclaims
    <3>. QED  BY <3>1, <3>2, RunStepTyped
  <2>. QED  BY <1>1, <1>2, <2>1, <2>2, ReleaseKeeps
<1>3. CASE ~Holds(c)
  <2>1. Loses /\ \A l \in Keys : IsList(grants'[l])
    BY <1>3, SameLoses DEF IInv
  <2>2. TypeOK' /\ PendingKeyed'
    BY <2>1, RunStepTyped DEF Loses, IInv, TypeOK
  <2>. QED  BY <1>3, <2>1, <2>2, FreeRunKeeps
<1>. QED  BY <1>2, <1>3

LEMMA RefuseStdinKeeps == ASSUME IInv, NEW r \in Runs, RefuseStdin(r) PROVE IInv'
<1>1. /\ run[r] \in RunRecords /\ run[r].pc = "claimed" /\ Become(r, NextTarget(run[r]))
      /\ UNCHANGED <<issued, request, response, log, call, now, spent>> /\ failures' \in Nat
      /\ grants' = (IF Holds(run[r]) THEN Settled(run[r].key, r, FALSE) ELSE grants)
  BY RunTyped DEF RefuseStdin, bounds, IInv, TypeOK
<1>. QED  BY <1>1, NextTargetValid, RestoreKeeps

LEMMA StartUnauditedKeeps == ASSUME IInv, NEW r \in Runs, StartUnaudited(r) PROVE IInv'
<1>1. /\ run[r] \in RunRecords /\ run[r].pc = "claimed" /\ Become(r, Over(run[r]))
      /\ UNCHANGED <<issued, request, response, log, call, now, spent>> /\ failures' \in Nat
      /\ grants' = (IF Holds(run[r]) THEN Settled(run[r].key, r, FALSE) ELSE grants)
  BY RunTyped DEF StartUnaudited, IInv, TypeOK
<1>. QED  BY <1>1, OverValid, RestoreKeeps

\* A settlement after a remote exit removes the grant it spent.
LEMMA SettleKeeps == ASSUME IInv, NEW r \in Runs, Settle(r) PROVE IInv'
<1> DEFINE c == run[r]
           n == NextTarget(c)
<1>1. /\ c \in RunRecords /\ RunValid(c) /\ c.pc = "settle" /\ c.result \in {"exit", "ssh"}
      /\ c.key \in Keys /\ Become(r, n)
      /\ UNCHANGED <<issued, request, response, log, call, now, spent>> /\ failures' \in Nat
      /\ grants' = (IF Holds(c) THEN Settled(c.key, r, c.result = "exit") ELSE grants)
  BY AtTarget DEF Settle, SettleOnceClaim, RunValid, RunRecords, bounds, IInv, TypeOK
<1>2. /\ n \in RunRecords /\ RunValid(n) /\ ~Holds(n) /\ n.pc = "loop"
      /\ n.left \subseteq c.left /\ n.abandoned = c.abandoned
  BY <1>1, NextTargetValid
<1>3. CASE c.result = "ssh" \/ ~Holds(c)
  <2>1. CASE c.result = "ssh"
    <3>1. grants' = (IF Holds(c) THEN Settled(c.key, r, FALSE) ELSE grants)
      BY <1>1, <2>1
    <3>. QED  BY <1>1, <1>2, <2>1, <3>1, RestoreKeeps
  <2>2. CASE ~Holds(c)
    <3>1. Loses /\ \A l \in Keys : IsList(grants'[l])
      BY <1>1, <2>2, SameLoses DEF IInv
    <3>2. TypeOK' /\ PendingKeyed'
      BY <1>1, <1>2, <3>1, RunStepTyped DEF Loses, IInv, TypeOK
    <3>. QED  BY <1>1, <1>2, <2>2, <3>1, <3>2, FreeRunKeeps
  <2>. QED  BY <1>3, <2>1, <2>2
<1>4. CASE c.result = "exit" /\ Holds(c)
  <2>1. /\ Reclaims
        /\ \A l \in Keys : \A i \in DOMAIN grants'[l] :
             ~Claimed(r, c.key, l, i) /\ grants'[l][i] = grants[l][i]
    <3> DEFINE consume == c.result = "exit"
    <3>1. grants' = Settled(c.key, r, consume) /\ consume \in BOOLEAN
      BY <1>1, <1>4
    <3>2. consume
      BY <1>4
    <3> HIDE DEF consume
    <3>3. /\ Reclaims
          /\ \A l \in Keys : \A i \in DOMAIN grants'[l] :
               IF Claimed(r, c.key, l, i)
               THEN ~consume /\ grants'[l][i] = Freed(grants[l][i])
               ELSE grants'[l][i] = grants[l][i]
      BY <1>1, <3>1, SettledIs
    <3>. QED  BY <3>2, <3>3
  <2>2. TypeOK' /\ PendingKeyed'
    <3>1. \A k \in Keys : IsList(grants'[k])
      BY <2>1, ReclaimsKeeps
    <3>2. spent' \in [Calls -> Nat] /\ DOMAIN grants' = Keys
      BY <1>1, <2>1 DEF IInv, TypeOK, Reclaims
    <3>. QED  BY <1>1, <1>2, <3>1, <3>2, RunStepTyped
  <2>. QED  BY <1>1, <1>2, <1>4, <2>1, <2>2, ReleaseKeeps
<1>. QED  BY <1>1, <1>3, <1>4


LEMMA LiveIs ==
  ASSUME NEW k \in Keys
  PROVE  /\ DOMAIN Live(k) \subseteq DOMAIN grants[k]
         /\ \A i \in DOMAIN Live(k) : Live(k)[i] = grants[k][i]
         /\ \A i \in DOMAIN grants[k] \ DOMAIN Live(k) : ~LiveGrant(grants[k][i])
         /\ Live(k) = Only(grants[k], DOMAIN Live(k))
BY DEF Live, Only

LEMMA LiveLoses ==
  ASSUME IInv, NEW k \in Keys, grants' = [grants EXCEPT ![k] = Live(k)]
  PROVE  Loses /\ \A l \in Keys : IsList(grants'[l])
<1>1. \A l \in Keys : grants[l] = Only(grants[l], DOMAIN grants[l])
  BY DEF IInv, TypeOK, IsList, Only
<1>2. grants'[k] = Live(k) /\ \A l \in Keys \ {k} : grants'[l] = grants[l]
  BY DEF IInv, TypeOK
<1>3. DOMAIN grants' = Keys
  BY DEF IInv, TypeOK
<1>4. Loses
  BY <1>1, <1>2, <1>3, LiveIs DEF Loses
<1>. QED  BY <1>4, LosesKeeps DEF IInv

\* A run finds nothing, a session grant, or an unclaimed once grant.
LEMMA AuthorizeKeeps ==
  ASSUME IInv, NEW r \in Runs, NEW k \in Keys, Authorize(r, k) PROVE IInv'
<1> DEFINE c  == run[r]
           at == FirstMatch(k, r)
           g  == grants[k][at]
<1>1. /\ c \in RunRecords /\ RunValid(c) /\ c.pc = "loop" /\ k \in c.left /\ ~Holds(c)
      /\ UNCHANGED <<issued, request, response, log, call, now, spent>> /\ failures' \in Nat
  BY RunTyped DEF Authorize, RunValid, Holds, bounds, IInv, TypeOK
<1>2. CASE at = 0
  <2> DEFINE n == [c EXCEPT !.pc = "ask", !.key = k]
  <2>1. Become(r, n) /\ grants' = [grants EXCEPT ![k] = Live(k)]
    BY <1>2 DEF Authorize
  <2>2. n \in RunRecords /\ RunValid(n) /\ ~Holds(n) /\ n.abandoned = c.abandoned
        /\ n.pc \notin {"none", "plan"} /\ n.left = c.left
    BY <1>1 DEF RunRecords, RunValid, Holds
  <2>3. Loses /\ \A l \in Keys : IsList(grants'[l])
    BY <2>1, LiveLoses
  <2>4. TypeOK' /\ PendingKeyed'
    BY <1>1, <2>1, <2>2, <2>3, RunStepTyped DEF Loses, IInv, TypeOK
  <2> HIDE DEF n
  <2>. QED  BY <1>1, <2>1, <2>2, <2>3, <2>4, FreeRunKeeps
<1>3. CASE at # 0
  <2> DEFINE n == [c EXCEPT !.pc = "claimed", !.key = k, !.scope = g.scope, !.by = g.by]
  <2>1. /\ at \in DOMAIN Live(k) /\ at \in DOMAIN grants[k] /\ Usable(g, r)
        /\ Live(k)[at] = g
    BY <1>3, FirstMatchUsable DEF IInv
  <2>2. g \in Grants /\ GrantValid(g, k)
    BY <2>1, GrantTyped
  <2>3. Become(r, n)
    BY <1>3, <2>1 DEF Authorize
  <2>4. n \in RunRecords /\ RunValid(n) /\ n.abandoned = c.abandoned /\ n.pc = "claimed"
        /\ n.left = c.left /\ n.key = k /\ n.by = g.by /\ n.scope = g.scope
    BY <1>1, <2>2 DEF RunRecords, RunValid, Grants, Scopes
  <2> HIDE DEF n
  <2>5. CASE g.scope = "session"
    <3>1. grants' = [grants EXCEPT ![k] = Live(k)]
      BY <1>3, <2>1, <2>5 DEF Authorize
    <3>2. Loses /\ \A l \in Keys : IsList(grants'[l])
      BY <3>1, LiveLoses
    <3>3. TypeOK' /\ PendingKeyed'
      BY <1>1, <2>3, <2>4, <3>2, RunStepTyped DEF Loses, IInv, TypeOK
    <3>4. ~Holds(n)
      BY <2>4, <2>5 DEF Holds
    <3>. QED  BY <1>1, <2>3, <2>4, <3>2, <3>3, <3>4, FreeRunKeeps
  <2>6. CASE g.scope = "once"
    <3>1. g.claim = Nobody
      BY <1>1, <2>1, <2>2, <2>6 DEF Usable, GrantValid, GaveUp
    <3>2. grants' = [grants EXCEPT ![k] = [Live(k) EXCEPT ![at].claim = r]]
      BY <1>3, <2>1, <2>6 DEF Authorize
    <3>3. /\ DOMAIN grants' = Keys /\ DOMAIN grants'[k] = DOMAIN Live(k)
          /\ \A l \in Keys \ {k} : grants'[l] = grants[l]
          /\ \A i \in DOMAIN Live(k) :
               grants'[k][i] = IF i = at THEN [g EXCEPT !.claim = r] ELSE grants[k][i]
          /\ grants'[k] = [i \in DOMAIN Live(k) |-> grants'[k][i]]
      BY <2>1, <3>2, LiveIs DEF IInv, TypeOK, Live, Only
    <3>4. \A l \in Keys : \A i \in DOMAIN grants'[l] :
            /\ i \in DOMAIN grants[l]
            /\ grants'[l][i] = IF l = k /\ i = at THEN [grants[l][i] EXCEPT !.claim = r]
                               ELSE grants[l][i]
      BY <3>3, LiveIs
    <3>5. Reclaims
      <4>1. [g EXCEPT !.claim = r] \in Grants /\ [g EXCEPT !.claim = r].by = g.by
            /\ [g EXCEPT !.claim = r].scope = g.scope
        BY <2>2 DEF Grants
      <4>2. ASSUME NEW l \in Keys, NEW i \in DOMAIN grants'[l]
            PROVE  /\ grants'[l][i] \in Grants /\ grants'[l][i].by = grants[l][i].by
                   /\ grants'[l][i].scope = grants[l][i].scope
        <5>1. i \in DOMAIN grants[l] /\ grants[l][i] \in Grants
          BY <3>4, GrantTyped
        <5>. QED  BY <3>4, <4>1, <5>1
      <4>3. ASSUME NEW l \in Keys
            PROVE  /\ DOMAIN grants'[l] \subseteq DOMAIN grants[l]
                   /\ grants'[l] \in [DOMAIN grants'[l] -> Grants]
        <5>1. CASE l = k
          BY <3>3, <4>2, <5>1, LiveIs
        <5>2. CASE l # k
          BY <3>3, <5>2 DEF IInv, TypeOK, IsList
        <5>. QED  BY <5>1, <5>2
      <4>. QED  BY <3>3, <4>2, <4>3 DEF Reclaims
    <3>6. TypeOK' /\ PendingKeyed'
      BY <1>1, <2>3, <2>4, <3>5, ReclaimsKeeps, RunStepTyped DEF Reclaims, IInv, TypeOK
    <3>7. Holds(n)
      BY <2>4, <2>6 DEF Holds
    <3>8. UNCHANGED <<log, call, spent>> /\ ~Holds(run[r]) /\ Become(r, n)
      BY <1>1, <2>3, <2>4
    <3>9. RunValid(n) /\ n.pc = "claimed" /\ n.key = k /\ n.by = g.by
          /\ n.abandoned = run[r].abandoned /\ n.left = run[r].left
      BY <1>1, <2>4, <2>6
    <3>10. at \in DOMAIN grants[k]
      BY <2>1
    <3> HIDE DEF at
    <3>. QED  BY <2>6, <3>1, <3>4, <3>5, <3>6, <3>7, <3>8, <3>9, <3>10, ClaimKeeps
  <2>. QED  BY <2>2, <2>5, <2>6 DEF Grants, Scopes
<1>. QED  BY <1>2, <1>3

\* The command runs on a grant, and no other run's command does.
LEMMA ExecuteKeeps == ASSUME IInv, NEW r \in Runs, Execute(r) PROVE IInv'
<1> DEFINE c == run[r]
<1>1. PICK result \in {"exit", "ssh"} :
        /\ Become(r, [c EXCEPT !.pc = "settle", !.result = result])
        /\ spent' = IF result = "exit" /\ Holds(c) THEN [spent EXCEPT ![c.by] = @ + 1]
                    ELSE spent
  BY DEF Execute
<1> DEFINE n == [c EXCEPT !.pc = "settle", !.result = result]
<1>2. /\ c \in RunRecords /\ RunValid(c) /\ c.pc = "claimed" /\ c.by \in Calls
      /\ (Holds(c) => HolderValid(r))
      /\ UNCHANGED <<issued, request, response, log, call, now>> /\ failures' \in Nat
      /\ grants' = grants
  BY AtTarget DEF Execute, files, bounds, IInv, TypeOK
<1>3. n \in RunRecords /\ RunValid(n) /\ (Holds(n) <=> Holds(c)) /\ n.by = c.by
      /\ n.pc = "settle" /\ n.result = result /\ n.key = c.key /\ n.left = c.left
      /\ n.abandoned = c.abandoned
  BY <1>2 DEF RunRecords, RunValid, Holds
<1>4. Loses /\ \A l \in Keys : IsList(grants'[l])
  BY <1>2, SameLoses DEF IInv
<1>5. spent' \in [Calls -> Nat] /\ \A d \in Calls \ {c.by} : spent'[d] = spent[d]
  BY <1>1, <1>2 DEF IInv, TypeOK
<1>6. Become(r, n)
  BY <1>1
<1> HIDE DEF n
<1>7. TypeOK' /\ PendingKeyed'
  BY <1>2, <1>3, <1>4, <1>5, <1>6, RunStepTyped DEF Loses, IInv, TypeOK
<1>8. CASE ~Holds(c)
  <2>1. spent' = spent
    BY <1>1, <1>8
  <2>. QED  BY <1>2, <1>3, <1>4, <1>6, <1>7, <1>8, <2>1, FreeRunKeeps
<1>9. CASE Holds(c)
  <2>1. run'[r] = n /\ \A q \in Runs \ {r} : run'[q] = run[q]
    BY <1>6 DEF Become, IInv, TypeOK
  <2>2. /\ spent[c.by] = 0 /\ call[c.by].pc = "over"
        /\ spent'[c.by] = IF result = "exit" THEN 1 ELSE 0
        /\ \A q \in Runs \ {r} : Holds(run[q]) => run[q].by # c.by
    BY <1>1, <1>2, <1>9 DEF HolderValid, IInv, TypeOK
  <2>3. RunsValid'
    BY <1>3, <2>1 DEF IInv, RunsValid, RunValid, Holds
  <2>4. CallsValid' /\ OnceSpentOnce'
    <3>1. ASSUME NEW d \in Calls PROVE CallValid(d)' /\ spent'[d] <= 1
      BY <1>2, <1>5, <2>2 DEF IInv, CallsValid, CallValid, OnceSpentOnce
    <3>. QED  BY <3>1 DEF CallsValid, OnceSpentOnce
  <2>5. HoldersValid'
    <3>1. ASSUME NEW q \in Runs PROVE HolderValid(q)'
      <4>1. CASE q = r
        BY <1>2, <1>3, <2>1, <2>2, <4>1 DEF HolderValid
      <4>2. CASE q # r
        <5>1. HolderValid(q) /\ run'[q] = run[q] /\ run[q].by \in Calls \cup {Nobody}
          BY <2>1, <4>2, RunTyped DEF IInv, HoldersValid, RunRecords
        <5>2. SUFFICES ASSUME Holds(run[q]) PROVE HolderValid(q)'
          BY <5>1 DEF HolderValid
        <5>3. run[q].by # c.by /\ run[q].by \in Calls
          BY <2>2, <4>2, <5>2, RunTyped DEF RunValid, Holds
        <5>. QED  BY <1>2, <1>3, <1>5, <2>1, <2>2, <4>2, <5>1, <5>3 DEF HolderValid
      <4>. QED  BY <4>1, <4>2
    <3>. QED  BY <3>1 DEF HoldersValid
  <2>6. GrantsValid'
    <3>1. ASSUME NEW k \in Keys, NEW q \in Runs, GaveUp(q, k) PROVE GaveUp(q, k)'
      BY <1>2, <1>3, <2>1, <3>1 DEF GaveUp
    <3>2. \A q \in Runs : /\ Holds(run'[q]) <=> Holds(run[q])
                          /\ run'[q].by = run[q].by /\ run'[q].key = run[q].key
      BY <1>3, <2>1
    <3>3. ASSUME NEW k \in Keys, NEW i \in DOMAIN grants[k]
          PROVE  GrantValid(grants[k][i], k)'
      <4> DEFINE g == grants[k][i]
      <4>1. g \in Grants /\ GrantValid(g, k) /\ grants'[k][i] = g
        BY <1>2, GrantTyped
      <4>2. g.scope = "once" /\ g.claim = Nobody => spent'[g.by] = spent[g.by]
        BY <1>5, <1>9, <4>1, NamesAssumption DEF GrantValid, Grants
      <4>. QED  BY <1>2, <3>1, <3>2, <4>1, <4>2 DEF GrantValid, Grants
    <3>. QED  BY <1>2, <3>3 DEF GrantsValid
  <2>7. GrantsDistinct'
    BY <1>2 DEF IInv, GrantsDistinct
  <2>. QED  BY <1>7, <2>3, <2>4, <2>5, <2>6, <2>7 DEF IInv
<1>. QED  BY <1>8, <1>9

\* A run goes on, or ends, and leaves what it claimed as it is.
LEMMA AbandonKeeps ==
  ASSUME IInv, NEW r \in Runs, NEW n \in RunRecords, Become(r, n), RunValid(n), ~Holds(n),
         n.abandoned = (run[r].abandoned \/ Holds(run[r])), n.pc \in {"loop", "over"},
         n.left \subseteq run[r].left, run[r].key \notin n.left,
         UNCHANGED <<files, log, call, now, spent>>, failures' \in Nat
  PROVE  IInv'
<1>1. UNCHANGED <<issued, request, response, grants>>
  BY DEF files
<1>2. Loses /\ \A l \in Keys : IsList(grants'[l])
  BY <1>1, SameLoses DEF IInv
<1>3. TypeOK' /\ PendingKeyed'
  BY <1>1, <1>2, RunStepTyped DEF Loses, IInv, TypeOK
<1>4. CASE Holds(run[r])
  <2>1. Reclaims
    BY <1>1 DEF Reclaims, IInv, TypeOK, IsList
  <2>2. \A l \in Keys : \A i \in DOMAIN grants'[l] :
          /\ grants'[l][i] = grants[l][i]
          /\ Claimed(r, run[r].key, l, i) => n.abandoned /\ l \notin n.left
    BY <1>1, <1>4 DEF Claimed
  <2>. QED  BY <1>3, <1>4, <2>1, <2>2, ReleaseKeeps
<1>5. CASE ~Holds(run[r])
  BY <1>2, <1>3, <1>5, FreeRunKeeps
<1>. QED  BY <1>4, <1>5

LEMMA SettleFailsKeeps == ASSUME IInv, NEW r \in Runs, SettleFails(r) PROVE IInv'
<1> DEFINE c == run[r]
           n == [NextTarget(c) EXCEPT !.abandoned = @ \/ Holds(c)]
<1>1. /\ c \in RunRecords /\ Become(r, n) /\ failures' \in Nat
      /\ UNCHANGED <<files, log, call, now, spent>>
  BY RunTyped DEF SettleFails, IInv, TypeOK
<1>2. /\ n \in RunRecords /\ RunValid(n) /\ ~Holds(n) /\ n.pc = "loop"
      /\ n.abandoned = (c.abandoned \/ Holds(c)) /\ n.left = c.left \ {c.key}
  <2> DEFINE t == NextTarget(c)
             b == c.abandoned \/ Holds(c)
  <2>1. /\ t \in RunRecords /\ RunValid(t) /\ ~Holds(t) /\ t.pc = "loop"
        /\ t.left = c.left \ {c.key} /\ t.abandoned = c.abandoned
    BY <1>1, NextTargetValid
  <2>2. PICK gave \in BOOLEAN : gave = b
    BY Zenon
  <2>3. n = [t EXCEPT !.abandoned = gave]
    BY <2>1, <2>2
  <2> HIDE DEF t, b, n
  <2>4. n \in RunRecords /\ n.pc = "loop" /\ n.left = t.left /\ n.abandoned = gave
        /\ n.key = t.key /\ n.scope = t.scope /\ n.by = t.by
    BY <2>1, <2>3 DEF RunRecords
  <2>5. RunValid(n) /\ ~Holds(n)
    BY <2>1, <2>4 DEF RunValid, Holds
  <2>. QED  BY <2>1, <2>2, <2>4, <2>5 DEF b
<1>. QED  BY <1>1, <1>2, AbandonKeeps

LEMMA DieKeeps == ASSUME IInv, NEW r \in Runs, Die(r) PROVE IInv'
<1> DEFINE c == run[r]
           last == [c EXCEPT !.abandoned = @ \/ Holds(c)]
<1>1. /\ c \in RunRecords /\ Become(r, Over(last)) /\ failures' \in Nat
      /\ UNCHANGED <<files, log, call, now, spent>>
  BY RunTyped DEF Die, IInv, TypeOK
<1>2. last \in RunRecords /\ last.abandoned = (c.abandoned \/ Holds(c))
  BY <1>1 DEF RunRecords
<1>. QED  BY <1>1, <1>2, OverValid, AbandonKeeps

-----------------------------------------------------------------------------
(* Steps of an operator *)

\* A decision that is not over goes on; the runs and the grants stay.
LEMMA DecisionKeeps ==
  ASSUME IInv, NEW c \in Calls, NEW d \in CallRecords, Decides(c, d), call[c].pc # "over",
         d.pc \in {"open", "resolved", "audited"} => d.key \in Keys /\ d.verdict # "none",
         d.pc = "audited" => c \in log' /\ d.verdict \in Scopes,
         log \subseteq log', log' \subseteq Calls,
         response' \in [Ids -> [verdict : Verdicts, by : Calls \cup {Nobody}]],
         failures' \in Nat, UNCHANGED <<issued, request, grants, run, now, spent>>
  PROVE  IInv'
<1>1. call'[c] = d /\ \A e \in Calls \ {c} : call'[e] = call[e]
  BY DEF Decides, IInv, TypeOK
<1>2. spent[c] = 0
  BY DEF IInv, CallsValid, CallValid
<1>3. \A e \in Calls : call[e].pc = "over" => call'[e].pc = "over"
  BY <1>1
<1>4. TypeOK' /\ PendingKeyed'
  <2>1. \A k \in Keys : IsList(grants'[k])
    BY SameLoses DEF IInv
  <2>. QED  BY <2>1 DEF IInv, TypeOK, PendingKeyed, Pending, Decides
<1>5. RunsValid' /\ OnceSpentOnce' /\ GrantsDistinct'
  BY DEF IInv, RunsValid, RunValid, OnceSpentOnce, GrantsDistinct
<1>6. HoldersValid'
  <2>1. ASSUME NEW r \in Runs, Holds(run[r])
        PROVE  HolderValid(r) /\ run[r].by \in Calls
    BY <2>1, RunTyped DEF IInv, HoldersValid, RunValid, Holds
  <2>. QED  BY <1>3, <2>1 DEF HoldersValid, HolderValid, Holds
<1>7. GrantsValid'
  <2>1. ASSUME NEW k \in Keys, NEW i \in DOMAIN grants[k] PROVE GrantValid(grants[k][i], k)'
    BY <1>3, GrantTyped DEF GrantValid, Grants, GaveUp, Holds
  <2>. QED  BY <2>1 DEF GrantsValid
<1>8. CallsValid'
  <2>1. ASSUME NEW e \in Calls PROVE CallValid(e)'
    BY <1>1, <1>2 DEF IInv, CallsValid, CallValid
  <2>. QED  BY <2>1 DEF CallsValid
<1>. QED  BY <1>4, <1>5, <1>6, <1>7, <1>8 DEF IInv

LEMMA CallTyped == ASSUME IInv, NEW c \in Calls PROVE call[c] \in CallRecords /\ CallValid(c)
BY DEF IInv, TypeOK, CallsValid

LEMMA OpenKeeps ==
  ASSUME IInv, NEW c \in Calls, NEW i \in Ids, NEW v \in Scopes \cup {"denied"}, Open(c, i, v)
  PROVE  IInv'
<1> DEFINE d == [pc |-> "open", id |-> i, key |-> request[i].key, verdict |-> v]
<1>1. /\ call[c].pc = "none" /\ Decides(c, d) /\ request[i].key \in Keys
      /\ UNCHANGED <<issued, request, response, grants, log, run, now, failures, spent>>
  BY DEF Open, IInv, PendingKeyed, Undecided, files, bounds
<1>2. d \in CallRecords /\ d.pc = "open" /\ d.key \in Keys /\ d.verdict # "none"
  <2>1. i \in Nat
    BY BoundsAssumption DEF Ids
  <2>. QED  BY <1>1, <2>1 DEF CallRecords, Verdicts, Scopes
<1>3. log \subseteq Calls /\ failures' \in Nat
      /\ response' \in [Ids -> [verdict : Verdicts, by : Calls \cup {Nobody}]]
  BY <1>1 DEF IInv, TypeOK
<1> HIDE DEF d
<1>. QED  BY <1>1, <1>2, <1>3, DecisionKeeps

LEMMA ResolveKeeps == ASSUME IInv, NEW c \in Calls, Resolve(c) PROVE IInv'
<1>1. /\ call[c] \in CallRecords /\ CallValid(c) /\ call[c].pc = "open"
      /\ UNCHANGED <<issued, request, grants, log, run, now, failures, spent>>
      /\ log \subseteq Calls /\ failures' \in Nat
  BY CallTyped DEF Resolve, bounds, IInv, TypeOK
<1>2. response' \in [Ids -> [verdict : Verdicts, by : Calls \cup {Nobody}]]
  <2> DEFINE i   == call[c].id
             new == [verdict |-> call[c].verdict, by |-> c]
  <2>1. response \in [Ids -> [verdict : Verdicts, by : Calls \cup {Nobody}]]
    BY DEF IInv, TypeOK
  <2>2. new \in [verdict : Verdicts, by : Calls \cup {Nobody}]
    BY <1>1 DEF CallRecords
  <2>3. response' = response \/ response' = [response EXCEPT ![i] = new]
    BY DEF Resolve
  <2> HIDE DEF i, new
  <2>. QED  BY <2>1, <2>2, <2>3
<1>3. PICK pc \in {"resolved", "over"} : Decides(c, [call[c] EXCEPT !.pc = pc])
  BY DEF Resolve
<1> DEFINE d == [call[c] EXCEPT !.pc = pc]
<1>4. d \in CallRecords /\ d.pc = pc /\ d.key = call[c].key /\ d.verdict = call[c].verdict
  BY <1>1 DEF CallRecords
<1>5. d.key \in Keys /\ d.verdict # "none"
  BY <1>1, <1>4 DEF CallValid
<1> HIDE DEF d
<1>6. Decides(c, d)
  BY <1>3 DEF d
<1>. QED  BY <1>1, <1>2, <1>4, <1>5, <1>6, DecisionKeeps

LEMMA AuditDecisionKeeps == ASSUME IInv, NEW c \in Calls, AuditDecision(c) PROVE IInv'
<1> DEFINE d == [call[c] EXCEPT !.pc = IF call[c].verdict \in Scopes THEN "audited" ELSE "over"]
<1>1. /\ call[c] \in CallRecords /\ CallValid(c) /\ call[c].pc = "resolved" /\ Decides(c, d)
      /\ UNCHANGED <<issued, request, response, grants, run, now, failures, spent>>
      /\ log' = log \cup {c} /\ log' \subseteq Calls /\ failures' \in Nat
      /\ response' \in [Ids -> [verdict : Verdicts, by : Calls \cup {Nobody}]]
  BY CallTyped DEF AuditDecision, files, bounds, IInv, TypeOK
<1>2. /\ d \in CallRecords /\ d.key \in Keys /\ d.verdict # "none"
      /\ d.pc \in {"audited", "over"} /\ (d.pc = "audited" => d.verdict \in Scopes)
  BY <1>1 DEF CallRecords, CallValid
<1> HIDE DEF d
<1>. QED  BY <1>1, <1>2, DecisionKeeps

LEMMA DecisionFailsKeeps == ASSUME IInv, NEW c \in Calls, DecisionFails(c) PROVE IInv'
<1> DEFINE d == [call[c] EXCEPT !.pc = "over"]
<1>1. /\ call[c] \in CallRecords /\ call[c].pc # "over" /\ Decides(c, d)
      /\ UNCHANGED <<issued, request, response, grants, log, run, now, spent>>
      /\ log' \subseteq Calls /\ failures' \in Nat
      /\ response' \in [Ids -> [verdict : Verdicts, by : Calls \cup {Nobody}]]
  BY CallTyped DEF DecisionFails, files, IInv, TypeOK
<1>2. d \in CallRecords /\ d.pc = "over"
  BY <1>1 DEF CallRecords
<1> HIDE DEF d
<1>. QED  BY <1>1, <1>2, DecisionKeeps

\* What applySessionGrant leaves of a key's grants, and what it adds to them.
LEMMA GrantIs ==
  ASSUME IInv, NEW c \in Calls, Grant(c)
  PROVE  LET k   == call[c].key
             new == [scope |-> call[c].verdict, until |-> now + GrantTTL, by |-> c,
                     claim |-> Nobody]
         IN /\ k \in Keys /\ new \in Grants /\ DOMAIN grants' = Keys
            /\ \A l \in Keys \ {k} : grants'[l] = grants[l]
            /\ IsList(grants'[k])
            /\ \E e \in DOMAIN grants'[k] :
                 /\ grants'[k][e] = new
                 /\ \A i \in DOMAIN grants'[k] \ {e} :
                      i \in DOMAIN grants[k] /\ grants'[k][i] = grants[k][i]
            /\ \A i \in DOMAIN grants[k] :
                 \/ i \in DOMAIN grants'[k] /\ grants'[k][i] = grants[k][i]
                 \/ ~LiveGrant(grants[k][i])
                 \/ grants[k][i].scope = call[c].verdict
<1> DEFINE k    == call[c].key
           s    == call[c].verdict
           new  == [scope |-> s, until |-> now + GrantTTL, by |-> c, claim |-> Nobody]
           rest == Others(k, s)
           e    == End(rest)
<1>1. k \in Keys /\ s \in Scopes /\ new \in Grants
  BY BoundsAssumption, CallTyped DEF Grant, GrantsFrom, CallValid, IInv, TypeOK, Grants
<1>2. /\ DOMAIN rest \subseteq DOMAIN grants[k]
      /\ \A i \in DOMAIN rest : rest[i] = grants[k][i]
      /\ \A i \in DOMAIN grants[k] \ DOMAIN rest :
           ~LiveGrant(grants[k][i]) \/ grants[k][i].scope = s
      /\ rest = [i \in DOMAIN rest |-> rest[i]]
  BY LiveIs, <1>1 DEF Others, Only
<1>3. IsList(rest)
  <2>1. rest \in [DOMAIN rest -> Grants]
    BY <1>1, <1>2, GrantTyped
  <2>2. IsList(grants[k])
    BY <1>1 DEF IInv, TypeOK
  <2>. QED  BY <1>2, <2>1, <2>2, PartIsList
<1>4. e \in Nat \ {0} /\ \A i \in DOMAIN rest : i < e
  BY <1>3, EndIsFree
<1>5. grants' = [grants EXCEPT ![k] =
         [i \in DOMAIN rest \cup {e} |-> IF i \in DOMAIN rest THEN rest[i] ELSE new]]
  BY DEF Grant
<1> HIDE DEF k, s, new, rest, e
<1>6. /\ DOMAIN grants' = Keys /\ \A l \in Keys \ {k} : grants'[l] = grants[l]
      /\ grants'[k] = [i \in DOMAIN rest \cup {e} |-> IF i \in DOMAIN rest THEN rest[i] ELSE new]
  BY <1>1, <1>5 DEF IInv, TypeOK
<1>7. e \notin DOMAIN rest
  BY <1>3, <1>4 DEF IsList
<1>8. DOMAIN grants'[k] = DOMAIN rest \cup {e} /\ grants'[k][e] = new
      /\ \A i \in DOMAIN rest : grants'[k][i] = rest[i]
  BY <1>6, <1>7
<1>9. IsList(grants'[k])
  <2>1. DOMAIN grants'[k] \subseteq Nat \ {0}
    BY <1>3, <1>4, <1>8 DEF IsList
  <2>2. Bounded(DOMAIN grants'[k])
    <3>1. e \in Nat /\ \A i \in DOMAIN grants'[k] : i <= e
      BY <1>3, <1>4, <1>8 DEF IsList
    <3>. QED  BY <3>1 DEF Bounded
  <2>3. grants'[k] \in [DOMAIN grants'[k] -> Grants]
    BY <1>1, <1>3, <1>6, <1>8 DEF IsList
  <2>. QED  BY <2>1, <2>2, <2>3 DEF IsList
<1>10. \A i \in DOMAIN grants'[k] \ {e} : i \in DOMAIN grants[k] /\ grants'[k][i] = grants[k][i]
  BY <1>2, <1>8
<1>11. \A i \in DOMAIN grants[k] :
         \/ i \in DOMAIN grants'[k] /\ grants'[k][i] = grants[k][i]
         \/ ~LiveGrant(grants[k][i])
         \/ grants[k][i].scope = s
  BY <1>2, <1>8
<1>12. e \in DOMAIN grants'[k]
  BY <1>8
<1>. QED  BY <1>1, <1>6, <1>8, <1>9, <1>10, <1>11, <1>12 DEF k, s, new

\* No grant and no run knows a decision that is not over yet.
LEMMA FreshDecision ==
  ASSUME IInv, NEW c \in Calls, call[c].pc # "over"
  PROVE  /\ \A k \in Keys : \A i \in DOMAIN grants[k] : grants[k][i].by # c
         /\ \A r \in Runs : Holds(run[r]) => run[r].by # c
         /\ spent[c] = 0
<1>1. \A k \in Keys : \A i \in DOMAIN grants[k] : grants[k][i].by # c
  BY DEF IInv, GrantsValid, GrantValid
<1>2. \A r \in Runs : Holds(run[r]) => run[r].by # c
  BY DEF IInv, HoldersValid, HolderValid
<1>3. spent[c] = 0
  BY CallTyped DEF CallValid
<1>. QED  BY <1>1, <1>2, <1>3

LEMMA GrantKeeps == ASSUME IInv, NEW c \in Calls, Grant(c) PROVE IInv'
<1> DEFINE k   == call[c].key
           d   == [call[c] EXCEPT !.pc = "over"]
           new == [scope |-> call[c].verdict, until |-> now + GrantTTL, by |-> c,
                   claim |-> Nobody]
<1>1. /\ call[c] \in CallRecords /\ CallValid(c) /\ call[c].pc = "audited" /\ c \in log
      /\ Decides(c, d) /\ UNCHANGED <<issued, request, response, log, run, now, failures, spent>>
  BY CallTyped DEF Grant, GrantsFrom, CallValid, bounds
<1>2. /\ k \in Keys /\ new \in Grants /\ DOMAIN grants' = Keys /\ IsList(grants'[k])
      /\ \A l \in Keys \ {k} : grants'[l] = grants[l]
  BY GrantIs
<1>3. PICK e \in DOMAIN grants'[k] :
        /\ grants'[k][e] = new
        /\ \A i \in DOMAIN grants'[k] \ {e} :
             i \in DOMAIN grants[k] /\ grants'[k][i] = grants[k][i]
  BY GrantIs
<1>4. d \in CallRecords /\ d.pc = "over"
  BY <1>1 DEF CallRecords
<1>5. new.by = c /\ new.claim = Nobody /\ new.scope \in Scopes
  BY <1>2 DEF Grants
<1>6. call'[c] = d /\ \A a \in Calls \ {c} : call'[a] = call[a]
  BY <1>1 DEF Decides, IInv, TypeOK
<1> HIDE DEF k, d, new
<1>7. \A a \in Calls : call[a].pc = "over" => call'[a].pc = "over"
  BY <1>4, <1>6
<1>8. /\ \A l \in Keys : \A i \in DOMAIN grants[l] : grants[l][i].by # c
      /\ \A r \in Runs : Holds(run[r]) => run[r].by # c
      /\ spent[c] = 0
  BY <1>1, FreshDecision
<1>9. \A l \in Keys : \A i \in DOMAIN grants'[l] :
        \/ l = k /\ i = e /\ grants'[l][i] = new
        \/ ~(l = k /\ i = e) /\ i \in DOMAIN grants[l] /\ grants'[l][i] = grants[l][i]
  BY <1>2, <1>3
<1>10. TypeOK' /\ PendingKeyed'
  <2>1. \A l \in Keys : IsList(grants'[l])
    BY <1>2 DEF IInv, TypeOK
  <2>. QED  BY <1>1, <1>2, <1>4, <2>1 DEF IInv, TypeOK, PendingKeyed, Pending, Decides
<1>11. RunsValid' /\ OnceSpentOnce'
  BY <1>1 DEF IInv, RunsValid, RunValid, OnceSpentOnce
<1>12. HoldersValid'
  <2>1. ASSUME NEW r \in Runs, Holds(run[r]) PROVE HolderValid(r) /\ run[r].by \in Calls
    BY <2>1, RunTyped DEF IInv, HoldersValid, RunValid, Holds
  <2>. QED  BY <1>1, <1>7, <2>1 DEF HoldersValid, HolderValid, Holds
<1>13. GrantsValid'
  <2>1. ASSUME NEW l \in Keys, NEW i \in DOMAIN grants'[l] PROVE GrantValid(grants[l][i], l)'
    <3>1. CASE l = k /\ i = e /\ grants'[l][i] = new
      BY <1>1, <1>4, <1>5, <1>6, <1>8, <3>1 DEF GrantValid, Holds
    <3>2. CASE i \in DOMAIN grants[l] /\ grants'[l][i] = grants[l][i]
      BY <1>1, <1>7, <3>2, GrantTyped DEF GrantValid, Grants, GaveUp, Holds
    <3>. QED  BY <1>9, <3>1, <3>2
  <2>. QED  BY <2>1 DEF GrantsValid
<1>14. GrantsDistinct'
  <2>1. ASSUME NEW l \in Keys, NEW m \in Keys,
               NEW i \in DOMAIN grants'[l], NEW j \in DOMAIN grants'[m],
               grants'[l][i].by = grants'[m][j].by
        PROVE  l = m /\ i = j
    <3>1. CASE grants'[l][i].by = c
      <4>1. l = k /\ i = e
        BY <1>8, <1>9, <3>1
      <4>2. grants'[m][j].by = c
        BY <2>1, <3>1
      <4>3. m = k /\ j = e
        BY <1>8, <1>9, <4>2
      <4>. QED  BY <4>1, <4>3
    <3>2. CASE grants'[l][i].by # c
      <4>1. /\ i \in DOMAIN grants[l] /\ j \in DOMAIN grants[m]
            /\ grants[l][i].by = grants[m][j].by
        BY <1>5, <1>9, <2>1, <3>2
      <4>. QED  BY <4>1 DEF IInv, GrantsDistinct
    <3>. QED  BY <3>1, <3>2
  <2>. QED  BY <2>1 DEF GrantsDistinct
<1>15. CallsValid'
  <2>1. ASSUME NEW a \in Calls PROVE CallValid(a)'
    BY <1>1, <1>4, <1>6 DEF IInv, CallsValid, CallValid
  <2>. QED  BY <2>1 DEF CallsValid
<1>. QED  BY <1>10, <1>11, <1>12, <1>13, <1>14, <1>15 DEF IInv

-----------------------------------------------------------------------------
LEMMA UnchangedKeeps == ASSUME IInv, UNCHANGED vars PROVE IInv'
<1>1. UNCHANGED <<issued, request, response, grants, log, run, call, now, failures, spent>>
  BY DEF vars, files, bounds
<1>2. Loses /\ \A k \in Keys : IsList(grants'[k])
  BY <1>1, SameLoses DEF IInv
<1>3. TypeOK' /\ PendingKeyed'
  BY <1>1, <1>2 DEF IInv, TypeOK, PendingKeyed, Pending
<1>. QED  BY <1>1, <1>2, <1>3, FilesKeep

THEOREM Preserved == IInv /\ [Next]_vars => IInv'
<1> SUFFICES ASSUME IInv, [Next]_vars PROVE IInv'
  OBVIOUS
<1>1. ASSUME NEW r \in Runs, RunStep(r) PROVE IInv'
  <2>1. ASSUME NEW K \in SUBSET Keys \ {{}}, Begin(r, K) PROVE IInv'
    BY <2>1, BeginKeeps
  <2>2. ASSUME NEW k \in Keys, Preflight(r, k) PROVE IInv'
    BY <2>2, PreflightKeeps
  <2>3. ASSUME NEW k \in Keys, AppendPending(r, k) PROVE IInv'
    BY <2>3, AppendPendingKeeps
  <2>4. ASSUME NEW k \in Keys, Authorize(r, k) PROVE IInv'
    BY <2>4, AuthorizeKeeps
  <2>5. CASE PreflightDone(r)
    BY <2>5, PreflightDoneKeeps
  <2>6. CASE Finish(r)
    BY <2>6, FinishKeeps
  <2>7. CASE RefuseStdin(r)
    BY <2>7, RefuseStdinKeeps
  <2>8. CASE StartUnaudited(r)
    BY <2>8, StartUnauditedKeeps
  <2>9. CASE Execute(r)
    BY <2>9, ExecuteKeeps
  <2>10. CASE Settle(r)
    BY <2>10, SettleKeeps
  <2>11. CASE SettleFails(r)
    BY <2>11, SettleFailsKeeps
  <2>12. CASE Die(r)
    BY <2>12, DieKeeps
  <2>. QED  BY <1>1, <2>1, <2>2, <2>3, <2>4, <2>5, <2>6, <2>7, <2>8, <2>9, <2>10, <2>11, <2>12
            DEF RunStep
<1>2. ASSUME NEW c \in Calls, CallStep(c) PROVE IInv'
  BY <1>2, OpenKeeps, ResolveKeeps, AuditDecisionKeeps, GrantKeeps, DecisionFailsKeeps
     DEF CallStep
<1>3. CASE List
  BY <1>3, ListKeeps
<1>4. ASSUME NEW i \in Ids, CrashInReap(i) PROVE IInv'
  BY <1>4, CrashInReapKeeps
<1>5. ASSUME NEW k \in Keys, SubmitPlan(k) \/ EndSession(k) PROVE IInv'
  BY <1>5, SubmitPlanKeeps, EndSessionKeeps
<1>6. CASE Tick
  BY <1>6, TickKeeps
<1>7. CASE UNCHANGED vars
  BY <1>7, UnchangedKeeps
<1>. QED  BY <1>1, <1>2, <1>3, <1>4, <1>5, <1>6, <1>7 DEF Next

\* The claims, the runs and the counts of remote exits agree in every reachable
\* state (session_store.go, Claim, Commit and Release; runner.go, settleOnceClaim).
THEOREM Inductive == Spec => []IInv
BY Initially, Preserved, PTL DEF Spec

\* Every variable of the approval model keeps its type.
THEOREM TypeCorrect == Spec => []TypeOK
<1>1. IInv => TypeOK
  BY DEF IInv
<1>. QED  BY <1>1, Inductive, PTL

\* An approval for once lets one command run to a remote exit, and only a run
\* that still uses it or gave it up holds it (session_store.go, Claim).
THEOREM OnceApprovalIsOnce == Spec => []OnceIsOnce
<1>1. IInv => OnceIsOnce
  <2> SUFFICES ASSUME IInv, NEW k \in Keys, NEW i \in DOMAIN grants[k],
                      grants[k][i].claim # Nobody
               PROVE  LET r == grants[k][i].claim IN
                      \/ run[r].pc \in {"claimed", "settle"} /\ run[r].key = k
                      \/ run[r].abandoned
    BY DEF OnceIsOnce, ReservationHasOwner, IInv
  <2> DEFINE g == grants[k][i]
             r == g.claim
  <2>1. g \in Grants /\ GrantValid(g, k)
    BY GrantTyped
  <2>2. r \in Runs /\ g.scope = "once"
    BY <2>1 DEF Grants, GrantValid, Scopes
  <2>3. CASE GaveUp(r, k)
    BY <2>3 DEF GaveUp
  <2>4. CASE Holds(run[r]) /\ run[r].by = g.by
    BY <2>1, <2>2, <2>4, RunTyped DEF GrantValid, RunValid, Holds
  <2>. QED  BY <2>1, <2>2, <2>3, <2>4 DEF GrantValid
<1>. QED  BY <1>1, Inductive, PTL

\* A grant in a session's file has its approval in the audit log
\* (adjudicate.go, ApplyDecision: the decision is audited before it is applied).
THEOREM GrantsAreAudited == Spec => []GrantAudited
<1>1. IInv => GrantAudited
  BY DEF IInv, GrantsValid, GrantValid, GrantAudited
<1>. QED  BY <1>1, Inductive, PTL

-----------------------------------------------------------------------------
(* What a step may do to a grant *)

There(k, c) == \E j \in DOMAIN grants'[k] : grants'[k][j].by = c

\* The steps that write a session's file.
LEMMA GrantsChange ==
  ASSUME [Next]_vars
  PROVE  \/ grants' = grants
         \/ \E r \in Runs, k \in Keys : Authorize(r, k)
         \/ \E r \in Runs : RefuseStdin(r) \/ StartUnaudited(r) \/ Settle(r)
         \/ \E c \in Calls : Grant(c)
         \/ \E k \in Keys : EndSession(k)
<1>1. ASSUME NEW r \in Runs, RunStep(r)
      PROVE  \/ grants' = grants \/ RefuseStdin(r) \/ StartUnaudited(r) \/ Settle(r)
             \/ \E k \in Keys : Authorize(r, k)
  BY <1>1 DEF RunStep, Begin, Preflight, AppendPending, PreflightDone, Finish, Execute,
              SettleFails, Die, Moves, files
<1>2. ASSUME NEW c \in Calls, CallStep(c) PROVE grants' = grants \/ Grant(c)
  BY <1>2 DEF CallStep, Open, Resolve, AuditDecision, DecisionFails, files
<1>3. CASE List \/ Tick \/ UNCHANGED vars
  BY <1>3 DEF List, Tick, vars, files
<1>4. ASSUME NEW i \in Ids, CrashInReap(i) PROVE grants' = grants
  BY <1>4 DEF CrashInReap
<1>5. ASSUME NEW k \in Keys, SubmitPlan(k) PROVE grants' = grants
  BY <1>5 DEF SubmitPlan
<1>. QED  BY <1>1, <1>2, <1>3, <1>4, <1>5 DEF Next

\* Authorize keeps every live grant.
LEMMA AuthorizeKeepsLive ==
  ASSUME IInv, NEW r \in Runs, NEW l \in Keys, Authorize(r, l),
         NEW k \in Keys, NEW i \in DOMAIN grants[k], LiveGrant(grants[k][i])
  PROVE  i \in DOMAIN grants'[k] /\ grants'[k][i].by = grants[k][i].by
<1> DEFINE at == FirstMatch(l, r)
<1>1. grants[k][i] \in Grants /\ i \in DOMAIN Live(k) /\ Live(k)[i] = grants[k][i]
  BY GrantTyped, LiveIs
<1>2. /\ DOMAIN Live(l) \subseteq DOMAIN grants[l]
      /\ \A j \in DOMAIN Live(l) : Live(l)[j] \in Grants
      /\ Live(l) = [j \in DOMAIN Live(l) |-> Live(l)[j]]
  BY LiveIs, GrantTyped DEF Live, Only
<1>3. CASE grants' = [grants EXCEPT ![l] = Live(l)]
  BY <1>1, <1>3 DEF IInv, TypeOK
<1>4. CASE grants' = [grants EXCEPT ![l] = [Live(l) EXCEPT ![at].claim = r]] /\ at # 0
  <2>1. CASE k # l
    BY <1>4, <2>1 DEF IInv, TypeOK
  <2>2. CASE k = l
    <3>1. grants'[k] = [Live(k) EXCEPT ![at] = [Live(k)[at] EXCEPT !.claim = r]]
      BY <1>4, <2>2 DEF IInv, TypeOK
    <3>2. DOMAIN grants'[k] = DOMAIN Live(k)
          /\ \A j \in DOMAIN Live(k) :
               grants'[k][j] = IF j = at THEN [Live(k)[j] EXCEPT !.claim = r] ELSE Live(k)[j]
      BY <1>2, <2>2, <3>1
    <3>3. [Live(k)[i] EXCEPT !.claim = r].by = Live(k)[i].by
      BY <1>1 DEF Grants
    <3>. QED  BY <1>1, <3>2, <3>3
  <2>. QED  BY <2>1, <2>2
<1>. QED  BY <1>3, <1>4 DEF Authorize

\* A run's settlement removes a grant only when its command ran.
LEMMA SettledKeepsUnspent ==
  ASSUME IInv, NEW r \in Runs, RefuseStdin(r) \/ StartUnaudited(r) \/ Settle(r),
         NEW k \in Keys, NEW i \in DOMAIN grants[k]
  PROVE  There(k, grants[k][i].by) \/ spent[grants[k][i].by] > 0
<1> DEFINE c == run[r]
           g == grants[k][i]
           l == c.key
<1>1. /\ c.pc \in {"claimed", "settle"} /\ l \in Keys /\ l \in c.left
      /\ (Holds(c) => HolderValid(r)) /\ g \in Grants /\ GrantValid(g, k)
  BY AtTarget, GrantTyped DEF RefuseStdin, StartUnaudited, Settle
<1>2. CASE grants' = grants
  BY <1>2 DEF There
<1>3. ASSUME NEW consume, Holds(c), grants' = Settled(l, r, consume),
             consume => c.pc = "settle" /\ c.result = "exit"
      PROVE  There(k, g.by) \/ spent[g.by] > 0
  <2> DEFINE list == grants[l]
             mine(j) == list[j].scope = "once" /\ list[j].claim = r
             left == {j \in DOMAIN list : ~(consume /\ mine(j))}
  <2>1. /\ grants'[l] = [j \in left |-> IF mine(j) THEN [list[j] EXCEPT !.claim = Nobody]
                                        ELSE list[j]]
        /\ \A m \in Keys \ {l} : grants'[m] = grants[m]
    BY <1>1, <1>3 DEF Settled, IInv, TypeOK
  <2>2. CASE k # l
    BY <2>1, <2>2 DEF There
  <2>3. CASE k = l /\ i \in left
    <3>1. i \in DOMAIN grants'[k]
          /\ grants'[k][i] = IF mine(i) THEN [g EXCEPT !.claim = Nobody] ELSE g
      BY <2>1, <2>3
    <3>2. [g EXCEPT !.claim = Nobody].by = g.by
      BY <1>1 DEF Grants
    <3>. QED  BY <3>1, <3>2 DEF There
  <2>4. CASE k = l /\ i \notin left
    <3>1. consume /\ g.scope = "once" /\ g.claim = r
      BY <2>4
    <3>2. g.by = c.by
      BY <1>1, <2>4, <3>1, NamesAssumption DEF GrantValid, GaveUp
    <3>3. spent[c.by] = 1
      BY <1>1, <1>3, <3>1 DEF HolderValid
    <3>. QED  BY <3>2, <3>3
  <2>. QED  BY <2>2, <2>3, <2>4
<1>4. ASSUME RefuseStdin(r) \/ StartUnaudited(r), grants' # grants
      PROVE  There(k, g.by) \/ spent[g.by] > 0
  <2>1. Holds(c) /\ grants' = Settled(l, r, FALSE)
    BY <1>4 DEF RefuseStdin, StartUnaudited
  <2>. QED  BY <1>3, <2>1
<1>5. ASSUME Settle(r), grants' # grants
      PROVE  There(k, g.by) \/ spent[g.by] > 0
  <2>1. Holds(c) /\ grants' = Settled(l, r, c.result = "exit") /\ c.pc = "settle"
    BY <1>5 DEF Settle, SettleOnceClaim
  <2> DEFINE consume == c.result = "exit"
  <2>2. consume => c.pc = "settle" /\ c.result = "exit"
    BY <2>1
  <2>3. grants' = Settled(l, r, consume)
    BY <2>1
  <2> HIDE DEF consume
  <2>. QED  BY <1>3, <2>1, <2>2, <2>3
<1>. QED  BY <1>2, <1>4, <1>5

\* No command loses an approval it did not use: a once grant goes only when a
\* remote exit spent it, its time is over, a newer approval replaced it or its
\* session ended (session_store.go, settleClaims; adjudicate.go, applySessionGrant).
THEOREM OnceGrantsAreKept == Spec => OnceGrantKept
<1> DEFINE Why(k, i) ==
      \/ spent[grants[k][i].by] > 0
      \/ ~LiveGrant(grants[k][i])
      \/ \E c \in Calls \ {grants[k][i].by} : There(k, c) /\ call[c].pc = "audited"
      \/ DOMAIN grants'[k] = {} /\ run' = run
<1>1. ASSUME IInv, [Next]_vars, NEW k \in Keys, NEW i \in DOMAIN grants[k],
             grants[k][i].scope = "once", ~There(k, grants[k][i].by)
      PROVE  Why(k, i)
  <2> DEFINE g == grants[k][i]
  <2>1. CASE grants' = grants
    BY <1>1, <2>1 DEF There
  <2>2. ASSUME NEW r \in Runs, NEW l \in Keys, Authorize(r, l) PROVE Why(k, i)
    BY <1>1, <2>2, AuthorizeKeepsLive DEF There
  <2>3. ASSUME NEW r \in Runs, RefuseStdin(r) \/ StartUnaudited(r) \/ Settle(r) PROVE Why(k, i)
    BY <1>1, <2>3, SettledKeepsUnspent
  <2>4. ASSUME NEW c \in Calls, Grant(c) PROVE Why(k, i)
    <3>1. call[c].pc = "audited" /\ g.by # c
      BY <1>1, <2>4, FreshDecision DEF Grant, GrantsFrom
    <3>2. CASE k # call[c].key
      <4>1. grants'[k] = grants[k]
        BY <1>1, <2>4, <3>2, GrantIs
      <4>. QED  BY <1>1, <4>1 DEF There
    <3>3. CASE k = call[c].key
      <4> DEFINE new == [scope |-> call[c].verdict, until |-> now + GrantTTL, by |-> c,
                         claim |-> Nobody]
      <4>0. \E e \in DOMAIN grants'[call[c].key] : grants'[call[c].key][e] = new
        BY <1>1, <2>4, GrantIs
      <4>1. There(k, c)
        BY <3>3, <4>0 DEF There
      <4>. QED  BY <3>1, <4>1
    <3>. QED  BY <3>2, <3>3
  <2>5. ASSUME NEW l \in Keys, EndSession(l) PROVE Why(k, i)
    <3>1. run' = run /\ grants' = [grants EXCEPT ![l] = NoGrants]
      BY <2>5 DEF EndSession
    <3>2. CASE k # l
      BY <1>1, <3>1, <3>2 DEF There, IInv, TypeOK
    <3>3. CASE k = l
      BY <1>1, <3>1, <3>3 DEF IInv, TypeOK, NoGrants
    <3>. QED  BY <3>2, <3>3
  <2> HIDE DEF Why
  <2>. QED  BY <1>1, <2>1, <2>2, <2>3, <2>4, <2>5, GrantsChange
<1>2. IInv /\ [Next]_vars =>
        [\A k \in Keys : \A i \in DOMAIN grants[k] :
           LET g == grants[k][i]
               there(c) == \E j \in DOMAIN grants'[k] : grants'[k][j].by = c
           IN g.scope = "once" /\ ~there(g.by) =>
                \/ spent[g.by] > 0
                \/ ~LiveGrant(g)
                \/ \E c \in Calls \ {g.by} : there(c) /\ call[c].pc = "audited"
                \/ DOMAIN grants'[k] = {} /\ run' = run]_vars
  BY <1>1 DEF There
<1>. QED  BY <1>2, Inductive, PTL DEF Spec, OnceGrantKept

\* A request that was decided never waits for a decision again: a sweep, or one
\* that dies half way, removes the request before the response (request.go,
\* reapResolved).
THEOREM DecisionsStay == Spec => DecidedStaysDecided
<1>1. ASSUME IInv, [Next]_vars, NEW i \in Ids, i <= issued, Undecided(i)' PROVE Undecided(i)
  <2>1. CASE request' = request /\ response' = response
    BY <1>1, <2>1 DEF Undecided, Pending
  <2>2. ASSUME request'[i] \in {request[i], NoRequest},
               response'[i] # response[i] => response'[i] # NoResponse \/ request'[i] = NoRequest
        PROVE  Undecided(i)
    BY <1>1, <2>2 DEF Undecided, Pending, NoRequest
  <2>3. ASSUME /\ request'[i] = Kept(request, NoRequest)[i]
               /\ response' = Kept(response, NoResponse)
        PROVE  Undecided(i)
    <3>1. /\ request'[i] = IF Reapable(i) THEN NoRequest ELSE request[i]
          /\ response'[i] = IF Reapable(i) THEN NoResponse ELSE response[i]
      BY <2>3 DEF Kept
    <3>. QED  BY <2>2, <3>1
  <2>4. ASSUME NEW k \in Keys, Publish(k) \/ TooManyPending(k) PROVE Undecided(i)
    <3>1. CASE request' = Kept(request, NoRequest) /\ response' = Kept(response, NoResponse)
      BY <2>3, <3>1
    <3>2. CASE /\ response' = Kept(response, NoResponse)
               /\ request' = [Kept(request, NoRequest) EXCEPT
                                ![issued + 1] = [key |-> k, at |-> now]]
      <4>1. i # issued + 1 /\ i \in DOMAIN Kept(request, NoRequest)
        BY <1>1 DEF Kept, IInv, TypeOK, Ids
      <4>. QED  BY <2>3, <3>2, <4>1
    <3>. QED  BY <2>4, <3>1, <3>2 DEF Publish, TooManyPending
  <2>5. ASSUME NEW r \in Runs, RunStep(r) PROVE Undecided(i)
    BY <2>1, <2>4, <2>5 DEF RunStep, Begin, Preflight, AppendPending, PreflightDone, Finish,
       Authorize, RefuseStdin, StartUnaudited, Execute, Settle, SettleFails, Die, Moves, files
  <2>6. ASSUME NEW c \in Calls, CallStep(c) PROVE Undecided(i)
    <3>1. CASE Resolve(c)
      <4>1. request' = request /\ (response'[i] # response[i] => response'[i] # NoResponse)
        <5> DEFINE j   == call[c].id
                   new == [verdict |-> call[c].verdict, by |-> c]
        <5>1. new # NoResponse
          BY <3>1, CallTyped, <1>1 DEF Resolve, CallValid, NoResponse
        <5>2. request' = request
              /\ (response' = response \/ response' = [response EXCEPT ![j] = new])
          BY <3>1 DEF Resolve
        <5> HIDE DEF j, new
        <5>. QED  BY <1>1, <5>1, <5>2 DEF IInv, TypeOK
      <4>. QED  BY <2>2, <4>1
    <3>2. CASE ~Resolve(c)
      BY <2>1, <2>6, <3>2 DEF CallStep, Open, AuditDecision, Grant, DecisionFails, files
    <3>. QED  BY <3>1, <3>2
  <2>7. CASE List
    BY <2>3, <2>7 DEF List
  <2>8. ASSUME NEW j \in Ids, CrashInReap(j) PROVE Undecided(i)
    BY <1>1, <2>2, <2>8 DEF CrashInReap, HalfReaped, IInv, TypeOK
  <2>9. ASSUME NEW k \in Keys, SubmitPlan(k) \/ EndSession(k) PROVE Undecided(i)
    BY <2>1, <2>4, <2>9 DEF SubmitPlan, EndSession
  <2>10. CASE Tick \/ UNCHANGED vars
    BY <2>1, <2>10 DEF Tick, vars, files
  <2>. QED  BY <1>1, <2>5, <2>6, <2>7, <2>8, <2>9, <2>10 DEF Next
<1>2. IInv /\ [Next]_vars =>
        [\A i \in Ids : i <= issued /\ Undecided(i)' => Undecided(i)]_vars
  BY <1>1
<1>. QED  BY <1>2, Inductive, PTL DEF Spec, DecidedStaysDecided

-----------------------------------------------------------------------------
(* The plans of devices.  Who held an ID when a submission or a decision    *)
(* began, and holds it still, is either still to be looked at or was found; *)
(* and what was found to fit goes on fitting while the mutex keeps the      *)
(* device's other submissions out and no run of it publishes a request.     *)

Lines == Commands \cup UNION {{l[i] : i \in DOMAIN l} : l \in CommandLists}

AskedRecords == [status : {"pending", "decided"}, device : Directories, command : Lines]

SubmissionRecords ==
  [at : {"scanning", "creating", "submitted", "stopped", "unlisted"}, device : Directories,
   plan : PlanIDs, unscanned : SUBSET Directories, todo : Seq(Lines), members : SUBSET Requests,
   meanwhile : BOOLEAN, rivals : SUBSET Directories]

DecisionRecords ==
  [at : {"scanning", "applying"}, plan : PlanIDs, match : Directories \cup {NoDevice},
   todo : SUBSET Requests, unscanned : SUBSET Directories, held : SUBSET Directories]

PlansTyped ==
  /\ asked \in [Requests -> {NotAsked} \cup AskedRecords]
  /\ manifest \in [Directories -> [PlanIDs -> (SUBSET Requests) \cup {NoPlan}]]
  /\ submission \in [Submissions -> {IdleSubmission} \cup SubmissionRecords]
  /\ decision \in [Deciders -> {IdleDecision} \cup DecisionRecords]

\* A rival still holds the ID, and the scan has it still before it.
RivalsAhead ==
  \A s \in Submissions : submission[s].at # "idle" =>
    \A d \in submission[s].rivals :
      /\ HoldsPlan(d, submission[s].plan)
      /\ submission[s].at = "scanning" /\ d \in submission[s].unscanned

\* A device that held the ID is still to be looked at, or was found.
HeldFound ==
  \A o \in Deciders : decision[o].at # "idle" =>
    /\ decision[o].at = "applying" => decision[o].unscanned = {}
    /\ \A d \in decision[o].held :
         /\ HoldsPlan(d, decision[o].plan)
         /\ d \in decision[o].unscanned \/ d = decision[o].match

\* Of a device at most one submission creates requests.
OneCreates ==
  \A s, t \in Submissions :
    submission[s].at = "creating" /\ submission[t].at = "creating" /\ s # t =>
      submission[s].device # submission[t].device

\* What is left of a plan fits beside what waits, unless a run came between.
PlansFit ==
  \A s \in Submissions :
    submission[s].at = "creating" /\ ~submission[s].meanwhile =>
      Cardinality(Waiting(submission[s].device)) + Len(submission[s].todo) <= MaxPendingApprovals

PlansInv ==
  PlansTyped /\ RivalsAhead /\ HeldFound /\ OneCreates /\ PlansFit /\ StoppedOnlyByRuns

LEMMA IdlePlaces == IdleSubmission.at = "idle" /\ IdleDecision.at = "idle"
BY DEF IdleSubmission, IdleDecision

LEMMA PlansStart == PlansInit => PlansInv
<1>. SUFFICES ASSUME PlansInit PROVE PlansInv
  OBVIOUS
<1>1. /\ \A s \in Submissions : submission[s].at = "idle"
      /\ \A o \in Deciders : decision[o].at = "idle"
  BY IdlePlaces DEF PlansInit
<1>2. PlansTyped
  BY DEF PlansInit, PlansTyped
<1>. QED  BY <1>1, <1>2 DEF PlansInv, RivalsAhead, HeldFound, OneCreates, PlansFit,
             StoppedOnlyByRuns

LEMMA WaitingFinite ==
  ASSUME NEW d PROVE IsFiniteSet(Waiting(d)) /\ Cardinality(Waiting(d)) \in Nat
<1>1. Waiting(d) \subseteq Requests
  BY DEF Waiting
<1>. QED  BY <1>1, PlansAssumption, FS_Subset, FS_CardinalityType

\* A request asked for is found, refused, or one more waits.
LEMMA CreateWaits ==
  ASSUME PlansTyped, NEW d \in Directories, NEW c \in Lines, NEW answer \in Create(d, c),
         asked' = answer.left
  PROVE  /\ asked' \in [Requests -> {NotAsked} \cup AskedRecords]
         /\ answer.got \subseteq Requests
         /\ \A e \in Directories \ {d} : Waiting(e)' = Waiting(e)
         /\ \/ /\ ~answer.fresh /\ Waiting(d)' = Waiting(d)
               /\ answer.got = {} => Cardinality(Waiting(d)) >= MaxPendingApprovals
            \/ /\ answer.fresh /\ answer.got # {}
               /\ Cardinality(Waiting(d)') = Cardinality(Waiting(d)) + 1
<1> DEFINE decided == {r \in Requests : asked[r].status = "decided" /\ asked[r].device = d}
           Reaped(old) == [r \in Requests |-> IF r \in old THEN NotAsked ELSE asked[r]]
           wanted == [status |-> "pending", device |-> d, command |-> c]
<1>1. NotAsked.status # "pending" /\ wanted \in AskedRecords
      /\ wanted.status = "pending" /\ wanted.device = d
  BY DEF NotAsked, AskedRecords
<1>2. ASSUME NEW old \in SUBSET decided
      PROVE  /\ Reaped(old) \in [Requests -> {NotAsked} \cup AskedRecords]
             /\ \A r \in Requests : asked[r].status = "pending" => Reaped(old)[r] = asked[r]
             /\ \A r \in Requests : Reaped(old)[r].status = "pending" => Reaped(old)[r] = asked[r]
  BY <1>1 DEF PlansTyped
<1> DEFINE closed == Unresolved(d, c) # {} \/ Cardinality(Waiting(d)) >= MaxPendingApprovals
<1>3. CASE closed
  <2>1. PICK old \in SUBSET decided :
               answer = [got |-> Unresolved(d, c), fresh |-> FALSE, left |-> Reaped(old)]
    BY <1>3 DEF Create
  <2>2. asked' = Reaped(old) /\ answer.got = Unresolved(d, c) /\ answer.fresh = FALSE
    BY <2>1
  <2>3. \A e \in Directories : Waiting(e)' = Waiting(e)
    BY <1>2, <2>2 DEF Waiting
  <2>4. answer.got = {} => Cardinality(Waiting(d)) >= MaxPendingApprovals
    BY <1>3, <2>2
  <2>5. answer.got \subseteq Requests
    BY <2>2 DEF Unresolved, Waiting
  <2>. QED  BY <1>2, <2>2, <2>3, <2>4, <2>5
<1>4. CASE ~closed
  <2>1. PICK r \in Unused, old \in SUBSET decided :
             answer = [got |-> {r}, fresh |-> TRUE, left |-> [Reaped(old) EXCEPT ![r] = wanted]]
    BY <1>4 DEF Create
  <2>2. asked' = [Reaped(old) EXCEPT ![r] = wanted] /\ answer.got = {r} /\ answer.fresh
    BY <2>1
  <2>3. r \in Requests /\ asked[r].status # "pending"
    BY <1>1 DEF Unused
  <2> HIDE DEF wanted, Reaped
  <2>4. /\ asked'[r] = wanted /\ \A q \in Requests \ {r} : asked'[q] = Reaped(old)[q]
        /\ asked' \in [Requests -> {NotAsked} \cup AskedRecords]
    BY <1>1, <1>2, <2>2, <2>3
  <2>5. Waiting(d)' = Waiting(d) \cup {r} /\ r \notin Waiting(d)
    BY <1>1, <1>2, <2>3, <2>4 DEF Waiting
  <2>6. \A e \in Directories \ {d} : Waiting(e)' = Waiting(e)
    BY <1>1, <1>2, <2>3, <2>4 DEF Waiting
  <2>7. Cardinality(Waiting(d) \cup {r}) = Cardinality(Waiting(d)) + 1
    BY <2>5, WaitingFinite, FS_AddElement
  <2>. QED  BY <2>2, <2>3, <2>4, <2>5, <2>6, <2>7
<1>. QED  BY <1>3, <1>4

-----------------------------------------------------------------------------
(* The steps of a submission. *)

\* Submission s becomes n, which does what is asked of it.
LEMMA SubmissionMoves ==
  ASSUME PlansInv, UNCHANGED <<manifest, decision>>, NEW s \in Submissions,
         NEW n \in {IdleSubmission} \cup SubmissionRecords,
         submission' = [submission EXCEPT ![s] = n],
         asked' \in [Requests -> {NotAsked} \cup AskedRecords],
         n.at # "idle" => \A d \in n.rivals :
           HoldsPlan(d, n.plan) /\ n.at = "scanning" /\ d \in n.unscanned,
         n.at = "creating" => \A t \in Submissions \ {s} :
           submission[t].at = "creating" => submission[t].device # n.device,
         n.at = "creating" /\ ~n.meanwhile =>
           Cardinality(Waiting(n.device)') + Len(n.todo) <= MaxPendingApprovals,
         n.at = "stopped" => n.meanwhile,
         \A t \in Submissions \ {s}, d \in Directories :
           submission[t].at = "creating" /\ submission[t].device = d => Waiting(d)' = Waiting(d)
  PROVE  PlansInv'
<1>1. submission'[s] = n /\ \A t \in Submissions \ {s} : submission'[t] = submission[t]
  BY DEF PlansInv, PlansTyped
<1>2. PlansTyped'
  BY DEF PlansInv, PlansTyped
<1>3. RivalsAhead' /\ HeldFound'
  BY <1>1 DEF PlansInv, RivalsAhead, HeldFound, HoldsPlan
<1>4. OneCreates' /\ StoppedOnlyByRuns'
  BY <1>1 DEF PlansInv, OneCreates, StoppedOnlyByRuns
<1>5. PlansFit'
  <2>. SUFFICES ASSUME NEW t \in Submissions, NEW k \in {IdleSubmission} \cup SubmissionRecords,
                       submission'[t] = k, k.at = "creating", ~k.meanwhile
                PROVE  Cardinality(Waiting(k.device)') + Len(k.todo) <= MaxPendingApprovals
    BY <1>2 DEF PlansFit, PlansTyped, Waiting
  <2>1. CASE t = s
    BY <1>1, <2>1
  <2>2. CASE t # s
    <3>1. submission[t] = k /\ k.device \in Directories
      BY <1>1, <2>2, IdlePlaces DEF SubmissionRecords
    <3>2. Waiting(k.device)' = Waiting(k.device)
      BY <2>2, <3>1
    <3>. QED  BY <3>1, <3>2 DEF PlansInv, PlansFit
  <2>. QED  BY <2>1, <2>2
<1>. QED  BY <1>2, <1>3, <1>4, <1>5 DEF PlansInv

LEMMA SubmitKeeps ==
  ASSUME PlansInv, NEW s \in Submissions, NEW d \in Directories, NEW p \in PlanIDs,
         NEW commands \in CommandLists, HandlePlanSubmit(s, d, p, commands)
  PROVE  PlansInv'
<1> DEFINE new == [at |-> "scanning", device |-> d, plan |-> p, unscanned |-> OtherDevices(d),
                   todo |-> commands, members |-> {}, meanwhile |-> FALSE,
                   rivals |-> {e \in Directories \ {d} : HoldsPlan(e, p)}]
<1>1. commands \in Seq(Lines)
  <2>1. {commands[i] : i \in DOMAIN commands} \subseteq Lines
    BY DEF Lines
  <2>2. commands \in Seq({commands[i] : i \in DOMAIN commands})
    BY PlansAssumption
  <2>. QED  BY <2>1, <2>2
<1>2. new \in SubmissionRecords
  BY <1>1 DEF SubmissionRecords, OtherDevices
<1>3. /\ new.at = "scanning" /\ new.plan = p
      /\ \A e \in new.rivals : HoldsPlan(e, p) /\ e \in new.unscanned
  BY DEF OtherDevices
<1>4. /\ submission' = [submission EXCEPT ![s] = new] /\ UNCHANGED <<asked, manifest, decision>>
  BY DEF HandlePlanSubmit
<1> HIDE DEF new
<1>5. PICK n \in SubmissionRecords :
        /\ submission' = [submission EXCEPT ![s] = n] /\ n.at = "scanning" /\ n.plan = p
        /\ \A e \in n.rivals : HoldsPlan(e, p) /\ e \in n.unscanned
  BY <1>2, <1>3, <1>4
<1>6. \A e : Waiting(e)' = Waiting(e)
  BY <1>4 DEF Waiting
<1>. QED  BY <1>4, <1>5, <1>6, SubmissionMoves DEF PlansInv, PlansTyped

\* A submission that ends is forgotten.
LEMMA SubmissionEnds ==
  ASSUME PlansInv, NEW s \in Submissions, UNCHANGED <<asked, manifest, decision>>,
         submission' = [submission EXCEPT ![s] = IdleSubmission]
  PROVE  PlansInv'
<1>1. \A e : Waiting(e)' = Waiting(e)
  BY DEF Waiting
<1>. QED  BY <1>1, IdlePlaces, SubmissionMoves DEF PlansInv, PlansTyped

LEMMA ScanKeeps ==
  ASSUME PlansInv, NEW s \in Submissions,
         PlanIDTaken(s) \/ NothingToDecide(s) \/ AnswerSubmission(s)
  PROVE  PlansInv'
<1> DEFINE me == submission[s]
           seen == Smallest(me.unscanned)
           new == [me EXCEPT !.unscanned = @ \ {seen}]
<1>1. me \in {IdleSubmission} \cup SubmissionRecords /\ UNCHANGED <<asked, manifest, decision>>
  BY DEF PlansInv, PlansTyped, PlanIDTaken, NothingToDecide, AnswerSubmission
<1>2. CASE submission' = [submission EXCEPT ![s] = IdleSubmission]
  BY <1>1, <1>2, SubmissionEnds
<1>3. CASE PlanIDTaken(s) /\ submission' # [submission EXCEPT ![s] = IdleSubmission]
  <2>1. /\ me.at = "scanning" /\ ~HoldsPlan(seen, me.plan)
        /\ submission' = [submission EXCEPT ![s] = new]
    BY <1>1, <1>3 DEF PlanIDTaken, PlansInv, PlansTyped
  <2>2. me \in SubmissionRecords
    BY <1>1, <2>1, IdlePlaces
  <2>3. \A d \in me.rivals : HoldsPlan(d, me.plan) /\ d \in me.unscanned
    BY <2>1 DEF PlansInv, RivalsAhead
  <2>4. /\ new \in SubmissionRecords /\ new.at = "scanning" /\ new.plan = me.plan
        /\ new.rivals = me.rivals /\ new.unscanned = me.unscanned \ {seen}
    BY <2>1, <2>2 DEF SubmissionRecords
  <2> HIDE DEF new
  <2>5. PICK n \in SubmissionRecords :
          /\ submission' = [submission EXCEPT ![s] = n] /\ n.at = "scanning"
          /\ \A d \in n.rivals : HoldsPlan(d, n.plan) /\ d \in n.unscanned
    BY <2>1, <2>3, <2>4
  <2>6. \A e : Waiting(e)' = Waiting(e)
    BY <1>1 DEF Waiting
  <2>. QED  BY <1>1, <2>5, <2>6, SubmissionMoves DEF PlansInv, PlansTyped
<1>. QED  BY <1>2, <1>3 DEF NothingToDecide, AnswerSubmission

\* The steps of submission s on its way between the count and the manifest.
LEMMA CreatingMoves ==
  ASSUME PlansInv, UNCHANGED <<manifest, decision>>, NEW s \in Submissions,
         NEW n \in SubmissionRecords, submission' = [submission EXCEPT ![s] = n],
         asked' \in [Requests -> {NotAsked} \cup AskedRecords],
         n.device = submission[s].device, n.rivals = {},
         submission[s].at = "creating" \/ Enters(n.device),
         n.at = "creating" /\ ~n.meanwhile =>
           Cardinality(Waiting(n.device)') + Len(n.todo) <= MaxPendingApprovals,
         n.at = "stopped" => n.meanwhile,
         \A d \in Directories \ {n.device} : Waiting(d)' = Waiting(d)
  PROVE  PlansInv'
<1>1. \A t \in Submissions \ {s} :
        submission[t].at = "creating" => submission[t].device # n.device
  BY DEF PlansInv, OneCreates, Enters
<1>. QED  BY <1>1, SubmissionMoves

LEMMA FitsKeeps ==
  ASSUME PlansInv, NEW s \in Submissions, FitsOrBusy(s)
  PROVE  PlansInv'
<1> DEFINE me == submission[s]
           new == [me EXCEPT !.at = "creating"]
<1>1. /\ me \in SubmissionRecords /\ UNCHANGED <<asked, manifest, decision>>
      /\ me.at = "scanning"
  BY IdlePlaces DEF PlansInv, PlansTyped, FitsOrBusy
<1>2. me.device \in Directories /\ me.todo \in Seq(Lines) /\ Len(me.todo) \in Nat
      /\ Cardinality(Waiting(me.device)) \in Nat /\ MaxPendingApprovals \in Nat
  BY <1>1, WaitingFinite, PlansAssumption DEF SubmissionRecords
<1>3. CASE submission' = [submission EXCEPT ![s] = IdleSubmission]
  BY <1>1, <1>3, SubmissionEnds
<1>4. CASE submission' # [submission EXCEPT ![s] = IdleSubmission]
  <2>1. /\ submission' = [submission EXCEPT ![s] = new]
        /\ me.unscanned = {} /\ Enters(me.device)
        /\ ~(Cardinality(Waiting(me.device)) + Len(me.todo) > MaxPendingApprovals)
    BY <1>4 DEF FitsOrBusy, PlansInv, PlansTyped
  <2>2. Cardinality(Waiting(me.device)) + Len(me.todo) <= MaxPendingApprovals
    BY <1>2, <2>1
  <2>3. me.rivals = {}
    BY <1>1, <2>1 DEF PlansInv, RivalsAhead
  <2>4. /\ new \in SubmissionRecords /\ new.at = "creating" /\ new.device = me.device
        /\ new.rivals = {} /\ new.todo = me.todo
    BY <1>1, <2>3 DEF SubmissionRecords
  <2> HIDE DEF new
  <2>5. PICK n \in SubmissionRecords :
          /\ submission' = [submission EXCEPT ![s] = n] /\ n.at = "creating"
          /\ n.device = me.device /\ n.rivals = {} /\ n.todo = me.todo
    BY <2>1, <2>4
  <2>6. \A e : Waiting(e)' = Waiting(e)
    BY <1>1 DEF Waiting
  <2>. QED  BY <1>1, <2>1, <2>2, <2>5, <2>6, CreatingMoves DEF PlansInv, PlansTyped
<1>. QED  BY <1>3, <1>4

LEMMA SettledKeeps ==
  ASSUME PlansInv, NEW s \in Submissions, SettledCommand(s)
  PROVE  PlansInv'
<1> DEFINE me == submission[s]
           new == [me EXCEPT !.todo = Tail(@)]
<1>1. /\ me \in SubmissionRecords /\ UNCHANGED <<asked, manifest, decision>>
      /\ me.at = "creating" /\ me.todo # <<>> /\ submission' = [submission EXCEPT ![s] = new]
  BY IdlePlaces DEF PlansInv, PlansTyped, SettledCommand
<1>2. me.device \in Directories /\ me.todo \in Seq(Lines) /\ Len(me.todo) \in Nat
      /\ Cardinality(Waiting(me.device)) \in Nat /\ MaxPendingApprovals \in Nat
  BY <1>1, WaitingFinite, PlansAssumption DEF SubmissionRecords
<1>3. Tail(me.todo) \in Seq(Lines) /\ Len(Tail(me.todo)) = Len(me.todo) - 1
  BY <1>1, <1>2
<1>4. me.rivals = {}
  BY <1>1 DEF PlansInv, RivalsAhead
<1>5. /\ new \in SubmissionRecords /\ new.at = "creating" /\ new.device = me.device
      /\ new.rivals = {} /\ new.todo = Tail(me.todo) /\ new.meanwhile = me.meanwhile
  BY <1>1, <1>3, <1>4 DEF SubmissionRecords
<1>6. ~me.meanwhile => Cardinality(Waiting(me.device)) + Len(Tail(me.todo)) <= MaxPendingApprovals
  BY <1>1, <1>2, <1>3 DEF PlansInv, PlansFit
<1> HIDE DEF new
<1>7. PICK n \in SubmissionRecords :
        /\ submission' = [submission EXCEPT ![s] = n] /\ n.at = "creating"
        /\ n.device = me.device /\ n.rivals = {} /\ n.todo = Tail(me.todo)
        /\ n.meanwhile = me.meanwhile
  BY <1>1, <1>5
<1>8. \A e : Waiting(e)' = Waiting(e)
  BY <1>1 DEF Waiting
<1>. QED  BY <1>1, <1>6, <1>7, <1>8, CreatingMoves DEF PlansInv, PlansTyped

LEMMA RequestKeepsPlans ==
  ASSUME PlansInv, NEW s \in Submissions, CreateRequest(s)
  PROVE  PlansInv'
<1> DEFINE me == submission[s]
<1>1. /\ me \in SubmissionRecords /\ UNCHANGED <<manifest, decision>>
      /\ me.at = "creating" /\ me.todo # <<>>
  BY IdlePlaces DEF PlansInv, PlansTyped, CreateRequest
<1>2. me.device \in Directories /\ me.todo \in Seq(Lines) /\ Len(me.todo) \in Nat
      /\ Head(me.todo) \in Lines /\ Tail(me.todo) \in Seq(Lines)
      /\ Len(Tail(me.todo)) = Len(me.todo) - 1 /\ Len(me.todo) >= 1
  BY <1>1 DEF SubmissionRecords
<1>3. PICK d \in Directories, c \in Lines : d = me.device /\ c = Head(me.todo)
  BY <1>2
<1>4. PICK answer \in Create(d, c) :
        /\ asked' = answer.left
        /\ submission' = [submission EXCEPT ![s] =
             IF answer.got = {}
             THEN [me EXCEPT !.at = "stopped"]
             ELSE [me EXCEPT !.todo = Tail(@), !.members = @ \union answer.got]]
  BY <1>3 DEF CreateRequest
<1>5. /\ asked' \in [Requests -> {NotAsked} \cup AskedRecords]
      /\ answer.got \subseteq Requests
      /\ \A e \in Directories \ {d} : Waiting(e)' = Waiting(e)
      /\ \/ /\ ~answer.fresh /\ Waiting(d)' = Waiting(d)
            /\ answer.got = {} => Cardinality(Waiting(d)) >= MaxPendingApprovals
         \/ /\ answer.fresh /\ answer.got # {}
            /\ Cardinality(Waiting(d)') = Cardinality(Waiting(d)) + 1
  BY <1>4, CreateWaits DEF PlansInv
<1>6. Cardinality(Waiting(d)) \in Nat /\ MaxPendingApprovals \in Nat
  BY WaitingFinite, PlansAssumption
<1>7. me.rivals = {}
  BY <1>1 DEF PlansInv, RivalsAhead
<1>8. ~me.meanwhile => Cardinality(Waiting(d)) + Len(me.todo) <= MaxPendingApprovals
  BY <1>1, <1>3 DEF PlansInv, PlansFit
<1>9. CASE answer.got = {}
  <2> DEFINE new == [me EXCEPT !.at = "stopped"]
  <2>1. submission' = [submission EXCEPT ![s] = new]
    BY <1>4, <1>9
  <2>2. /\ new \in SubmissionRecords /\ new.at = "stopped" /\ new.device = d
        /\ new.rivals = {} /\ new.meanwhile = me.meanwhile
    BY <1>1, <1>3, <1>7 DEF SubmissionRecords
  <2>3. me.meanwhile
    BY <1>2, <1>5, <1>6, <1>8, <1>9
  <2> HIDE DEF new
  <2>4. PICK n \in SubmissionRecords :
          /\ submission' = [submission EXCEPT ![s] = n] /\ n.at = "stopped" /\ n.device = d
          /\ n.rivals = {} /\ n.meanwhile
    BY <2>1, <2>2, <2>3
  <2>. QED  BY <1>1, <1>3, <1>5, <2>4, CreatingMoves
<1>10. CASE answer.got # {}
  <2> DEFINE new == [me EXCEPT !.todo = Tail(@), !.members = @ \union answer.got]
  <2>1. submission' = [submission EXCEPT ![s] = new]
    BY <1>4, <1>10
  <2>2. /\ new \in SubmissionRecords /\ new.at = "creating" /\ new.device = d
        /\ new.rivals = {} /\ new.meanwhile = me.meanwhile /\ new.todo = Tail(me.todo)
    BY <1>1, <1>2, <1>3, <1>5, <1>7 DEF SubmissionRecords
  <2>3. ~me.meanwhile => Cardinality(Waiting(d)') + Len(Tail(me.todo)) <= MaxPendingApprovals
    BY <1>2, <1>5, <1>6, <1>8
  <2> HIDE DEF new
  <2>4. PICK n \in SubmissionRecords :
          /\ submission' = [submission EXCEPT ![s] = n] /\ n.at = "creating" /\ n.device = d
          /\ n.rivals = {} /\ n.meanwhile = me.meanwhile /\ n.todo = Tail(me.todo)
    BY <2>1, <2>2
  <2>. QED  BY <1>1, <1>3, <1>5, <2>3, <2>4, CreatingMoves
<1>. QED  BY <1>9, <1>10

\* A run of the device that publishes a request marks what the device submits.
LEMMA GrayZoneKeeps ==
  ASSUME PlansInv, NEW d \in Directories, NEW c \in Commands, GrayZoneRun(d, c)
  PROVE  PlansInv'
<1>1. PICK answer \in Create(d, c) :
        /\ asked' = answer.left
        /\ submission' = [s \in Submissions |->
             IF submission[s].at = "creating" /\ submission[s].device = d /\ answer.fresh
             THEN [submission[s] EXCEPT !.meanwhile = TRUE] ELSE submission[s]]
  BY DEF GrayZoneRun
<1>2. UNCHANGED <<manifest, decision>> /\ c \in Lines
  BY DEF GrayZoneRun, Lines
<1>3. /\ asked' \in [Requests -> {NotAsked} \cup AskedRecords]
      /\ \A e \in Directories \ {d} : Waiting(e)' = Waiting(e)
      /\ answer.fresh \/ Waiting(d)' = Waiting(d)
  BY <1>1, <1>2, CreateWaits DEF PlansInv
<1>4. ASSUME NEW s \in Submissions
      PROVE  /\ submission'[s] \in {IdleSubmission} \cup SubmissionRecords
             /\ submission'[s].at = submission[s].at
             /\ submission[s].at # "idle" =>
                  /\ submission'[s].device = submission[s].device
                  /\ submission'[s].plan = submission[s].plan
                  /\ submission'[s].unscanned = submission[s].unscanned
                  /\ submission'[s].todo = submission[s].todo
                  /\ submission'[s].rivals = submission[s].rivals
                  /\ submission[s].meanwhile => submission'[s].meanwhile
                  /\ ~submission'[s].meanwhile =>
                       ~(submission[s].at = "creating" /\ submission[s].device = d /\ answer.fresh)
  <2>1. CASE submission[s].at = "creating" /\ submission[s].device = d /\ answer.fresh
    <3>1. submission[s] \in SubmissionRecords
      BY <2>1, IdlePlaces DEF PlansInv, PlansTyped
    <3>2. submission'[s] = [submission[s] EXCEPT !.meanwhile = TRUE]
      BY <1>1, <2>1
    <3>. QED  BY <3>1, <3>2 DEF SubmissionRecords
  <2>2. CASE ~(submission[s].at = "creating" /\ submission[s].device = d /\ answer.fresh)
    <3>1. submission'[s] = submission[s]
      BY <1>1, <2>2
    <3>. QED  BY <2>2, <3>1 DEF PlansInv, PlansTyped
  <2>. QED  BY <2>1, <2>2
<1>5. PlansTyped'
  BY <1>1, <1>2, <1>3, <1>4 DEF PlansInv, PlansTyped
<1>6. RivalsAhead' /\ HeldFound'
  BY <1>2, <1>4 DEF PlansInv, RivalsAhead, HeldFound, HoldsPlan
<1>7. OneCreates' /\ StoppedOnlyByRuns'
  BY <1>4 DEF PlansInv, OneCreates, StoppedOnlyByRuns
<1>8. PlansFit'
  <2>. SUFFICES ASSUME NEW s \in Submissions, NEW k \in {IdleSubmission} \cup SubmissionRecords,
                       submission'[s] = k, k.at = "creating", ~k.meanwhile
                PROVE  Cardinality(Waiting(k.device)') + Len(k.todo) <= MaxPendingApprovals
    BY <1>5 DEF PlansFit, PlansTyped, Waiting
  <2>1. /\ submission[s].at = "creating" /\ ~submission[s].meanwhile
        /\ submission[s].device = k.device /\ submission[s].todo = k.todo
        /\ ~(k.device = d /\ answer.fresh) /\ k.device \in Directories
    BY <1>4, IdlePlaces DEF SubmissionRecords
  <2>2. Waiting(k.device)' = Waiting(k.device)
    BY <1>3, <2>1
  <2>. QED  BY <2>1, <2>2 DEF PlansInv, PlansFit
<1>. QED  BY <1>5, <1>6, <1>7, <1>8 DEF PlansInv

-----------------------------------------------------------------------------
(* The manifest.  What it reaps is held no more, and forgotten.            *)

LEMMA RivalsForgotten ==
  ASSUME NEW rec \in {IdleSubmission} \cup SubmissionRecords, NEW d, NEW old,
         NEW n, n = Forgets(rec, "rivals", d, old)
  PROVE  /\ n \in {IdleSubmission} \cup SubmissionRecords /\ n.at = rec.at
         /\ rec.at # "idle" =>
              /\ n.device = rec.device /\ n.plan = rec.plan /\ n.unscanned = rec.unscanned
              /\ n.todo = rec.todo /\ n.meanwhile = rec.meanwhile
              /\ n.rivals \subseteq rec.rivals
              /\ rec.plan \in old => d \notin n.rivals
<1>1. CASE rec.at # "idle" /\ rec.plan \in old
  <2>1. rec \in SubmissionRecords
    BY <1>1, IdlePlaces
  <2>2. n = [rec EXCEPT !["rivals"] = @ \ {d}]
    BY <1>1 DEF Forgets
  <2>3. n = [rec EXCEPT !.rivals = @ \ {d}]
    BY <2>2
  <2>. QED  BY <1>1, <2>1, <2>3 DEF SubmissionRecords
<1>2. CASE ~(rec.at # "idle" /\ rec.plan \in old)
  BY <1>2 DEF Forgets
<1>. QED  BY <1>1, <1>2

LEMMA HeldForgotten ==
  ASSUME NEW rec \in {IdleDecision} \cup DecisionRecords, NEW d, NEW old,
         NEW n, n = Forgets(rec, "held", d, old)
  PROVE  /\ n \in {IdleDecision} \cup DecisionRecords /\ n.at = rec.at
         /\ rec.at # "idle" =>
              /\ n.plan = rec.plan /\ n.unscanned = rec.unscanned /\ n.match = rec.match
              /\ n.held \subseteq rec.held
              /\ rec.plan \in old => d \notin n.held
<1>1. CASE rec.at # "idle" /\ rec.plan \in old
  <2>1. rec \in DecisionRecords
    BY <1>1, IdlePlaces
  <2>2. n = [rec EXCEPT !["held"] = @ \ {d}]
    BY <1>1 DEF Forgets
  <2>3. n = [rec EXCEPT !.held = @ \ {d}]
    BY <2>2
  <2>. QED  BY <1>1, <2>1, <2>3 DEF DecisionRecords
<1>2. CASE ~(rec.at # "idle" /\ rec.plan \in old)
  BY <1>2 DEF Forgets
<1>. QED  BY <1>1, <1>2

LEMMA ManifestKeeps ==
  ASSUME PlansInv, NEW s \in Submissions, CreatePlan(s)
  PROVE  PlansInv'
<1> DEFINE me == submission[s]
<1>1. /\ me \in SubmissionRecords /\ UNCHANGED asked /\ me.at = "creating" /\ me.members # {}
  BY IdlePlaces DEF PlansInv, PlansTyped, CreatePlan
<1>2. /\ me.device \in Directories /\ me.plan \in PlanIDs /\ me.members \subseteq Requests
      /\ me.rivals = {}
  BY <1>1 DEF SubmissionRecords, PlansInv, RivalsAhead
<1>3. PICK d \in Directories : d = me.device
  BY <1>2
<1> DEFINE left(b) == [p \in PlanIDs |-> IF p \in b THEN NoPlan ELSE manifest[me.device][p]]
           full == Cardinality(PendingPlans(me.device)) >= MaxPendingApprovals
           no(b) == full \/ left(b)[me.plan] # NoPlan
<1>4. PICK old \in SUBSET Waitless(me.device) :
        /\ manifest' = [manifest EXCEPT ![me.device] =
             IF no(old) THEN left(old) ELSE [left(old) EXCEPT ![me.plan] = me.members]]
        /\ submission' = [t \in Submissions |->
             IF t = s
             THEN [me EXCEPT !.at = IF no(old) THEN "unlisted" ELSE "submitted"]
             ELSE Forgets(submission[t], "rivals", me.device, old)]
        /\ decision' = [o \in Deciders |-> Forgets(decision[o], "held", me.device, old)]
  BY DEF CreatePlan
<1> HIDE DEF no
<1>5. PICK m : /\ m = IF no(old) THEN left(old) ELSE [left(old) EXCEPT ![me.plan] = me.members]
               /\ manifest' = [manifest EXCEPT ![me.device] = m]
  BY <1>4
<1>6. /\ m \in [PlanIDs -> (SUBSET Requests) \cup {NoPlan}]
      /\ \A p \in PlanIDs : HoldsPlan(d, p) /\ p \notin old => m[p] # NoPlan
  <2>1. me.members # NoPlan
    BY <1>2, PlansAssumption DEF NoPlan
  <2>2. left(old) \in [PlanIDs -> (SUBSET Requests) \cup {NoPlan}]
    BY <1>2 DEF PlansInv, PlansTyped
  <2>3. \A p \in PlanIDs : HoldsPlan(d, p) /\ p \notin old => left(old)[p] # NoPlan
    BY <1>3 DEF HoldsPlan
  <2> HIDE DEF left
  <2>4. CASE no(old)
    BY <1>5, <2>2, <2>3, <2>4
  <2>5. CASE ~no(old)
    BY <1>2, <1>5, <2>1, <2>2, <2>3, <2>5
  <2>. QED  BY <2>4, <2>5
<1> HIDE DEF left
<1>7. /\ manifest' \in [Directories -> [PlanIDs -> (SUBSET Requests) \cup {NoPlan}]]
      /\ \A e \in Directories, p \in PlanIDs :
           HoldsPlan(e, p) /\ ~(e = d /\ p \in old) => HoldsPlan(e, p)'
  BY <1>3, <1>5, <1>6 DEF PlansInv, PlansTyped, HoldsPlan
<1>8. PICK n : /\ n = [me EXCEPT !.at = IF no(old) THEN "unlisted" ELSE "submitted"]
               /\ submission'[s] = n
  BY <1>4
<1>9. n \in SubmissionRecords /\ n.at \in {"unlisted", "submitted"} /\ n.rivals = {}
  BY <1>1, <1>2, <1>8 DEF SubmissionRecords
<1>10. ASSUME NEW t \in Submissions \ {s}
       PROVE  /\ submission'[t] \in {IdleSubmission} \cup SubmissionRecords
              /\ submission'[t].at = submission[t].at
              /\ submission[t].at # "idle" =>
                   /\ submission'[t].device = submission[t].device
                   /\ submission'[t].plan = submission[t].plan
                   /\ submission'[t].unscanned = submission[t].unscanned
                   /\ submission'[t].todo = submission[t].todo
                   /\ submission'[t].meanwhile = submission[t].meanwhile
                   /\ submission'[t].rivals \subseteq submission[t].rivals
                   /\ submission[t].plan \in old => d \notin submission'[t].rivals
  <2>1. submission'[t] = Forgets(submission[t], "rivals", d, old)
    BY <1>3, <1>4
  <2>2. submission[t] \in {IdleSubmission} \cup SubmissionRecords
    BY DEF PlansInv, PlansTyped
  <2>. QED  BY <2>1, <2>2, RivalsForgotten
<1>11. ASSUME NEW o \in Deciders
       PROVE  /\ decision'[o] \in {IdleDecision} \cup DecisionRecords
              /\ decision'[o].at = decision[o].at
              /\ decision[o].at # "idle" =>
                   /\ decision'[o].plan = decision[o].plan
                   /\ decision'[o].unscanned = decision[o].unscanned
                   /\ decision'[o].match = decision[o].match
                   /\ decision'[o].held \subseteq decision[o].held
                   /\ decision[o].plan \in old => d \notin decision'[o].held
  <2>1. decision'[o] = Forgets(decision[o], "held", d, old)
    BY <1>3, <1>4
  <2>2. decision[o] \in {IdleDecision} \cup DecisionRecords
    BY DEF PlansInv, PlansTyped
  <2>. QED  BY <2>1, <2>2, HeldForgotten
<1>12. PlansTyped'
  <2>1. submission' \in [Submissions -> {IdleSubmission} \cup SubmissionRecords]
    BY <1>4, <1>8, <1>9, <1>10
  <2>2. decision' \in [Deciders -> {IdleDecision} \cup DecisionRecords]
    BY <1>4, <1>11
  <2>. QED  BY <1>1, <1>7, <2>1, <2>2 DEF PlansInv, PlansTyped
<1>13. RivalsAhead'
  <2>. SUFFICES ASSUME NEW t \in Submissions, submission'[t].at # "idle",
                       NEW e \in submission'[t].rivals
                PROVE  /\ HoldsPlan(e, submission[t].plan)' /\ submission'[t].at = "scanning"
                       /\ e \in submission'[t].unscanned
    BY DEF RivalsAhead
  <2>1. t # s
    BY <1>8, <1>9
  <2>2. /\ HoldsPlan(e, submission[t].plan) /\ submission'[t].at = "scanning"
        /\ e \in submission'[t].unscanned /\ submission'[t].plan = submission[t].plan
        /\ ~(e = d /\ submission[t].plan \in old)
    BY <1>10, <2>1 DEF PlansInv, RivalsAhead
  <2>3. e \in Directories /\ submission[t].plan \in PlanIDs
    BY <1>10, <2>1, IdlePlaces DEF PlansInv, PlansTyped, SubmissionRecords
  <2>4. PICK p \in PlanIDs : p = submission[t].plan
    BY <2>3
  <2>. QED  BY <1>7, <2>2, <2>3, <2>4 DEF HoldsPlan
<1>14. HeldFound'
  <2>. SUFFICES ASSUME NEW o \in Deciders, decision'[o].at # "idle"
                PROVE  /\ decision'[o].at = "applying" => decision'[o].unscanned = {}
                       /\ \A e \in decision'[o].held :
                            /\ HoldsPlan(e, decision[o].plan)'
                            /\ e \in decision'[o].unscanned \/ e = decision'[o].match
    BY DEF HeldFound
  <2>1. decision'[o].at = "applying" => decision'[o].unscanned = {}
    BY <1>11 DEF PlansInv, HeldFound
  <2>2. ASSUME NEW e \in decision'[o].held
        PROVE  /\ HoldsPlan(e, decision[o].plan)'
               /\ e \in decision'[o].unscanned \/ e = decision'[o].match
    <3>1. /\ HoldsPlan(e, decision[o].plan) /\ decision'[o].plan = decision[o].plan
          /\ e \in decision'[o].unscanned \/ e = decision'[o].match
          /\ ~(e = d /\ decision[o].plan \in old)
      BY <1>11 DEF PlansInv, HeldFound
    <3>2. e \in Directories /\ decision[o].plan \in PlanIDs
      BY <1>11, IdlePlaces DEF PlansInv, PlansTyped, DecisionRecords
    <3>3. PICK p \in PlanIDs : p = decision[o].plan
      BY <3>2
    <3>. QED  BY <1>7, <3>1, <3>2, <3>3 DEF HoldsPlan
  <2>. QED  BY <2>1, <2>2
<1>15. OneCreates' /\ StoppedOnlyByRuns'
  <2>1. \A t \in Submissions : submission'[t].at = "creating" =>
          submission[t].at = "creating" /\ submission'[t].device = submission[t].device
    BY <1>8, <1>9, <1>10
  <2>2. \A t \in Submissions : submission'[t].at = "stopped" =>
          submission[t].at = "stopped" /\ submission'[t].meanwhile = submission[t].meanwhile
    BY <1>8, <1>9, <1>10
  <2>3. OneCreates'
    BY <2>1 DEF PlansInv, OneCreates
  <2>4. StoppedOnlyByRuns'
    BY <2>2 DEF PlansInv, StoppedOnlyByRuns
  <2>. QED  BY <2>3, <2>4
<1>16. PlansFit'
  <2>. SUFFICES ASSUME NEW t \in Submissions, NEW k \in {IdleSubmission} \cup SubmissionRecords,
                       submission'[t] = k, k.at = "creating", ~k.meanwhile
                PROVE  Cardinality(Waiting(k.device)') + Len(k.todo) <= MaxPendingApprovals
    BY <1>12 DEF PlansFit, PlansTyped, Waiting
  <2>1. t # s
    BY <1>8, <1>9
  <2>2. /\ submission[t].at = "creating" /\ ~submission[t].meanwhile
        /\ submission[t].device = k.device /\ submission[t].todo = k.todo
    BY <1>10, <2>1
  <2>3. Waiting(k.device)' = Waiting(k.device)
    BY <1>1 DEF Waiting
  <2>. QED  BY <2>2, <2>3 DEF PlansInv, PlansFit
<1>. QED  BY <1>12, <1>13, <1>14, <1>15, <1>16 DEF PlansInv

-----------------------------------------------------------------------------
(* The steps of a decision.                                                *)

LEMMA SmallestIsOne ==
  ASSUME NEW S \in SUBSET Directories, S # {} PROVE Smallest(S) \in S
<1>1. S \subseteq Nat
  BY PlansAssumption
<1>2. PICK d \in S : \A e \in S : ~(<<e, d>> \in OpToRel(<, Nat))
  BY <1>1, NatLessThanWellFounded, WFMin
<1>3. OpToRel(<, Nat) = {pair \in Nat \X Nat : pair[1] < pair[2]}
  BY DEF OpToRel
<1>4. \A e \in S : ~(e < d)
  BY <1>1, <1>2, <1>3
<1>5. \A e \in S : d <= e
  BY <1>1, <1>4
<1>. QED  BY <1>5 DEF Smallest

\* What fits goes on fitting while nothing more waits.
LEMMA FitLasts ==
  ASSUME PlansInv, UNCHANGED submission,
         \A d \in Directories : Waiting(d)' \subseteq Waiting(d)
  PROVE  PlansFit'
<1>. SUFFICES ASSUME NEW t \in Submissions, NEW k \in {IdleSubmission} \cup SubmissionRecords,
                     submission'[t] = k, k.at = "creating", ~k.meanwhile
              PROVE  Cardinality(Waiting(k.device)') + Len(k.todo) <= MaxPendingApprovals
  BY DEF PlansFit, PlansInv, PlansTyped, Waiting
<1>1. submission[t] = k /\ k.device \in Directories /\ Len(k.todo) \in Nat
  BY IdlePlaces DEF SubmissionRecords
<1>2. PICK before, after : before = Waiting(k.device) /\ after = Waiting(k.device)'
  OBVIOUS
<1>3. Cardinality(before) + Len(k.todo) <= MaxPendingApprovals
  BY <1>1, <1>2 DEF PlansInv, PlansFit
<1>4. IsFiniteSet(before) /\ Cardinality(before) \in Nat /\ after \subseteq before
  BY <1>1, <1>2, WaitingFinite
<1>5. Cardinality(after) <= Cardinality(before) /\ Cardinality(after) \in Nat
  BY <1>4, FS_Subset, FS_CardinalityType
<1>6. Cardinality(after) + Len(k.todo) <= MaxPendingApprovals
  BY <1>1, <1>3, <1>4, <1>5, PlansAssumption
<1>. QED  BY <1>2, <1>6

\* Decision o becomes n, and of what waits no more waits.
LEMMA DecisionMoves ==
  ASSUME PlansInv, UNCHANGED <<manifest, submission>>, NEW o \in Deciders,
         NEW n \in {IdleDecision} \cup DecisionRecords,
         decision' = [decision EXCEPT ![o] = n],
         asked' \in [Requests -> {NotAsked} \cup AskedRecords],
         \A d \in Directories : Waiting(d)' \subseteq Waiting(d),
         n.at # "idle" =>
           /\ n.at = "applying" => n.unscanned = {}
           /\ \A d \in n.held : HoldsPlan(d, n.plan) /\ (d \in n.unscanned \/ d = n.match)
  PROVE  PlansInv'
<1>1. decision'[o] = n /\ \A q \in Deciders \ {o} : decision'[q] = decision[q]
  BY DEF PlansInv, PlansTyped
<1>2. PlansTyped'
  BY DEF PlansInv, PlansTyped
<1>3. RivalsAhead' /\ HeldFound'
  BY <1>1 DEF PlansInv, RivalsAhead, HeldFound, HoldsPlan
<1>4. OneCreates' /\ StoppedOnlyByRuns'
  BY DEF PlansInv, OneCreates, StoppedOnlyByRuns
<1>5. PlansFit'
  BY FitLasts
<1>. QED  BY <1>2, <1>3, <1>4, <1>5 DEF PlansInv

LEMMA DecideKeeps ==
  ASSUME PlansInv, NEW o \in Deciders, NEW p \in PlanIDs,
         NEW named \in Directories \cup {NoDevice}, DecidePlan(o, p, named)
  PROVE  PlansInv'
<1> DEFINE new == [at |-> "scanning", plan |-> p, match |-> NoDevice, todo |-> {},
                   unscanned |-> IF named = NoDevice THEN Directories ELSE {named},
                   held |-> IF named = NoDevice THEN {d \in Directories : HoldsPlan(d, p)} ELSE {}]
<1>1. /\ decision' = [decision EXCEPT ![o] = new]
      /\ UNCHANGED <<asked, manifest, submission>>
  BY DEF DecidePlan
<1>2. /\ new \in DecisionRecords /\ new.at = "scanning"
      /\ \A d \in new.held : HoldsPlan(d, new.plan) /\ d \in new.unscanned
  BY DEF DecisionRecords
<1> HIDE DEF new
<1>3. PICK n \in DecisionRecords :
        /\ decision' = [decision EXCEPT ![o] = n] /\ n.at = "scanning"
        /\ \A d \in n.held : HoldsPlan(d, n.plan) /\ d \in n.unscanned
  BY <1>1, <1>2
<1>4. \A e : Waiting(e)' = Waiting(e)
  BY <1>1 DEF Waiting
<1>. QED  BY <1>1, <1>3, <1>4, DecisionMoves DEF PlansInv, PlansTyped

LEMMA DecisionEnds ==
  ASSUME PlansInv, NEW o \in Deciders, UNCHANGED <<manifest, submission>>,
         asked' \in [Requests -> {NotAsked} \cup AskedRecords],
         \A d \in Directories : Waiting(d)' \subseteq Waiting(d),
         decision' = [decision EXCEPT ![o] = IdleDecision]
  PROVE  PlansInv'
BY IdlePlaces, DecisionMoves

LEMMA FindKeeps ==
  ASSUME PlansInv, NEW o \in Deciders, FindDevice(o)
  PROVE  PlansInv'
<1> DEFINE me == decision[o]
           seen == Smallest(me.unscanned)
           past == [me EXCEPT !.unscanned = @ \ {seen}]
           found == [me EXCEPT !.unscanned = @ \ {seen}, !.match = seen]
<1>1. /\ me \in DecisionRecords /\ UNCHANGED <<asked, manifest, submission>>
      /\ me.at = "scanning" /\ me.unscanned # {}
  BY IdlePlaces DEF PlansInv, PlansTyped, FindDevice
<1>2. me.unscanned \subseteq Directories /\ me.held \subseteq Directories
  BY <1>1 DEF DecisionRecords
<1>3. seen \in Directories
  BY <1>1, <1>2, SmallestIsOne
<1>4. \A d \in me.held : HoldsPlan(d, me.plan) /\ (d \in me.unscanned \/ d = me.match)
  BY <1>1 DEF PlansInv, HeldFound
<1>5. \A e : Waiting(e)' = Waiting(e)
  BY <1>1 DEF Waiting
<1>6. \/ /\ ~HoldsPlan(seen, me.plan) /\ decision' = [decision EXCEPT ![o] = past]
      \/ /\ me.match = NoDevice /\ decision' = [decision EXCEPT ![o] = found]
      \/ decision' = [decision EXCEPT ![o] = IdleDecision]
  BY DEF FindDevice, Unmatched
<1>7. CASE ~HoldsPlan(seen, me.plan) /\ decision' = [decision EXCEPT ![o] = past]
  <2>1. /\ past \in DecisionRecords /\ past.at = "scanning" /\ past.plan = me.plan
        /\ past.held = me.held /\ past.match = me.match
        /\ past.unscanned = me.unscanned \ {seen}
    BY <1>1 DEF DecisionRecords
  <2> HIDE DEF past
  <2>2. PICK n \in DecisionRecords :
          /\ decision' = [decision EXCEPT ![o] = n] /\ n.at = "scanning"
          /\ \A d \in n.held : HoldsPlan(d, n.plan) /\ (d \in n.unscanned \/ d = n.match)
    BY <1>4, <1>7, <2>1
  <2>. QED  BY <1>1, <1>5, <2>2, DecisionMoves DEF PlansInv, PlansTyped
<1>8. CASE me.match = NoDevice /\ decision' = [decision EXCEPT ![o] = found]
  <2>1. /\ found \in DecisionRecords /\ found.at = "scanning" /\ found.plan = me.plan
        /\ found.held = me.held /\ found.match = seen
        /\ found.unscanned = me.unscanned \ {seen}
    BY <1>1, <1>3 DEF DecisionRecords
  <2> HIDE DEF found
  <2>2. \A d \in me.held : d # me.match
    BY <1>2, <1>8, PlansAssumption
  <2>3. PICK n \in DecisionRecords :
          /\ decision' = [decision EXCEPT ![o] = n] /\ n.at = "scanning"
          /\ \A d \in n.held : HoldsPlan(d, n.plan) /\ (d \in n.unscanned \/ d = n.match)
    BY <1>4, <1>8, <2>1, <2>2
  <2>. QED  BY <1>1, <1>5, <2>3, DecisionMoves DEF PlansInv, PlansTyped
<1>9. CASE decision' = [decision EXCEPT ![o] = IdleDecision]
  BY <1>1, <1>5, <1>9, DecisionEnds DEF PlansInv, PlansTyped
<1>. QED  BY <1>6, <1>7, <1>8, <1>9

LEMMA StatusKeeps ==
  ASSUME PlansInv, NEW o \in Deciders, PlanStatus(o)
  PROVE  PlansInv'
<1> DEFINE me == decision[o]
           members == PendingMembers(me.match, me.plan)
           new == [me EXCEPT !.at = "applying", !.todo = members]
<1>1. /\ me \in DecisionRecords /\ UNCHANGED <<asked, manifest, submission>>
      /\ me.at = "scanning" /\ me.unscanned = {}
  BY IdlePlaces DEF PlansInv, PlansTyped, PlanStatus
<1>2. members \subseteq Requests
  BY DEF PendingMembers, Waiting
<1>3. \A d \in me.held : HoldsPlan(d, me.plan) /\ d = me.match
  BY <1>1 DEF PlansInv, HeldFound
<1>4. \A e : Waiting(e)' = Waiting(e)
  BY <1>1 DEF Waiting
<1>5. \/ decision' = [decision EXCEPT ![o] = new]
      \/ decision' = [decision EXCEPT ![o] = IdleDecision]
  BY DEF PlanStatus
<1>6. CASE decision' = [decision EXCEPT ![o] = new]
  <2> HIDE DEF members
  <2>1. /\ new \in DecisionRecords /\ new.at = "applying" /\ new.plan = me.plan
        /\ new.held = me.held /\ new.match = me.match /\ new.unscanned = {}
    BY <1>1, <1>2 DEF DecisionRecords
  <2> HIDE DEF new
  <2>2. PICK n \in DecisionRecords :
          /\ decision' = [decision EXCEPT ![o] = n] /\ n.unscanned = {}
          /\ \A d \in n.held : HoldsPlan(d, n.plan) /\ d = n.match
    BY <1>3, <1>6, <2>1
  <2>. QED  BY <1>1, <1>4, <2>2, DecisionMoves DEF PlansInv, PlansTyped
<1>7. CASE decision' = [decision EXCEPT ![o] = IdleDecision]
  BY <1>1, <1>4, <1>7, DecisionEnds DEF PlansInv, PlansTyped
<1>. QED  BY <1>5, <1>6, <1>7

\* A request decided waits no more, and is otherwise what it was.
LEMMA DecidedWaits ==
  ASSUME PlansInv, NEW r \in Requests, asked[r].status = "pending",
         asked' = [asked EXCEPT ![r].status = "decided"]
  PROVE  /\ asked' \in [Requests -> {NotAsked} \cup AskedRecords]
         /\ \A d : Waiting(d)' \subseteq Waiting(d)
<1>1. asked[r] \in AskedRecords
  BY DEF PlansInv, PlansTyped, NotAsked
<1>2. [asked[r] EXCEPT !.status = "decided"] \in AskedRecords
      /\ [asked[r] EXCEPT !.status = "decided"].status = "decided"
  BY <1>1 DEF AskedRecords
<1>3. PICK k : k = [asked[r] EXCEPT !.status = "decided"]
  OBVIOUS
<1>4. asked' = [asked EXCEPT ![r] = k]
  BY <1>3
<1>5. k \in AskedRecords /\ k.status = "decided"
  BY <1>2, <1>3
<1>6. asked'[r] = k /\ \A q \in Requests \ {r} : asked'[q] = asked[q]
  BY <1>4 DEF PlansInv, PlansTyped
<1>7. asked' \in [Requests -> {NotAsked} \cup AskedRecords]
  BY <1>4, <1>5 DEF PlansInv, PlansTyped
<1>8. \A d : Waiting(d)' \subseteq Waiting(d)
  BY <1>5, <1>6 DEF Waiting
<1>. QED  BY <1>7, <1>8

LEMMA ApplyKeeps ==
  ASSUME PlansInv, NEW o \in Deciders, ApplyPlanDecision(o)
  PROVE  PlansInv'
<1> DEFINE me == decision[o]
<1>1. me \in DecisionRecords /\ UNCHANGED <<manifest, submission>> /\ me.at = "applying"
  BY IdlePlaces DEF PlansInv, PlansTyped, ApplyPlanDecision
<1>2. me.todo \subseteq Requests
  BY <1>1 DEF DecisionRecords
<1>3. /\ me.unscanned = {}
      /\ \A d \in me.held : HoldsPlan(d, me.plan) /\ d = me.match
  BY <1>1 DEF PlansInv, HeldFound
<1>4. /\ asked' \in [Requests -> {NotAsked} \cup AskedRecords]
      /\ \A d : Waiting(d)' \subseteq Waiting(d)
  <2>1. CASE UNCHANGED asked
    BY <2>1 DEF PlansInv, PlansTyped, Waiting
  <2>2. CASE asked' # asked
    <3>1. PICK r \in me.todo :
            asked[r].status = "pending" /\ asked' = [asked EXCEPT ![r].status = "decided"]
      BY <2>2 DEF ApplyPlanDecision
    <3>. QED  BY <1>2, <3>1, DecidedWaits
  <2>. QED  BY <2>1, <2>2
<1>5. CASE decision' = [decision EXCEPT ![o] = IdleDecision]
  BY <1>1, <1>4, <1>5, DecisionEnds
<1>6. CASE decision' # [decision EXCEPT ![o] = IdleDecision]
  <2>1. PICK r \in me.todo : decision' = [decision EXCEPT ![o].todo = @ \ {r}]
    BY <1>6 DEF ApplyPlanDecision, PlansInv, PlansTyped
  <2> DEFINE new == [me EXCEPT !.todo = @ \ {r}]
  <2>2. decision' = [decision EXCEPT ![o] = new]
    BY <2>1
  <2>3. /\ new \in DecisionRecords /\ new.at = "applying" /\ new.plan = me.plan
        /\ new.held = me.held /\ new.match = me.match /\ new.unscanned = {}
    BY <1>1, <1>3 DEF DecisionRecords
  <2> HIDE DEF new
  <2>4. PICK n \in DecisionRecords :
          /\ decision' = [decision EXCEPT ![o] = n] /\ n.unscanned = {}
          /\ \A d \in n.held : HoldsPlan(d, n.plan) /\ d = n.match
    BY <1>3, <2>2, <2>3
  <2>. QED  BY <1>1, <1>4, <2>4, DecisionMoves
<1>. QED  BY <1>5, <1>6

\* What waits shrinks, nothing else changes, or every handler is gone.
LEMMA OthersKeep ==
  ASSUME PlansInv, \/ \E r \in Requests : DecideApproval(r)
                   \/ RestartGateway
                   \/ UNCHANGED planVars
  PROVE  PlansInv'
<1>1. CASE RestartGateway
  <2>1. /\ UNCHANGED <<asked, manifest>>
        /\ submission' \in [Submissions -> {IdleSubmission}]
        /\ decision' \in [Deciders -> {IdleDecision}]
    BY <1>1 DEF RestartGateway
  <2>2. PlansTyped'
    BY <2>1 DEF PlansInv, PlansTyped
  <2>3. /\ \A s \in Submissions : submission'[s].at = "idle"
        /\ \A o \in Deciders : decision'[o].at = "idle"
    BY <2>1, IdlePlaces
  <2>. QED  BY <2>2, <2>3 DEF PlansInv, RivalsAhead, HeldFound, OneCreates, PlansFit,
               StoppedOnlyByRuns
<1>2. CASE ~RestartGateway
  <2>1. UNCHANGED <<manifest, submission, decision>>
    BY <1>2 DEF DecideApproval, planVars
  <2>2. /\ asked' \in [Requests -> {NotAsked} \cup AskedRecords]
        /\ \A d : Waiting(d)' \subseteq Waiting(d)
    <3>1. CASE UNCHANGED asked
      BY <3>1 DEF PlansInv, PlansTyped, Waiting
    <3>2. CASE asked' # asked
      BY <1>2, <3>2, DecidedWaits DEF DecideApproval, planVars
    <3>. QED  BY <3>1, <3>2
  <2>3. PlansTyped' /\ PlansFit'
    BY <2>1, <2>2, FitLasts DEF PlansInv, PlansTyped
  <2>4. RivalsAhead' /\ HeldFound' /\ OneCreates' /\ StoppedOnlyByRuns'
    BY <2>1 DEF PlansInv, RivalsAhead, HeldFound, HoldsPlan, OneCreates, StoppedOnlyByRuns
  <2>. QED  BY <2>3, <2>4 DEF PlansInv
<1>. QED  BY <1>1, <1>2

-----------------------------------------------------------------------------

THEOREM PlansInductive == PlansSpec => []PlansInv
<1>1. PlansInv /\ [PlansNext]_planVars => PlansInv'
  <2>. SUFFICES ASSUME PlansInv, [PlansNext]_planVars PROVE PlansInv'
    OBVIOUS
  <2>1. ASSUME NEW s \in Submissions, NEW d \in Directories, NEW p \in PlanIDs,
               NEW commands \in CommandLists, HandlePlanSubmit(s, d, p, commands)
        PROVE  PlansInv'
    BY <2>1, SubmitKeeps
  <2>2. ASSUME NEW s \in Submissions,
               \/ PlanIDTaken(s) \/ FitsOrBusy(s) \/ SettledCommand(s) \/ CreateRequest(s)
               \/ CreatePlan(s) \/ NothingToDecide(s) \/ AnswerSubmission(s)
        PROVE  PlansInv'
    BY <2>2, ScanKeeps, FitsKeeps, SettledKeeps, RequestKeepsPlans, ManifestKeeps
  <2>3. ASSUME NEW d \in Directories, NEW c \in Commands, GrayZoneRun(d, c) PROVE PlansInv'
    BY <2>3, GrayZoneKeeps
  <2>4. ASSUME NEW o \in Deciders, NEW p \in PlanIDs, NEW named \in Directories \cup {NoDevice},
               DecidePlan(o, p, named)
        PROVE  PlansInv'
    BY <2>4, DecideKeeps
  <2>5. ASSUME NEW o \in Deciders, FindDevice(o) \/ PlanStatus(o) \/ ApplyPlanDecision(o)
        PROVE  PlansInv'
    BY <2>5, FindKeeps, StatusKeeps, ApplyKeeps
  <2>6. CASE (\E r \in Requests : DecideApproval(r)) \/ RestartGateway \/ UNCHANGED planVars
    BY <2>6, OthersKeep
  <2>. QED  BY <2>1, <2>2, <2>3, <2>4, <2>5, <2>6 DEF PlansNext
<1>. QED  BY <1>1, PlansStart, PTL DEF PlansSpec

\* The requests on disk and the manifests are what their files can hold
\* (approval/plan.go, PendingApproval).
THEOREM PlansTypeCorrect == PlansSpec => []PlansTypeOK
<1>1. PlansInv => PlansTypeOK
  BY DEF PlansInv, PlansTyped, PlansTypeOK, AskedRecords, Lines
<1>. QED  BY <1>1, PlansInductive, PTL

\* Whatever the order of submissions, reapings and decisions, no plan takes an
\* ID that another device held all through its lookup, and no decision is
\* applied to one of two devices that held its ID (planIDTaken, findDevice).
THEOREM IdsStayUnambiguous == PlansSpec => []IdsUnambiguous
<1>1. PlansInv => IdsUnambiguous
  <2>. SUFFICES ASSUME PlansInv PROVE IdsUnambiguous
    OBVIOUS
  <2>1. IdHeldOnce
    BY DEF PlansInv, RivalsAhead, IdHeldOnce
  <2>2. DecisionNotSteered
    BY DEF PlansInv, HeldFound, DecisionNotSteered
  <2>. QED  BY <2>1, <2>2 DEF IdsUnambiguous
<1>. QED  BY <1>1, PlansInductive, PTL

\* A plan that was found to fit under the cap is stopped by it only when a run
\* of its device, which takes no mutex, published a request after the count
\* (handlePlanSubmit).
THEOREM StoppedByRuns == PlansSpec => []StoppedOnlyByRuns
<1>1. PlansInv => StoppedOnlyByRuns
  BY DEF PlansInv
<1>. QED  BY <1>1, PlansInductive, PTL

===============================================================================
