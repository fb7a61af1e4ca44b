--------------------------- MODULE ApprovalsPane ---------------------------
(***************************************************************************)
(* The Approvals tab of the terminal (tui/approvals_section.go and its     *)
(* task and plan parts).  It polls the queue of requests, which agents     *)
(* fill and other consoles decide meanwhile, lets the operator pick one    *)
(* request or a whole plan, and applies a verdict to it.                   *)
(*                                                                         *)
(* A list comes back from a background command, and its message arrives    *)
(* after other messages and keys were handled.  The tab's own view of the  *)
(* queue may be stale then; the choices of its menu are read from the disk *)
(* every time it is drawn or used.                                         *)
(***************************************************************************)
EXTENDS Naturals, Sequences, FiniteSets, SequencesExt

CONSTANTS
    Requests,    \* 1..n, in the order of the list: by time, then by ID
    PlanIDs,
    NoPlanID,
    PlanOf,      \* the plan each request was submitted for, or NoPlanID
    Members,     \* the requests of every plan; a line may join an older request
    Taskable,    \* the requests with a task profile
    Promotable,  \* the requests that may become a host rule
    MaxPlans,    \* PendingStore.MaxPending
    MaxLists     \* bound on the lists under way

ASSUME QueueAssumption ==
    /\ Requests = 1..Cardinality(Requests)
    /\ PlanOf \in [Requests -> PlanIDs \union {NoPlanID}]
    /\ \A r \in Requests : PlanOf[r] # NoPlanID => r \in Members[PlanOf[r]]

VARIABLES
    request,     \* the requests on disk: none, pending, approved, denied or reaped
    manifest,    \* the plan manifests on disk: none, there or reaped
    listed,      \* the lists of approvalsLoadedMsg to come
    pane,        \* the fields of approvalsSection
    drawn        \* the choice highlighted when the tab was last drawn

queueVars == <<request, manifest, listed, pane, drawn>>

Verdicts == {"once", "session", "host", "task", "deny"}

\* What Status reports of a verdict.
StatusOf(v) == IF v = "deny" THEN "denied" ELSE "approved"

-----------------------------------------------------------------------------
(* The queue on disk. *)

Waiting == SelectSeq([i \in 1..Cardinality(Requests) |-> i], LAMBDA r : request[r] = "pending")

PendingMembers(pl) == {r \in Members[pl] : request[r] = "pending"}

\* A reaped member counts as expired; a plan is approved only when every
\* member is known to be.
PlanStatus(pl) ==
    CASE PendingMembers(pl) # {} -> "pending"
      [] PendingMembers(pl) = {} /\ \E r \in Members[pl] : request[r] = "denied" -> "denied"
      [] OTHER -> IF \E r \in Members[pl] : request[r] \in {"none", "reaped"}
                  THEN "expired" ELSE "approved"

PendingPlans == {pl \in PlanIDs : manifest[pl] = "there" /\ PlanStatus(pl) = "pending"}

-----------------------------------------------------------------------------
(* What the tab makes of its own list. *)

Selected(p) == p.cursor \in DOMAIN p.list
Focused(p) == p.list[p.cursor]
Collapsed(p, r) == PlanOf[r] # NoPlanID /\ PlanOf[r] \notin p.expanded
OnCollapsed(p) == Selected(p) /\ Collapsed(p, Focused(p))

\* A collapsed plan shows as its first request.
VisibleRows(p) ==
    SelectSeq([i \in DOMAIN p.list |-> i],
              LAMBDA i : Collapsed(p, p.list[i]) =>
                           \A j \in 1..(i-1) : PlanOf[p.list[j]] # PlanOf[p.list[i]])

FirstOfPlan(p, pl) ==
    CHOOSE i \in DOMAIN p.list : PlanOf[p.list[i]] = pl
                                 /\ \A j \in 1..(i-1) : PlanOf[p.list[j]] # pl

ClampCursor(p) ==
    LET at == IF p.cursor <= Len(p.list) THEN p.cursor
              ELSE IF p.list = <<>> THEN 1 ELSE Len(p.list)
        q == [p EXCEPT !.cursor = at]
    IN IF OnCollapsed(q)
       THEN [q EXCEPT !.cursor = FirstOfPlan(q, PlanOf[Focused(q)])]
       ELSE q

\* The cursor after j and k: a cursor on no visible row counts as the first.
Moved(p, down) ==
    LET rows == VisibleRows(p)
        pos == IF \E k \in DOMAIN rows : rows[k] = p.cursor
               THEN CHOOSE k \in DOMAIN rows : rows[k] = p.cursor ELSE 1
        next == IF down THEN (IF pos < Len(rows) THEN pos + 1 ELSE pos)
                        ELSE (IF pos > 1 THEN pos - 1 ELSE pos)
    IN IF rows = <<>> THEN 1 ELSE rows[next]

\* The requests a task choice would cover: those of a plan are read from the
\* disk, and from the list when the disk has none.
TaskMembers(p) ==
    LET r == Focused(p) IN
    IF ~ Selected(p) THEN {}
    ELSE IF PlanOf[r] = NoPlanID \/ (~ p.planMode /\ PlanOf[r] \in p.expanded) THEN {r}
    ELSE IF manifest[PlanOf[r]] = "there" /\ PendingMembers(PlanOf[r]) # {}
    THEN PendingMembers(PlanOf[r])
    ELSE {x \in Range(p.list) : PlanOf[x] = PlanOf[r]}

HasTaskChoice(p) == TaskMembers(p) \intersect Taskable # {}

Menu(p) ==
    <<"once", "session">>
      \o (IF Selected(p) /\ ~ p.planMode /\ Focused(p) \in Promotable
          THEN <<"host">> ELSE <<>>)
      \o (IF HasTaskChoice(p) THEN <<"task">> ELSE <<>>)
      \o <<"deny">>

Closed(p) == [p EXCEPT !.choosing = FALSE, !.planMode = FALSE, !.id = 0,
                       !.choice = 1]

\* For comparison, a menu that stays where the cursor is.
ResyncByCursor(p) == IF Selected(p) THEN p ELSE Closed(p)

\* A new list keeps the menu on the request it was opened for, or closes it.
Resync(p) ==
    IF p.id \notin Range(p.list) THEN Closed(p)
    ELSE LET q == [p EXCEPT !.cursor = CHOOSE i \in DOMAIN p.list : p.list[i] = p.id]
         IN [q EXCEPT !.choice = IF @ <= Len(Menu(q)) THEN @ ELSE Len(Menu(q))]

-----------------------------------------------------------------------------
(* Every message and key ends in a drawing. *)

Draw(p) ==
    /\ pane' = p
    /\ drawn' = IF p.choosing /\ p.choice <= Len(Menu(p)) THEN Menu(p)[p.choice] ELSE "none"

KeyOnly == UNCHANGED <<request, manifest, listed>>

\* approvalsTickMsg and every reload: the list is read now and arrives later.
ReadList ==
    /\ Cardinality(listed) < MaxLists
    /\ listed' = listed \union {Waiting}
    /\ UNCHANGED <<request, manifest, pane, drawn>>

Loaded ==
    \E l \in listed :
      /\ listed' = listed \ {l}
      /\ LET p == ClampCursor([pane EXCEPT !.list = l])
         IN Draw(IF p.choosing THEN Resync(p) ELSE p)
      /\ UNCHANGED <<request, manifest>>

MoveSelection ==
    /\ ~ pane.choosing
    /\ \E c \in {Moved(pane, TRUE), Moved(pane, FALSE), 1,
                 IF VisibleRows(pane) = <<>> THEN 1 ELSE Last(VisibleRows(pane))} :
         Draw([pane EXCEPT !.cursor = c])
    /\ KeyOnly

Expand ==
    /\ ~ pane.choosing
    /\ Selected(pane) /\ PlanOf[Focused(pane)] # NoPlanID
    /\ LET pl == PlanOf[Focused(pane)]
       IN Draw(ClampCursor([pane EXCEPT !.expanded =
                              IF pl \in @ THEN @ \ {pl} ELSE @ \union {pl}]))
    /\ KeyOnly

Opened(plan, choice) ==
    [pane EXCEPT !.choosing = TRUE, !.planMode = plan, !.choice = choice, !.id = Focused(pane)]

\* enter on one request
OpenChooser ==
    /\ ~ pane.choosing
    /\ Selected(pane) /\ ~ OnCollapsed(pane)
    /\ Draw(Opened(FALSE, 1))
    /\ KeyOnly

\* enter on a collapsed plan, p on any request of a plan
OpenPlanChooser ==
    /\ ~ pane.choosing
    /\ Selected(pane) /\ PlanOf[Focused(pane)] # NoPlanID
    /\ Draw(Opened(TRUE, 1))
    /\ KeyOnly

OpenTaskChooser ==
    /\ ~ pane.choosing
    /\ HasTaskChoice(pane)
    /\ LET p == Opened(OnCollapsed(pane), pane.choice)
       IN \E i \in DOMAIN Menu(p) :
            Menu(p)[i] = "task" /\ Draw([p EXCEPT !.choice = i])
    /\ KeyOnly

MoveChoice ==
    /\ pane.choosing
    /\ \E c \in {IF pane.choice > 1 THEN pane.choice - 1 ELSE 1,
                 IF pane.choice < Len(Menu(pane)) THEN pane.choice + 1
                 ELSE Len(Menu(pane))} :
         Draw([pane EXCEPT !.choice = c])
    /\ KeyOnly

Escape ==
    /\ pane.choosing
    /\ Draw(Closed(pane))
    /\ KeyOnly

-----------------------------------------------------------------------------
(* Verdicts. *)

Decided(S, v) == [r \in Requests |-> IF r \in S THEN StatusOf(v) ELSE request[r]]

\* decide: ApplyDecision refuses a request that is decided or gone, and may
\* fail before the verdict is stored or after.  Only a success drops the row.
Adjudicate(v, p) ==
    LET r == Focused(pane)
        stored == request[r] = "pending" /\ (v = "task" => r \in Taskable)
    IN
    \/ /\ Draw(p)
       /\ UNCHANGED request
    \/ /\ stored
       /\ request' = Decided({r}, v)
       /\ \/ Draw(p)
          \/ Draw(ClampCursor([p EXCEPT !.list = RemoveAt(@, pane.cursor)]))

\* ApplyPlanDecision: the members still pending, in order, up to the first one
\* that fails.  The scope task never fails there: a member without a profile
\* gets an exact session grant.
DecidePlan(v, p) ==
    LET pl == PlanOf[Focused(pane)]
        todo == IF pl # NoPlanID /\ manifest[pl] = "there" THEN PendingMembers(pl) ELSE {}
    IN
    \E done \in SUBSET todo :
      /\ \A r \in done, q \in todo \ done : r < q
      /\ request' = Decided(done, v)
      /\ Draw(p)

\* resolveWith closes the menu and decides; a collapsed plan is decided as a
\* whole, and a whole plan never gets a host rule.
ResolveWith(v) ==
    LET whole == pane.planMode \/ OnCollapsed(pane) IN
    /\ Selected(pane)
    /\ IF whole /\ v = "host"
       THEN Draw(pane) /\ UNCHANGED request
       ELSE IF whole THEN DecidePlan(v, Closed(pane))
       ELSE IF v = "host" /\ Focused(pane) \notin Promotable
       THEN Draw(Closed(pane)) /\ UNCHANGED request
       ELSE Adjudicate(v, Closed(pane))
    /\ UNCHANGED <<manifest, listed>>

\* o, s, h and d without a menu
DecideDirectly ==
    /\ ~ pane.choosing
    /\ \E v \in {"once", "session", "host", "deny"} : ResolveWith(v)

\* the same keys, and t, in the menu
DecideByKey ==
    /\ pane.choosing
    /\ \E v \in Verdicts :
         /\ v = "host" => ~ pane.planMode
         /\ v = "task" => HasTaskChoice(pane)
         /\ ResolveWith(v)

\* enter in the menu: the choices are those of now
DecideByChoice ==
    /\ pane.choosing
    /\ pane.choice <= Len(Menu(pane))
    /\ ResolveWith(Menu(pane)[pane.choice])

-----------------------------------------------------------------------------
(* Agents and other consoles. *)

Outside == UNCHANGED <<listed, pane, drawn>>

\* A request on its own, or the next line of a plan's submission.
CreateRequest(r) ==
    /\ request[r] = "none"
    /\ PlanOf[r] # NoPlanID =>
         \A q \in Members[PlanOf[r]] : q < r => request[q] # "none"
    /\ request' = [request EXCEPT ![r] = "pending"]
    /\ UNCHANGED manifest
    /\ Outside

\* CreatePlan: it counts the plans that wait, and removes old ones that do not.
CreatePlan(pl) ==
    /\ manifest[pl] = "none"
    /\ \A r \in Members[pl] : request[r] # "none"
    /\ \E old \in SUBSET {x \in PlanIDs : manifest[x] = "there" /\ x \notin PendingPlans} :
         manifest' = [x \in PlanIDs |->
                        IF x \in old THEN "reaped"
                        ELSE IF x = pl /\ Cardinality(PendingPlans) < MaxPlans
                        THEN "there" ELSE manifest[x]]
    /\ UNCHANGED request
    /\ Outside

DecideElsewhere(r, v) ==
    /\ request[r] = "pending"
    /\ request' = [request EXCEPT ![r] = StatusOf(v)]
    /\ UNCHANGED manifest
    /\ Outside

ReapRequest(r) ==
    /\ request[r] \in {"approved", "denied"}
    /\ request' = [request EXCEPT ![r] = "reaped"]
    /\ UNCHANGED manifest
    /\ Outside

QueueInit ==
    /\ request = [r \in Requests |-> "none"]
    /\ manifest = [pl \in PlanIDs |-> "none"]
    /\ listed = {}
    /\ pane = [list |-> <<>>, cursor |-> 1, expanded |-> {}, choosing |-> FALSE,
               planMode |-> FALSE, choice |-> 1, id |-> 0]
    /\ drawn = "none"

QueueNext ==
    \/ ReadList \/ Loaded
    \/ MoveSelection \/ Expand
    \/ OpenChooser \/ OpenPlanChooser \/ OpenTaskChooser
    \/ MoveChoice \/ Escape
    \/ DecideByChoice \/ DecideByKey \/ DecideDirectly
    \/ \E r \in Requests : CreateRequest(r) \/ ReapRequest(r)
    \/ \E r \in Requests, v \in {"once", "deny"} : DecideElsewhere(r, v)
    \/ \E pl \in PlanIDs : CreatePlan(pl)

QueueSpec == QueueInit /\ [][QueueNext]_queueVars

-----------------------------------------------------------------------------
(* Properties. *)

\* Whatever lists arrive while the menu is open, a verdict given in it falls
\* on the request it was opened for, or on that request's plan when it was
\* opened for the plan (choiceID: "so a poll can't misapply it").
MenuDecidesItsTarget ==
    [][pane.choosing /\ pane' # pane =>
         \A r \in Requests :
           request'[r] # request[r] =>
             r = pane.id \/ (pane.planMode /\ r \in Members[PlanOf[pane.id]])]_queueVars

\* Enter applies the choice that is highlighted on the screen.
EnterAppliesTheChoiceShown ==
    [][DecideByChoice /\ request' # request => drawn = Menu(pane)[pane.choice]]_queueVars
=============================================================================
