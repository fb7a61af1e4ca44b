----------------------------- MODULE ScreenProofs -----------------------------
(***************************************************************************)
(* Proofs about the terminal's Hosts screen and its Approvals tab.  Both    *)
(* act on what they last showed, while other commands write the files and   *)
(* messages of their own come late; what keeps them right is that a handler *)
(* reads again what it is about to change, and that a menu and an overlay   *)
(* remember what they were opened for.                                      *)
(***************************************************************************)
EXTENDS HostsScreen, ApprovalsPane, TLAPS

-----------------------------------------------------------------------------
(* The Hosts screen.  A handler that writes starts from the file it just   *)
(* read, so while no other command has written since, what it may change   *)
(* is what it is about; and a verdict in the overlay belongs to the        *)
(* opening it is shown in, however late it came.                           *)

OverlayShape ==
  overlay = [open |-> overlay.open, run |-> overlay.run, phase |-> overlay.phase,
             selected |-> overlay.selected, probing |-> overlay.probing,
             verdict |-> overlay.verdict]

\* No verdict of an earlier opening is in the overlay.
VerdictsOfNow ==
  \A c \in DOMAIN overlay.verdict : overlay.verdict[c].run = overlay.run

\* What a handler has read is what the file has, unless it was raced.
HandlerFresh ==
  /\ handler.edits \in 0..edits
  /\ handler.phase \in {"read", "undo read"} /\ handler.edits = edits
       => handler.hosts = onDisk

HostsInv == edits \in Nat /\ OverlayShape /\ VerdictsOfNow /\ HandlerFresh

\* What a step may change: the host it is about, and what an import may add.
KeepsOthers ==
  /\ \A n \in DOMAIN onDisk \ {detailHost, SelectedHost, testing, handler.host} :
       n \in DOMAIN onDisk' /\ onDisk'[n] = onDisk[n]
  /\ focus = "discover" =>
       DOMAIN onDisk' \ DOMAIN onDisk \subseteq
         {c \in Connectable : overlay.verdict[c].run = overlay.run}

LEMMA HostsStart == ScreenInit => HostsInv
<1>1. DOMAIN << >> = {}
  OBVIOUS
<1>. QED  BY <1>1 DEF ScreenInit, HostsInv, OverlayShape, VerdictsOfNow, ClosedOverlay,
     HandlerFresh, Idle

\* The overlay is replaced by one whose verdicts are of its own opening.
LEMMA OverlayBecomes ==
  ASSUME NEW open, NEW run, NEW phase, NEW selected, NEW probing, NEW verdict,
         overlay' = [open |-> open, run |-> run, phase |-> phase, selected |-> selected,
                     probing |-> probing, verdict |-> verdict],
         \A c \in DOMAIN verdict : verdict[c].run = run
  PROVE  OverlayShape' /\ VerdictsOfNow'
BY DEF OverlayShape, VerdictsOfNow

LEMMA OverlayCloses ==
  ASSUME overlay' = ClosedOverlay PROVE OverlayShape' /\ VerdictsOfNow'
<1>1. DOMAIN << >> = {}
  OBVIOUS
<1>. QED  BY <1>1 DEF ClosedOverlay, OverlayShape, VerdictsOfNow

\* Nothing is written by a step that leaves the file alone.
LEMMA FileAlone == ASSUME UNCHANGED onDisk PROVE KeepsOthers
BY DEF KeepsOthers

\* Such a step leaves the handler as it was, or ends it.
LEMMA HandlerAlone ==
  ASSUME HostsInv, UNCHANGED <<onDisk, handler, edits>>
  PROVE  edits' \in Nat /\ HandlerFresh' /\ KeepsOthers
BY FileAlone DEF HostsInv, HandlerFresh

LEMMA HandlerEnds ==
  ASSUME HostsInv, UNCHANGED edits, handler'.phase \in {"idle", "undo", "reload"},
         handler'.edits = 0
  PROVE  edits' \in Nat /\ HandlerFresh'
<1>1. edits \in Nat /\ edits' = edits /\ 0 \in 0..edits
  BY DEF HostsInv
<1>. QED  BY <1>1 DEF HandlerFresh

LEMMA IdleShape ==
  ASSUME NEW p, NEW n
  PROVE  /\ Idle.phase = "idle" /\ Idle.edits = 0
         /\ [Idle EXCEPT !.phase = p, !.host = n].phase = p
         /\ [Idle EXCEPT !.phase = p, !.host = n].edits = 0
         /\ [Idle EXCEPT !.phase = p].phase = p
         /\ [Idle EXCEPT !.phase = p].edits = 0
BY DEF Idle

\* A handler in its writing phase holds what the file has.
LEMMA HandlerHolds ==
  ASSUME HostsInv, Unraced, handler.phase \in {"read", "undo read"}
  PROVE  handler.hosts = onDisk
BY DEF HostsInv, HandlerFresh, Unraced

LEMMA OpeningKeeps ==
  ASSUME HostsInv, UNCHANGED handler, OpenDiscovery PROVE HostsInv' /\ KeepsOthers
<1>1. /\ overlay' = [open |-> TRUE, run |-> discoverSeq + 1, phase |-> "loading",
                     selected |-> {}, probing |-> {}, verdict |-> << >>]
      /\ UNCHANGED <<onDisk, edits>>
  BY DEF OpenDiscovery, ClosedOverlay
<1>2. DOMAIN << >> = {}
  OBVIOUS
<1>3. OverlayShape' /\ VerdictsOfNow'
  BY <1>1, <1>2 DEF OverlayShape, VerdictsOfNow
<1>. QED  BY <1>1, <1>3, HandlerAlone DEF HostsInv

LEMMA LoadingKeeps ==
  ASSUME HostsInv, UNCHANGED handler, DiscoveryLoaded PROVE HostsInv' /\ KeepsOthers
<1>1. PICK task \in pending :
        overlay' \in IF ~ ForOverlay(task.run) THEN {overlay}
                     ELSE {[overlay EXCEPT !.phase = "failed"],
                           [overlay EXCEPT !.phase = "ready",
                                           !.selected = Candidates \ task.had]}
  BY DEF DiscoveryLoaded
<1>2. UNCHANGED <<onDisk, edits>>
  BY DEF DiscoveryLoaded
<1>3. PICK o : o = overlay /\ o = [open |-> o.open, run |-> o.run, phase |-> o.phase,
                     selected |-> o.selected, probing |-> o.probing, verdict |-> o.verdict]
  BY DEF HostsInv, OverlayShape
<1>4. PICK phase, selected :
        overlay' = [open |-> o.open, run |-> o.run, phase |-> phase,
                    selected |-> selected, probing |-> o.probing, verdict |-> o.verdict]
  <2>1. CASE overlay' = overlay
    BY <1>3, <2>1
  <2>2. CASE overlay' = [overlay EXCEPT !.phase = "failed"]
    BY <1>3, <2>2
  <2>3. CASE overlay' = [overlay EXCEPT !.phase = "ready", !.selected = Candidates \ task.had]
    BY <1>3, <2>3
  <2>. QED  BY <1>1, <2>1, <2>2, <2>3
<1>5. \A c \in DOMAIN o.verdict : o.verdict[c].run = o.run
  BY <1>3 DEF HostsInv, VerdictsOfNow
<1>6. OverlayShape' /\ VerdictsOfNow'
  BY <1>4, <1>5 DEF OverlayShape, VerdictsOfNow
<1>. QED  BY <1>2, <1>6, HandlerAlone DEF HostsInv

LEMMA ProbeKeeps ==
  ASSUME HostsInv, UNCHANGED handler, CandidateProbed PROVE HostsInv' /\ KeepsOthers
<1>1. PICK task \in pending, ok \in BOOLEAN :
        overlay' = IF ~ ForOverlay(task.run) THEN overlay
                   ELSE [overlay EXCEPT !.probing = @ \ {task.cand},
                                        !.verdict = With(@, task.cand, [run |-> task.run, ok |-> ok])]
  BY DEF CandidateProbed
<1>2. UNCHANGED <<onDisk, edits>>
  BY DEF CandidateProbed
<1>3. CASE ~ForOverlay(task.run)
  BY <1>1, <1>2, <1>3, HandlerAlone DEF HostsInv, OverlayShape, VerdictsOfNow
<1>4. CASE ForOverlay(task.run)
  <2>1. PICK o : o = overlay /\ o = [open |-> o.open, run |-> o.run, phase |-> o.phase,
                       selected |-> o.selected, probing |-> o.probing, verdict |-> o.verdict]
    BY DEF HostsInv, OverlayShape
  <2>2. PICK verdict : verdict = With(o.verdict, task.cand, [run |-> task.run, ok |-> ok])
    OBVIOUS
  <2>3. overlay' = [open |-> o.open, run |-> o.run, phase |-> o.phase, selected |-> o.selected,
                    probing |-> o.probing \ {task.cand}, verdict |-> verdict]
    BY <1>1, <1>4, <2>1, <2>2
  <2>4. task.run = o.run
    BY <1>4, <2>1 DEF ForOverlay
  <2>5. \A c \in DOMAIN o.verdict : o.verdict[c].run = o.run
    BY <2>1 DEF HostsInv, VerdictsOfNow
  <2>6. \A c \in DOMAIN verdict : verdict[c].run = o.run
    BY <2>2, <2>4, <2>5 DEF With
  <2>7. OverlayShape' /\ VerdictsOfNow'
    BY <2>3, <2>6 DEF OverlayShape, VerdictsOfNow
  <2>. QED  BY <1>2, <2>7, HandlerAlone DEF HostsInv
<1>. QED  BY <1>3, <1>4

LEMMA ChoosingKeeps ==
  ASSUME HostsInv, UNCHANGED handler,
         ProbeCandidates \/ (\E c \in Candidates : ToggleCandidate(c))
  PROVE  HostsInv' /\ KeepsOthers
<1>1. UNCHANGED <<onDisk, edits>>
  BY DEF ProbeCandidates, ToggleCandidate
<1>2. PICK o : o = overlay /\ o = [open |-> o.open, run |-> o.run, phase |-> o.phase,
                     selected |-> o.selected, probing |-> o.probing, verdict |-> o.verdict]
  BY DEF HostsInv, OverlayShape
<1>3. PICK selected, probing :
        overlay' = [open |-> o.open, run |-> o.run, phase |-> o.phase,
                    selected |-> selected, probing |-> probing, verdict |-> o.verdict]
  <2>1. CASE ProbeCandidates
    <3>1. overlay' = [overlay EXCEPT !.probing = overlay.selected]
      BY <2>1 DEF ProbeCandidates
    <3>. QED  BY <1>2, <3>1
  <2>2. CASE \E c \in Candidates : ToggleCandidate(c)
    <3>1. PICK c : overlay' = [overlay EXCEPT !.selected = IF c \in @ THEN @ \ {c} ELSE @ \union {c}]
      BY <2>2 DEF ToggleCandidate
    <3>. QED  BY <1>2, <3>1
  <2>. QED  BY <2>1, <2>2
<1>4. \A c \in DOMAIN o.verdict : o.verdict[c].run = o.run
  BY <1>2 DEF HostsInv, VerdictsOfNow
<1>5. OverlayShape' /\ VerdictsOfNow'
  BY <1>3, <1>4 DEF OverlayShape, VerdictsOfNow
<1>. QED  BY <1>1, <1>5, HandlerAlone DEF HostsInv

\* An import adds what is connectable, all of it found since the overlay opened.
LEMMA ImportKeeps ==
  ASSUME HostsInv, ImportSelected PROVE HostsInv' /\ (Unraced => KeepsOthers)
<1> DEFINE added == Importable(handler.hosts, Connectable)
<1>1. /\ onDisk' = Imported(handler.hosts, added) /\ UNCHANGED <<overlay, edits>>
      /\ handler' = [Idle EXCEPT !.phase = "reload"] /\ handler.phase = "read"
      /\ added \subseteq Connectable
  BY DEF ImportSelected, Importable
<1>2. \A c \in Connectable : overlay.verdict[c].run = overlay.run
  BY DEF Connectable, HostsInv, VerdictsOfNow
<1> HIDE DEF added
<1>3. /\ DOMAIN onDisk' = DOMAIN handler.hosts \cup added
      /\ \A n \in DOMAIN handler.hosts : onDisk'[n] = handler.hosts[n]
  BY <1>1 DEF Imported
<1>4. Unraced => KeepsOthers
  BY <1>1, <1>2, <1>3, HandlerHolds DEF KeepsOthers
<1>5. HandlerFresh'
  BY <1>1, IdleShape, HandlerEnds
<1>. QED  BY <1>1, <1>4, <1>5 DEF HostsInv, OverlayShape, VerdictsOfNow

\* The other writes of the screen change one host at most, and add none while
\* the overlay is open.
LEMMA AddingKeeps ==
  ASSUME HostsInv, NEW n \in HostNames, SubmitForm(n)
  PROVE  HostsInv' /\ (Unraced => KeepsOthers)
<1>1. /\ focus # "discover" /\ handler.phase = "read" /\ n \notin DOMAIN handler.hosts
      /\ onDisk' = With(handler.hosts, n, NewHost(TRUE)) /\ UNCHANGED <<overlay, edits>>
      /\ handler' = Idle \/ handler' = [Idle EXCEPT !.phase = "undo", !.host = n]
  BY DEF SubmitForm
<1>2. HandlerFresh'
  <2>1. CASE handler' = Idle
    BY <1>1, <2>1, IdleShape, HandlerEnds
  <2>2. CASE handler' = [Idle EXCEPT !.phase = "undo", !.host = n]
    <3>1. handler'.phase = "undo" /\ handler'.edits = 0
      BY <2>2, IdleShape
    <3>. QED  BY <1>1, <3>1, HandlerEnds
  <2>. QED  BY <1>1, <2>1, <2>2
<1>3. Unraced => KeepsOthers
  BY <1>1, HandlerHolds DEF With, KeepsOthers
<1>. QED  BY <1>1, <1>2, <1>3 DEF HostsInv, OverlayShape, VerdictsOfNow

LEMMA WritingKeeps ==
  ASSUME HostsInv,
         TakeBack \/ (\E tags \in Tagging : CommitEdit(tags)) \/ ConfirmDelete \/ StoreOS
  PROVE  HostsInv' /\ (Unraced => KeepsOthers)
<1>1. UNCHANGED <<overlay, edits>> /\ handler' = Idle
  BY DEF TakeBack, CommitEdit, ConfirmDelete, StoreOS
<1>2. HostsInv'
  BY <1>1, IdleShape, HandlerEnds DEF HostsInv, OverlayShape, VerdictsOfNow
<1>3. ASSUME Unraced PROVE KeepsOthers
  <2>1. handler.hosts = onDisk
    BY <1>3, HandlerHolds DEF TakeBack, CommitEdit, ConfirmDelete, StoreOS
  <2>2. CASE UNCHANGED onDisk
    BY <2>2, FileAlone
  <2>3. ASSUME NEW n \in {SelectedHost, handler.host}, onDisk' = Without(onDisk, n)
        PROVE  KeepsOthers
    <3>1. /\ DOMAIN onDisk' = DOMAIN onDisk \ {n}
          /\ \A m \in DOMAIN onDisk \ {n} : onDisk'[m] = onDisk[m]
      BY <2>3 DEF Without
    <3>. QED  BY <3>1 DEF KeepsOthers
  <2>4. ASSUME NEW n \in {detailHost, testing}, NEW h, onDisk' = [onDisk EXCEPT ![n] = h]
        PROVE  KeepsOthers
    <3>1. /\ DOMAIN onDisk' = DOMAIN onDisk
          /\ \A m \in DOMAIN onDisk \ {n} : onDisk'[m] = onDisk[m]
      BY <2>4
    <3>. QED  BY <3>1 DEF KeepsOthers
  <2>5. CASE TakeBack
    BY <2>1, <2>2, <2>3, <2>5 DEF TakeBack
  <2>6. CASE ConfirmDelete
    BY <2>1, <2>3, <2>6 DEF ConfirmDelete
  <2>7. CASE \E tags \in Tagging : CommitEdit(tags)
    <3>1. PICK h : onDisk' = [onDisk EXCEPT ![detailHost] = h]
      BY <2>1, <2>7 DEF CommitEdit
    <3>. QED  BY <3>1, <2>4
  <2>8. CASE StoreOS
    <3>1. PICK h : onDisk' = [onDisk EXCEPT ![testing] = h]
      BY <2>1, <2>8 DEF StoreOS
    <3>. QED  BY <3>1, <2>4
  <2>. QED  BY <2>5, <2>6, <2>7, <2>8
<1>. QED  BY <1>2, <1>3

\* A handler reads, or stops, or shows what it has written.
LEMMA ReadingKeeps ==
  ASSUME HostsInv, HandlerReads \/ UndoReads PROVE HostsInv' /\ KeepsOthers
<1>1. /\ UNCHANGED <<onDisk, overlay, edits>>
      /\ handler'.hosts = onDisk /\ handler'.edits = edits
  <2>1. UNCHANGED <<onDisk, overlay, edits>>
    BY DEF HandlerReads, UndoReads
  <2>2. PICK phase, host : handler' = [phase |-> phase, hosts |-> onDisk, edits |-> edits,
                                       host |-> host]
    <3>1. CASE HandlerReads
      BY <3>1 DEF HandlerReads, Base
    <3>2. CASE UndoReads
      BY <3>2 DEF UndoReads, Base
    <3>. QED  BY <3>1, <3>2
  <2>. QED  BY <2>1, <2>2
<1>2. edits \in 0..edits
  BY DEF HostsInv
<1>. QED  BY <1>1, <1>2, FileAlone DEF HostsInv, OverlayShape, VerdictsOfNow, HandlerFresh

LEMMA StoppingKeeps ==
  ASSUME HostsInv, HandlerStops \/ ShowImport PROVE HostsInv' /\ KeepsOthers
<1>1. handler' = Idle /\ UNCHANGED <<onDisk, edits>>
  BY DEF HandlerStops, ShowImport
<1>2. overlay' = ClosedOverlay \/ UNCHANGED overlay
  BY DEF HandlerStops, ShowImport
<1>3. OverlayShape' /\ VerdictsOfNow'
  BY <1>2, OverlayCloses DEF HostsInv, OverlayShape, VerdictsOfNow
<1>. QED  BY <1>1, <1>3, IdleShape, HandlerEnds, FileAlone DEF HostsInv

\* Another command writes, and the step is counted, or nothing is written.
LEMMA OtherKeeps ==
  ASSUME HostsInv, OtherCommand PROVE HostsInv' /\ (edits' # edits \/ KeepsOthers)
<1>1. UNCHANGED <<overlay, handler>>
  BY DEF OtherCommand
<1>2. CASE OtherReads
  BY <1>1, <1>2, HandlerAlone DEF OtherReads, HostsInv, OverlayShape, VerdictsOfNow
<1>3. CASE edits' = edits + 1
  <2>1. PICK k : k = handler.edits /\ k \in 0..edits
    BY DEF HostsInv, HandlerFresh
  <2>2. handler'.edits = k
    BY <1>1, <2>1
  <2>3. edits' \in Nat /\ edits' # edits /\ k \in 0..edits' /\ k # edits'
    BY <1>3, <2>1 DEF HostsInv
  <2>. QED  BY <1>1, <2>2, <2>3 DEF HostsInv, OverlayShape, VerdictsOfNow, HandlerFresh
<1>. QED  BY <1>2, <1>3 DEF OtherCommand, OtherAdds, OtherUpdates, OtherRemoves, OtherImports,
             OtherWrites

LEMMA RestKeeps ==
  ASSUME HostsInv, UNCHANGED handler,
         \/ \E t \in Tabs : SwitchTab(t)
         \/ \E p \in Panes : SwitchPane(p)
         \/ \E i \in 0..Cardinality(HostNames) : MoveCursor(i)
         \/ \E narrowed \in Tagging : Filter(narrowed)
         \/ EnterDetail \/ LeaveDetail \/ Reload \/ InventoryChanged
         \/ OpenForm \/ CloseForm \/ BeginEdit \/ CancelEdit \/ StartDelete \/ CloseConfirm
         \/ (\E n \in Tested : StartProbe(n)) \/ HostProbed
         \/ UNCHANGED screenVars
  PROVE  HostsInv' /\ KeepsOthers
<1>1. UNCHANGED <<onDisk, overlay, edits>>
  BY DEF SwitchTab, SwitchPane, MoveCursor, Filter, EnterDetail, LeaveDetail, Reload,
     InventoryChanged, OpenForm, CloseForm, BeginEdit, CancelEdit, StartDelete, CloseConfirm,
     StartProbe, HostProbed, screenVars
<1>. QED  BY <1>1, HandlerAlone DEF HostsInv, OverlayShape, VerdictsOfNow

LEMMA ClosingKeeps ==
  ASSUME HostsInv, UNCHANGED handler, CloseDiscovery PROVE HostsInv' /\ KeepsOthers
<1>1. overlay' = ClosedOverlay /\ UNCHANGED <<onDisk, edits>>
  BY DEF CloseDiscovery
<1>. QED  BY <1>1, OverlayCloses, HandlerAlone DEF HostsInv

LEMMA HandleKeeps ==
  ASSUME HostsInv, UNCHANGED handler, Handle PROVE HostsInv' /\ KeepsOthers
<1>1. CASE OpenDiscovery \/ DiscoveryLoaded \/ CandidateProbed
  BY <1>1, OpeningKeeps, LoadingKeeps, ProbeKeeps
<1>2. CASE CloseDiscovery \/ ProbeCandidates \/ (\E c \in Candidates : ToggleCandidate(c))
  BY <1>2, ClosingKeeps, ChoosingKeeps
<1>3. CASE \/ \E t \in Tabs : SwitchTab(t)
           \/ \E p \in Panes : SwitchPane(p)
           \/ \E i \in 0..Cardinality(HostNames) : MoveCursor(i)
           \/ \E narrowed \in Tagging : Filter(narrowed)
           \/ EnterDetail \/ LeaveDetail \/ Reload \/ InventoryChanged
           \/ OpenForm \/ CloseForm \/ BeginEdit \/ CancelEdit \/ StartDelete \/ CloseConfirm
           \/ (\E n \in Tested : StartProbe(n)) \/ HostProbed
  BY <1>3, RestKeeps
<1>. QED  BY <1>1, <1>2, <1>3 DEF Handle

LEMMA HandleOnKeeps ==
  ASSUME HostsInv, HandleOn PROVE HostsInv' /\ (Unraced => KeepsOthers)
<1>1. CASE HandlerReads \/ UndoReads
  BY <1>1, ReadingKeeps
<1>2. CASE HandlerStops \/ ShowImport
  BY <1>2, StoppingKeeps
<1>3. CASE \E n \in HostNames : SubmitForm(n)
  BY <1>3, AddingKeeps
<1>4. CASE TakeBack \/ (\E tags \in Tagging : CommitEdit(tags)) \/ ConfirmDelete \/ StoreOS
  BY <1>4, WritingKeeps
<1>5. CASE ImportSelected
  BY <1>5, ImportKeeps
<1>. QED  BY <1>1, <1>2, <1>3, <1>4, <1>5 DEF HandleOn

LEMMA HostsStep ==
  ASSUME HostsInv, [ScreenNext]_screenVars
  PROVE  HostsInv' /\ (edits' = edits /\ Unraced => KeepsOthers)
<1>1. CASE Handle /\ UNCHANGED handler
  BY <1>1, HandleKeeps
<1>2. CASE HandleOn
  BY <1>2, HandleOnKeeps
<1>3. CASE OtherCommand
  BY <1>3, OtherKeeps
<1>4. CASE UNCHANGED screenVars
  <2>1. UNCHANGED handler
    BY <1>4 DEF screenVars
  <2>. QED  BY <1>4, <2>1, RestKeeps
<1>. QED  BY <1>1, <1>2, <1>3, <1>4 DEF ScreenNext

THEOREM HostsInductive == ScreenSpec => []HostsInv
<1>1. HostsInv /\ [ScreenNext]_screenVars => HostsInv'
  BY HostsStep
<1>. QED  BY <1>1, HostsStart, PTL DEF ScreenSpec

\* Whatever other commands had written when a handler read the inventory, and
\* however late messages of an earlier discovery come, the handler changes the
\* host it is about and adds what was found connectable in this overlay
\* (hosts.go, addHost, setHostField, removeSelected, importDiscoverySelected).
\* What they write between its reading and its writing is not covered.
THEOREM EditsOfOthersKept == ScreenSpec => OthersEditsKept
<1>1. HostsInv /\ [ScreenNext]_screenVars =>
        [edits' = edits /\ Unraced =>
         /\ \A n \in DOMAIN onDisk \ {detailHost, SelectedHost, testing, handler.host} :
              n \in DOMAIN onDisk' /\ onDisk'[n] = onDisk[n]
         /\ focus = "discover" =>
              DOMAIN onDisk' \ DOMAIN onDisk \subseteq
                {c \in Connectable : overlay.verdict[c].run = overlay.run}]_screenVars
  BY HostsStep DEF KeepsOthers
<1>. QED  BY <1>1, HostsInductive, PTL DEF ScreenSpec, OthersEditsKept

-----------------------------------------------------------------------------
(* The Approvals tab.  A menu stays on the request it was opened for: the  *)
(* rows it passes are those of a new list, which moves the cursor to that  *)
(* request or closes the menu, and a plan is neither folded nor unfolded   *)
(* while a menu is open.                                                   *)

IsPane(p) ==
  /\ p = [list |-> p.list, cursor |-> p.cursor, expanded |-> p.expanded,
          choosing |-> p.choosing, planMode |-> p.planMode, choice |-> p.choice, id |-> p.id]
  /\ p.choosing \in BOOLEAN /\ p.planMode \in BOOLEAN

\* The cursor of an open menu is on its request, which is decided alone only
\* when it shows as a row of its own.
OnTarget(p) ==
  p.choosing => /\ Selected(p) /\ Focused(p) = p.id
                /\ p.planMode \/ ~Collapsed(p, p.id)

PaneInv == IsPane(pane) /\ OnTarget(pane)

\* What an open menu may decide: its request, or its plan.
DecidesItsTarget ==
  pane.choosing /\ pane' # pane =>
    \A r \in Requests :
      request'[r] # request[r] =>
        r = pane.id \/ (pane.planMode /\ r \in Members[PlanOf[pane.id]])

LEMMA PaneStart == QueueInit => PaneInv
<1>. SUFFICES ASSUME QueueInit PROVE PaneInv
  OBVIOUS
<1>1. pane = [list |-> <<>>, cursor |-> 1, expanded |-> {}, choosing |-> FALSE,
              planMode |-> FALSE, choice |-> 1, id |-> 0]
  BY DEF QueueInit
<1>. QED  BY <1>1 DEF PaneInv, IsPane, OnTarget

\* A cursor that is clamped moves, and nothing else does.
LEMMA ClampMoves ==
  ASSUME NEW p, IsPane(p), NEW q, q = ClampCursor(p)
  PROVE  /\ IsPane(q) /\ q.list = p.list /\ q.expanded = p.expanded
         /\ q.choosing = p.choosing /\ q.planMode = p.planMode /\ q.id = p.id
<1> DEFINE Put(at) == [list |-> p.list, cursor |-> at, expanded |-> p.expanded,
                       choosing |-> p.choosing, planMode |-> p.planMode,
                       choice |-> p.choice, id |-> p.id]
<1>1. PICK at : q = Put(at)
  <2> DEFINE to == IF p.cursor <= Len(p.list) THEN p.cursor
                   ELSE IF p.list = <<>> THEN 1 ELSE Len(p.list)
  <2>1. PICK put : put = [p EXCEPT !.cursor = to]
    OBVIOUS
  <2>2. put = Put(to)
    <3> HIDE DEF to
    <3>. QED  BY <2>1 DEF IsPane
  <2>3. q = IF OnCollapsed(put)
            THEN [put EXCEPT !.cursor = FirstOfPlan(put, PlanOf[Focused(put)])]
            ELSE put
    BY <2>1 DEF ClampCursor
  <2>4. PICK first : first = FirstOfPlan(put, PlanOf[Focused(put)])
    OBVIOUS
  <2> HIDE DEF to
  <2>5. [put EXCEPT !.cursor = first] = Put(first)
    BY <2>2
  <2>. QED  BY <2>2, <2>3, <2>4, <2>5
<1>. QED  BY <1>1 DEF IsPane

\* A menu that closes leaves the list and the cursor.
LEMMA ClosedShape ==
  ASSUME NEW p, IsPane(p), NEW q, q = Closed(p)
  PROVE  IsPane(q) /\ q.choosing = FALSE
<1>1. q = [list |-> p.list, cursor |-> p.cursor, expanded |-> p.expanded, choosing |-> FALSE,
           planMode |-> FALSE, choice |-> 1, id |-> 0]
  BY DEF Closed, IsPane
<1>. QED  BY <1>1 DEF IsPane

LEMMA OpenedShape ==
  ASSUME IsPane(pane), NEW plan \in BOOLEAN, NEW choice, NEW q, q = Opened(plan, choice)
  PROVE  /\ IsPane(q) /\ q.list = pane.list /\ q.cursor = pane.cursor
         /\ q.expanded = pane.expanded /\ q.planMode = plan /\ q.id = Focused(pane)
<1>1. q = [list |-> pane.list, cursor |-> pane.cursor, expanded |-> pane.expanded,
           choosing |-> TRUE, planMode |-> plan, choice |-> choice, id |-> Focused(pane)]
  BY DEF Opened, IsPane
<1>. QED  BY <1>1 DEF IsPane

\* Another choice is highlighted.
LEMMA ChoiceShape ==
  ASSUME NEW p, IsPane(p), NEW c, NEW q, q = [p EXCEPT !.choice = c]
  PROVE  /\ IsPane(q) /\ q.list = p.list /\ q.cursor = p.cursor /\ q.expanded = p.expanded
         /\ q.choosing = p.choosing /\ q.planMode = p.planMode /\ q.id = p.id
<1>1. q = [list |-> p.list, cursor |-> p.cursor, expanded |-> p.expanded,
           choosing |-> p.choosing, planMode |-> p.planMode, choice |-> c, id |-> p.id]
  BY DEF IsPane
<1>. QED  BY <1>1 DEF IsPane

\* A new list finds the request of the menu, or closes it.
LEMMA ResyncFinds ==
  ASSUME NEW p, IsPane(p), p.choosing, NEW q, q = Resync(p)
  PROVE  /\ IsPane(q)
         /\ \/ q.choosing = FALSE
            \/ /\ Selected(q) /\ Focused(q) = p.id /\ q.id = p.id
               /\ q.planMode = p.planMode /\ q.expanded = p.expanded
<1>1. CASE p.id \notin Range(p.list)
  BY <1>1, ClosedShape DEF Resync
<1>2. CASE p.id \in Range(p.list)
  <2>1. PICK i : i = CHOOSE k \in DOMAIN p.list : p.list[k] = p.id
    OBVIOUS
  <2>2. \E k \in DOMAIN p.list : p.list[k] = p.id
    BY <1>2 DEF Range
  <2>3. i \in DOMAIN p.list /\ p.list[i] = p.id
    BY <2>1, <2>2
  <2>4. PICK put : put = [p EXCEPT !.cursor = i]
    OBVIOUS
  <2>5. put = [list |-> p.list, cursor |-> i, expanded |-> p.expanded,
               choosing |-> p.choosing, planMode |-> p.planMode, choice |-> p.choice,
               id |-> p.id]
    BY <2>4 DEF IsPane
  <2>6. q = [put EXCEPT !.choice = IF @ <= Len(Menu(put)) THEN @ ELSE Len(Menu(put))]
    BY <1>2, <2>1, <2>4 DEF Resync
  <2>7. PICK choice : q = [put EXCEPT !.choice = choice]
    BY <2>6
  <2>8. q = [list |-> p.list, cursor |-> i, expanded |-> p.expanded,
             choosing |-> p.choosing, planMode |-> p.planMode, choice |-> choice, id |-> p.id]
    BY <2>5, <2>7
  <2>. QED  BY <2>3, <2>8 DEF IsPane, Selected, Focused
<1>. QED  BY <1>1, <1>2

-----------------------------------------------------------------------------
(* The steps. *)

LEMMA OutsideKeeps ==
  ASSUME PaneInv, UNCHANGED pane PROVE PaneInv' /\ DecidesItsTarget
BY DEF PaneInv, DecidesItsTarget

\* The menu is closed by the step, or was not open, and nothing is decided.
LEMMA MenuCloses ==
  ASSUME IsPane(pane), IsPane(pane'), pane'.choosing = FALSE,
         UNCHANGED request \/ ~pane.choosing
  PROVE  PaneInv' /\ DecidesItsTarget
<1>1. PaneInv'
  BY DEF PaneInv, OnTarget
<1>. QED  BY <1>1 DEF DecidesItsTarget, IsPane

LEMMA LoadedKeeps ==
  ASSUME PaneInv, Loaded PROVE PaneInv' /\ DecidesItsTarget
<1>1. PICK l, r, p :
        /\ r = [pane EXCEPT !.list = l] /\ p = ClampCursor(r)
        /\ pane' = IF p.choosing THEN Resync(p) ELSE p
  BY DEF Loaded, Draw
<1>2. UNCHANGED request
  BY DEF Loaded
<1>3. /\ IsPane(r) /\ r.expanded = pane.expanded /\ r.choosing = pane.choosing
      /\ r.planMode = pane.planMode /\ r.id = pane.id
  <2>1. r = [list |-> l, cursor |-> pane.cursor, expanded |-> pane.expanded,
             choosing |-> pane.choosing, planMode |-> pane.planMode,
             choice |-> pane.choice, id |-> pane.id]
    BY <1>1 DEF PaneInv, IsPane
  <2>. QED  BY <2>1 DEF PaneInv, IsPane
<1>4. /\ IsPane(p) /\ p.expanded = pane.expanded /\ p.choosing = pane.choosing
      /\ p.planMode = pane.planMode /\ p.id = pane.id
  <2>1. IsPane(r) /\ p = ClampCursor(r)
    BY <1>1, <1>3
  <2>2. /\ IsPane(p) /\ p.expanded = r.expanded /\ p.choosing = r.choosing
        /\ p.planMode = r.planMode /\ p.id = r.id
    BY ONLY <2>1, ClampMoves
  <2>. QED  BY <1>3, <2>2
<1>5. DecidesItsTarget
  BY <1>2 DEF DecidesItsTarget
<1>6. CASE p.choosing
  <2>1. /\ IsPane(pane')
        /\ \/ pane'.choosing = FALSE
           \/ /\ Selected(pane') /\ Focused(pane') = p.id /\ pane'.id = p.id
              /\ pane'.planMode = p.planMode /\ pane'.expanded = p.expanded
    BY <1>1, <1>4, <1>6, ResyncFinds
  <2>2. pane.planMode \/ ~Collapsed(pane, pane.id)
    BY <1>4, <1>6 DEF PaneInv, OnTarget
  <2>3. OnTarget(pane')
    BY <1>4, <2>1, <2>2 DEF OnTarget, Collapsed
  <2>. QED  BY <1>5, <2>1, <2>3 DEF PaneInv, IsPane, OnTarget, Selected, Focused, Collapsed
<1>7. CASE ~p.choosing
  <2>1. pane' = p
    BY <1>1, <1>7
  <2>2. IsPane(pane') /\ OnTarget(pane')
    BY <1>4, <1>7, <2>1 DEF OnTarget
  <2>. QED  BY <1>5, <2>2 DEF PaneInv, IsPane, OnTarget, Selected, Focused, Collapsed
<1>. QED  BY <1>6, <1>7

\* Keys outside a menu leave it closed.
LEMMA MovingKeeps ==
  ASSUME PaneInv, MoveSelection \/ Expand PROVE PaneInv' /\ DecidesItsTarget
<1>1. ~pane.choosing /\ UNCHANGED request
  BY DEF MoveSelection, Expand, KeyOnly
<1>2. CASE MoveSelection
  <2>1. PICK c : pane' = [pane EXCEPT !.cursor = c]
    BY <1>2 DEF MoveSelection, Draw
  <2>2. pane' = [list |-> pane.list, cursor |-> c, expanded |-> pane.expanded,
                 choosing |-> pane.choosing, planMode |-> pane.planMode,
                 choice |-> pane.choice, id |-> pane.id]
    BY <2>1 DEF PaneInv, IsPane
  <2>3. IsPane(pane') /\ pane'.choosing = FALSE
    BY <1>1, <2>2 DEF PaneInv, IsPane
  <2>. QED  BY <1>1, <2>3, MenuCloses DEF PaneInv
<1>3. CASE Expand
  <2>1. PICK e, r : r = [pane EXCEPT !.expanded = e] /\ pane' = ClampCursor(r)
    BY <1>3 DEF Expand, Draw
  <2>2. r = [list |-> pane.list, cursor |-> pane.cursor, expanded |-> e,
             choosing |-> pane.choosing, planMode |-> pane.planMode,
             choice |-> pane.choice, id |-> pane.id]
    BY <2>1 DEF PaneInv, IsPane
  <2>3. IsPane(r) /\ r.choosing = FALSE
    BY <1>1, <2>2 DEF PaneInv, IsPane
  <2>4. IsPane(pane') /\ pane'.choosing = FALSE
    BY <2>1, <2>3, ClampMoves
  <2>. QED  BY <1>1, <2>4, MenuCloses DEF PaneInv
<1>. QED  BY <1>2, <1>3

\* A menu opens on the request at the cursor.
LEMMA OpeningsKeep ==
  ASSUME PaneInv, OpenChooser \/ OpenPlanChooser \/ OpenTaskChooser
  PROVE  PaneInv' /\ DecidesItsTarget
<1>1. ~pane.choosing /\ UNCHANGED request /\ Selected(pane)
  BY DEF OpenChooser, OpenPlanChooser, OpenTaskChooser, KeyOnly, HasTaskChoice, TaskMembers
<1>2. PICK plan, choice, p :
        /\ plan \in BOOLEAN /\ p = Opened(plan, choice)
        /\ plan \/ ~OnCollapsed(pane)
        /\ \/ pane' = p
           \/ \E c : pane' = [p EXCEPT !.choice = c]
  <2>1. CASE OpenChooser
    BY <2>1 DEF OpenChooser, Draw
  <2>2. CASE OpenPlanChooser
    BY <2>2 DEF OpenPlanChooser, Draw
  <2>3. CASE OpenTaskChooser
    <3>1. OnCollapsed(pane) \in BOOLEAN
      BY DEF OnCollapsed
    <3>2. PICK p : /\ p = Opened(OnCollapsed(pane), pane.choice)
                   /\ \E c : pane' = [p EXCEPT !.choice = c]
      BY <2>3 DEF OpenTaskChooser, Draw
    <3>. QED  BY <3>1, <3>2
  <2>. QED  BY <2>1, <2>2, <2>3
<1>3. /\ IsPane(p) /\ p.list = pane.list /\ p.cursor = pane.cursor
      /\ p.expanded = pane.expanded /\ p.planMode = plan /\ p.id = Focused(pane)
  BY <1>2, OpenedShape DEF PaneInv
<1>4. PICK n : /\ n = pane' /\ IsPane(n) /\ n.list = p.list /\ n.cursor = p.cursor
               /\ n.expanded = p.expanded /\ n.planMode = p.planMode /\ n.id = p.id
  BY <1>2, <1>3, ChoiceShape
<1>5. Selected(n) /\ Focused(n) = n.id
  BY <1>1, <1>3, <1>4 DEF Selected, Focused
<1>6. n.planMode \/ ~Collapsed(n, n.id)
  BY <1>1, <1>2, <1>3, <1>4 DEF OnCollapsed, Collapsed
<1>7. OnTarget(n)
  BY <1>5, <1>6 DEF OnTarget
<1>8. PaneInv'
  BY <1>4, <1>7 DEF PaneInv, IsPane, OnTarget, Selected, Focused, Collapsed
<1>. QED  BY <1>1, <1>8 DEF DecidesItsTarget

LEMMA MenuKeysKeep ==
  ASSUME PaneInv, MoveChoice \/ Escape PROVE PaneInv' /\ DecidesItsTarget
<1>1. UNCHANGED request
  BY DEF MoveChoice, Escape, KeyOnly
<1>2. CASE MoveChoice
  <2>1. PICK c : pane' = [pane EXCEPT !.choice = c]
    BY <1>2 DEF MoveChoice, Draw
  <2>2. PICK n : n = pane' /\ n = [pane EXCEPT !.choice = c]
    BY <2>1
  <2>3. /\ IsPane(n) /\ n.list = pane.list /\ n.cursor = pane.cursor
        /\ n.expanded = pane.expanded /\ n.choosing = pane.choosing
        /\ n.planMode = pane.planMode /\ n.id = pane.id
    BY <2>2, ChoiceShape DEF PaneInv
  <2>4. OnTarget(n)
    BY <2>3 DEF PaneInv, OnTarget, Selected, Focused, Collapsed
  <2>5. PaneInv'
    BY <2>2, <2>3, <2>4 DEF PaneInv, IsPane, OnTarget, Selected, Focused, Collapsed
  <2>. QED  BY <1>1, <2>5 DEF DecidesItsTarget
<1>3. CASE Escape
  <2>1. PICK n : n = pane' /\ n = Closed(pane)
    BY <1>3 DEF Escape, Draw
  <2>2. IsPane(n) /\ n.choosing = FALSE
    BY <2>1, ClosedShape DEF PaneInv
  <2>. QED  BY <1>1, <2>1, <2>2, MenuCloses DEF PaneInv
<1>. QED  BY <1>2, <1>3

-----------------------------------------------------------------------------
(* Verdicts. *)

\* A verdict closes the menu, or leaves the tab alone and decides nothing.
LEMMA VerdictCloses ==
  ASSUME PaneInv, NEW v, ResolveWith(v)
  PROVE  \/ UNCHANGED <<pane, request>>
         \/ IsPane(pane') /\ pane'.choosing = FALSE
<1>1. PICK p : p = Closed(pane)
  OBVIOUS
<1>2. IsPane(p) /\ p.choosing = FALSE
  BY <1>1, ClosedShape DEF PaneInv
<1>3. \/ UNCHANGED <<pane, request>>
      \/ pane' = p
      \/ pane' = ClampCursor([p EXCEPT !.list = RemoveAt(@, pane.cursor)])
  BY <1>1 DEF ResolveWith, DecidePlan, Adjudicate, Draw
<1>4. CASE pane' = p
  BY <1>2, <1>4
<1>5. CASE pane' = ClampCursor([p EXCEPT !.list = RemoveAt(@, pane.cursor)])
  <2>1. PICK l, r : r = [p EXCEPT !.list = l] /\ pane' = ClampCursor(r)
    BY <1>5
  <2>2. r = [list |-> l, cursor |-> p.cursor, expanded |-> p.expanded,
             choosing |-> p.choosing, planMode |-> p.planMode, choice |-> p.choice,
             id |-> p.id]
    BY <1>2, <2>1 DEF IsPane
  <2>3. IsPane(r) /\ r.choosing = FALSE
    BY <1>2, <2>2 DEF IsPane
  <2>. QED  BY <2>1, <2>3, ClampMoves
<1>. QED  BY <1>3, <1>4, <1>5

\* A verdict decides the request at the cursor, or members of its plan when the
\* menu or the row stands for the plan.
LEMMA VerdictFalls ==
  ASSUME NEW v, ResolveWith(v), NEW r \in Requests, request'[r] # request[r]
  PROVE  \/ r = Focused(pane)
         \/ (pane.planMode \/ OnCollapsed(pane)) /\ r \in Members[PlanOf[Focused(pane)]]
<1>1. request' # request
  OBVIOUS
<1>2. CASE pane.planMode \/ OnCollapsed(pane)
  <2>1. DecidePlan(v, Closed(pane))
    BY <1>1, <1>2 DEF ResolveWith
  <2>2. PICK done \in SUBSET PendingMembers(PlanOf[Focused(pane)]) : request' = Decided(done, v)
    BY <1>1, <2>1 DEF DecidePlan, Decided
  <2>3. r \in done
    BY <2>2 DEF Decided
  <2>. QED  BY <1>2, <2>2, <2>3 DEF PendingMembers
<1>3. CASE ~(pane.planMode \/ OnCollapsed(pane))
  <2>1. Adjudicate(v, Closed(pane))
    BY <1>1, <1>3 DEF ResolveWith
  <2>2. request' = Decided({Focused(pane)}, v)
    BY <1>1, <2>1 DEF Adjudicate
  <2>. QED  BY <2>2 DEF Decided
<1>. QED  BY <1>2, <1>3

LEMMA VerdictKeeps ==
  ASSUME PaneInv, NEW v, ResolveWith(v) PROVE PaneInv' /\ DecidesItsTarget
<1>1. CASE UNCHANGED <<pane, request>>
  BY <1>1, OutsideKeeps
<1>2. CASE IsPane(pane') /\ pane'.choosing = FALSE
  <2>1. PaneInv'
    BY <1>2 DEF PaneInv, OnTarget
  <2>2. ASSUME pane.choosing, NEW r \in Requests, request'[r] # request[r]
        PROVE  r = pane.id \/ (pane.planMode /\ r \in Members[PlanOf[pane.id]])
    <3>1. Focused(pane) = pane.id /\ (pane.planMode \/ ~OnCollapsed(pane))
      BY <2>2 DEF PaneInv, OnTarget, OnCollapsed
    <3>2. \/ r = Focused(pane)
          \/ (pane.planMode \/ OnCollapsed(pane)) /\ r \in Members[PlanOf[Focused(pane)]]
      BY <2>2, VerdictFalls
    <3>. QED  BY <3>1, <3>2
  <2>. QED  BY <2>1, <2>2 DEF DecidesItsTarget
<1>. QED  BY <1>1, <1>2, VerdictCloses

LEMMA DecidingKeeps ==
  ASSUME PaneInv, DecideByChoice \/ DecideByKey \/ DecideDirectly
  PROVE  PaneInv' /\ DecidesItsTarget
<1>1. PICK v : ResolveWith(v)
  BY DEF DecideByChoice, DecideByKey, DecideDirectly
<1>. QED  BY <1>1, VerdictKeeps

LEMMA QueueStep ==
  ASSUME PaneInv, [QueueNext]_queueVars PROVE PaneInv' /\ DecidesItsTarget
<1>1. CASE \/ ReadList \/ (\E r \in Requests : CreateRequest(r) \/ ReapRequest(r))
           \/ (\E r \in Requests, v \in {"once", "deny"} : DecideElsewhere(r, v))
           \/ (\E pl \in PlanIDs : CreatePlan(pl)) \/ UNCHANGED queueVars
  <2>1. UNCHANGED pane
    BY <1>1 DEF ReadList, CreateRequest, ReapRequest, DecideElsewhere, CreatePlan, Outside,
       queueVars
  <2>. QED  BY <2>1, OutsideKeeps
<1>2. CASE Loaded \/ MoveSelection \/ Expand
  BY <1>2, LoadedKeeps, MovingKeeps
<1>3. CASE \/ OpenChooser \/ OpenPlanChooser \/ OpenTaskChooser \/ MoveChoice \/ Escape
           \/ DecideByChoice \/ DecideByKey \/ DecideDirectly
  BY <1>3, OpeningsKeep, MenuKeysKeep, DecidingKeeps
<1>. QED  BY <1>1, <1>2, <1>3 DEF QueueNext

THEOREM PaneInductive == QueueSpec => []PaneInv
<1>1. PaneInv /\ [QueueNext]_queueVars => PaneInv'
  BY QueueStep
<1>. QED  BY <1>1, PaneStart, PTL DEF QueueSpec

\* A verdict given in a menu falls on the request the menu was opened for, or
\* on that request's plan when it was opened for the plan, whatever lists
\* arrived in between (choiceID, approvals_section.go).
THEOREM MenuStaysOnTarget == QueueSpec => MenuDecidesItsTarget
<1>1. PaneInv /\ [QueueNext]_queueVars =>
        [pane.choosing /\ pane' # pane =>
           \A r \in Requests :
             request'[r] # request[r] =>
               r = pane.id \/ (pane.planMode /\ r \in Members[PlanOf[pane.id]])]_queueVars
  BY QueueStep DEF DecidesItsTarget
<1>. QED  BY <1>1, PaneInductive, PTL DEF QueueSpec, MenuDecidesItsTarget

===============================================================================
