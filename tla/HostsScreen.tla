---------------------------- MODULE HostsScreen ----------------------------
(***************************************************************************)
(* The Hosts screen of the terminal interface (internal/tui/app.go and     *)
(* hosts.go) over inventory.yaml, which other commands edit meanwhile.     *)
(*                                                                         *)
(* The interface is an event loop: a key or a message of a finished        *)
(* command runs one handler to its end.  The commands (probes, discovery,  *)
(* the notice of a changed inventory) run outside it and their messages    *)
(* arrive in any order.  A handler that changes the inventory reads it in  *)
(* one step and writes it in another, and takes no lock: another command   *)
(* may write in between, as long as opening the store of secrets takes.    *)
(* What removing a host does to policy.yaml is in PolicyPane.              *)
(*                                                                         *)
(* Hosts are named by numbers, in the order of their names.                *)
(***************************************************************************)
EXTENDS Naturals, Sequences, FiniteSets

CONSTANTS
    HostNames,     \* 1..n
    Machine,       \* the address and port every name stands for
    SshConfig,     \* the names that are hosts of ~/.ssh/config
    KnownHosts,    \* the names that are entries of ~/.ssh/known_hosts only
    FirstHosts,    \* the hosts at the start
    Tagging,       \* bound on tags and filters: a host is tagged or not, the filter
                   \* narrows the grid to tagged hosts or not
    Tested,        \* bound on tests: the hosts whose connectivity gets tested
    MaxEdits,      \* bound on the edits of other commands
    MaxOpenings,   \* bound on the openings of the discovery overlay
    MaxNotices     \* bound on the notices of a changed inventory in flight

ASSUME HostsAssumption ==
    /\ HostNames = 1..Cardinality(HostNames)
    /\ Tagging \subseteq BOOLEAN
    /\ Tested \subseteq HostNames
    /\ SshConfig \intersect KnownHosts = {}

VARIABLES
    onDisk,        \* inventory.yaml: the hosts it has
    shown,         \* hostsSection.inventory
    query,         \* whether the filter narrows the grid to tagged hosts
    cursor,        \* hostsSection.cursor, an index into the visible hosts
    place,         \* the active tab, or the active pane of one host's detail
    detailHost,    \* the host whose detail is open, None when none is
    focus,         \* list, form, confirm or discover
    editing,       \* a field of the Info pane is open for editing
    testing,       \* the host under a connectivity probe
    overlay,       \* the discovery overlay
    discoverSeq,   \* the openings of the overlay so far
    pending,       \* discovery and probe commands whose message is to come
    notices,       \* inventoryChangedMsg messages to come
    handler,       \* the handler that is writing the inventory: its phase, the
                   \* inventory it read, when, and the host it has added
    edits,         \* the inventories that other commands have written
    other          \* what another command has read, and not yet replaced

screenVars == <<onDisk, shown, query, cursor, place, detailHost, focus,
                editing, testing, overlay, discoverSeq, pending, notices, handler, edits, other>>

None == 0
NoCommand == [n \in {None} |-> None]

\* The tabs and panes that show no hosts are one each.
Tabs == {"hosts", "other tab"}
Panes == {"info", "other pane"}

\* direct: the address is stored, and not just an alias of ~/.ssh/config.
Host == [direct : BOOLEAN, tagged : BOOLEAN, os : BOOLEAN]
NewHost(stored) == [direct |-> stored, tagged |-> FALSE, os |-> FALSE]

Candidates == SshConfig \union KnownHosts
ClosedOverlay == [open |-> FALSE, run |-> 0, phase |-> "none", selected |-> {},
                  probing |-> {}, verdict |-> << >>]

(***************************************************************************)
(* The grid.                                                               *)
(***************************************************************************)

With(hosts, n, h) == [m \in DOMAIN hosts \union {n} |-> IF m = n THEN h ELSE hosts[m]]
Without(hosts, n) == [m \in DOMAIN hosts \ {n} |-> hosts[m]]

Visible(hosts, narrowed) ==
    {n \in DOMAIN hosts : narrowed => hosts[n].tagged}

\* The i-th visible host in the order of names, None when there is no such.
Nth(S, i) ==
    IF i \in 0..(Cardinality(S) - 1)
    THEN CHOOSE n \in S : Cardinality({m \in S : m < n}) = i
    ELSE None

SelectedHost == Nth(Visible(shown, query), cursor)

\* clampCursor, for a cursor at c.
Clamp(hosts, narrowed, c) ==
    LET count == Cardinality(Visible(hosts, narrowed)) IN
    IF c < count THEN c ELSE IF count = 0 THEN 0 ELSE count - 1

\* The inventory shown becomes hosts: s.inventory = next; s.rebuildNames().
Show(hosts) ==
    /\ shown' = hosts
    /\ cursor' = Clamp(hosts, query, cursor)

\* What the handler returns inventoryChangedCmd for.
Notice(hosts) ==
    /\ Len(notices) < MaxNotices
    /\ notices' = Append(notices, hosts)

OnGrid == place = "hosts" /\ focus = "list"
OnInfo == place = "info" /\ focus # "confirm" /\ ~ editing

\* The phases of a handler: idle, read (it has read the inventory), undo (it has
\* written and is about to take back), undo read, and reload (it has written and
\* is about to show the file).
Idle == [phase |-> "idle", hosts |-> NoCommand, edits |-> 0, host |-> None]

(***************************************************************************)
(* Navigation: appModel.updateEntryKey and updateDetailKey.                *)
(***************************************************************************)

\* hostsSection.capturing on the grid, paneCapturing on the detail.
Capturing ==
    \/ place = "hosts" /\ focus # "list"
    \/ place = "info" /\ (editing \/ focus = "confirm")

SwitchTab(t) ==
    /\ place \in Tabs /\ ~ Capturing
    /\ place' = t
    /\ UNCHANGED <<onDisk, shown, query, cursor, detailHost, focus, editing,
                   testing, overlay, discoverSeq, pending, notices, edits, other>>

SwitchPane(p) ==
    /\ place \in Panes /\ ~ Capturing
    /\ place' = p
    /\ UNCHANGED <<onDisk, shown, query, cursor, detailHost, focus, editing,
                   testing, overlay, discoverSeq, pending, notices, edits, other>>

MoveCursor(i) ==
    /\ OnGrid
    /\ i \in 0..(Cardinality(Visible(shown, query)) - 1)
    /\ cursor' = i
    /\ UNCHANGED <<onDisk, shown, query, place, detailHost, focus, editing,
                   testing, overlay, discoverSeq, pending, notices, edits, other>>

\* Typing into the filter, or clearing it with esc.
Filter(narrowed) ==
    /\ OnGrid
    /\ query' = narrowed
    /\ cursor' = IF narrowed THEN 0 ELSE Clamp(shown, FALSE, cursor)
    /\ UNCHANGED <<onDisk, shown, place, detailHost, focus, editing,
                   testing, overlay, discoverSeq, pending, notices, edits, other>>

EnterDetail ==
    /\ OnGrid /\ SelectedHost # None
    /\ place' = "info"
    /\ detailHost' = SelectedHost
    /\ editing' = FALSE
    /\ UNCHANGED <<onDisk, shown, query, cursor, focus, testing, overlay,
                   discoverSeq, pending, notices, edits, other>>

LeaveDetail ==
    /\ place \in Panes /\ ~ Capturing
    /\ place' = "hosts"
    /\ detailHost' = None
    /\ UNCHANGED <<onDisk, shown, query, cursor, focus, editing, testing,
                   overlay, discoverSeq, pending, notices, edits, other>>

(***************************************************************************)
(* The inventory.                                                          *)
(***************************************************************************)

\* reloadInventory.
Reload ==
    /\ OnGrid
    /\ Show(onDisk) /\ Notice(onDisk)
    /\ UNCHANGED <<onDisk, query, place, detailHost, focus, editing, testing,
                   overlay, discoverSeq, pending, edits, other>>

\* applyInventoryChange: also leaves the detail of a host that is gone.
InventoryChanged ==
    /\ notices # << >>
    /\ \E i \in DOMAIN notices :
         /\ notices' = [j \in 1..(Len(notices) - 1) |-> notices[IF j < i THEN j ELSE j + 1]]
         /\ Show(notices[i])
         /\ IF place \in Panes /\ detailHost \notin DOMAIN notices[i]
            THEN place' = "hosts" /\ detailHost' = None
            ELSE UNCHANGED <<place, detailHost>>
    /\ UNCHANGED <<onDisk, query, focus, editing, testing, overlay,
                   discoverSeq, pending, edits, other>>

OpenForm ==
    /\ OnGrid
    /\ focus' = "form"
    /\ UNCHANGED <<onDisk, shown, query, cursor, place, detailHost, editing,
                   testing, overlay, discoverSeq, pending, notices, edits, other>>

\* updateForm: the form is given up, or addHost stops before it writes.
CloseForm ==
    /\ place = "hosts" /\ focus = "form"
    /\ focus' = "list"
    /\ UNCHANGED <<onDisk, shown, query, cursor, place, detailHost, editing, testing,
                   overlay, discoverSeq, pending, notices, edits, other>>

\* addHost of host n: done, or its password cannot be stored and it is to go again.
SubmitForm(n) ==
    /\ place = "hosts" /\ focus = "form" /\ handler.phase = "read"
    /\ n \notin DOMAIN handler.hosts
    /\ onDisk' = With(handler.hosts, n, NewHost(TRUE))
    /\ Show(onDisk')
    /\ \/ focus' = "list" /\ Notice(onDisk') /\ handler' = Idle
       \/ handler' = [Idle EXCEPT !.phase = "undo", !.host = n] /\ UNCHANGED <<focus, notices>>
    /\ UNCHANGED <<query, place, detailHost, editing, testing, overlay, discoverSeq,
                   pending, edits, other>>

\* removeHostByName, on the inventory as it is by now.  A host that is gone, or
\* an inventory that cannot be written, leaves what the form showed.
TakeBack ==
    LET n == handler.host IN
    /\ handler.phase = "undo read"
    /\ \/ /\ n \in DOMAIN handler.hosts
          /\ onDisk' = Without(handler.hosts, n)
          /\ Show(onDisk')
       \/ UNCHANGED <<onDisk, shown, cursor>>
    /\ focus' = "list"
    /\ handler' = Idle
    /\ UNCHANGED <<query, place, detailHost, editing, testing, overlay, discoverSeq,
                   pending, notices, edits, other>>

BeginEdit ==
    /\ OnInfo /\ detailHost \in DOMAIN shown
    /\ editing' = TRUE
    /\ UNCHANGED <<onDisk, shown, query, cursor, place, detailHost, focus,
                   testing, overlay, discoverSeq, pending, notices, edits, other>>

\* commitInfoEdit of the tags, or of another field when they stay.
CommitEdit(tags) ==
    /\ place = "info" /\ editing /\ handler.phase = "read"
    /\ detailHost \in DOMAIN handler.hosts
    /\ onDisk' = [handler.hosts EXCEPT ![detailHost].tagged = tags]
    /\ Show(onDisk') /\ Notice(onDisk')
    /\ editing' = FALSE
    /\ handler' = Idle
    /\ UNCHANGED <<query, place, detailHost, focus, testing, overlay, discoverSeq,
                   pending, edits, other>>

CancelEdit ==
    /\ place = "info" /\ editing
    /\ editing' = FALSE
    /\ UNCHANGED <<onDisk, shown, query, cursor, place, detailHost, focus, testing,
                   overlay, discoverSeq, pending, notices, edits, other>>

\* startDelete.
StartDelete ==
    /\ OnInfo
    /\ focus' = "confirm"
    /\ UNCHANGED <<onDisk, shown, query, cursor, place, detailHost, editing,
                   testing, overlay, discoverSeq, pending, notices, edits, other>>

\* updateConfirm: no, no host under the cursor, or a removal that fails.
CloseConfirm ==
    /\ place \in {"hosts", "info"} /\ focus = "confirm"
    /\ focus' = "list"
    /\ UNCHANGED <<onDisk, shown, query, cursor, place, detailHost, editing, testing,
                   overlay, discoverSeq, pending, notices, edits, other>>

\* removeSelected: the host under the cursor.
ConfirmDelete ==
    LET n == SelectedHost IN
    /\ place \in {"hosts", "info"} /\ focus = "confirm" /\ handler.phase = "read"
    /\ n \in DOMAIN handler.hosts
    /\ onDisk' = Without(handler.hosts, n)
    /\ Show(onDisk') /\ Notice(onDisk')
    /\ focus' = "list"
    /\ handler' = Idle
    /\ UNCHANGED <<query, place, detailHost, editing, testing, overlay, discoverSeq,
                   pending, edits, other>>

(***************************************************************************)
(* The connectivity probe of one host.                                     *)
(***************************************************************************)

StartProbe(n) ==
    /\ \/ OnGrid /\ n = SelectedHost
       \/ OnInfo /\ n = detailHost
    /\ n # None /\ testing = None
    /\ testing' = n
    /\ UNCHANGED <<onDisk, shown, query, cursor, place, detailHost, focus, editing,
                   overlay, discoverSeq, pending, notices, edits, other>>

\* hostProbeMsg of a host whose operating system setHostOS has nothing to store of.
HostProbed ==
    /\ testing # None
    /\ testing' = None
    /\ UNCHANGED <<onDisk, shown, query, cursor, place, detailHost, focus, editing,
                   overlay, discoverSeq, pending, notices, edits, other>>

\* setHostOS.
StoreOS ==
    /\ handler.phase = "read"
    /\ testing \in DOMAIN shown /\ ~ shown[testing].os
    /\ testing \in DOMAIN handler.hosts /\ ~ handler.hosts[testing].os
    /\ onDisk' = [handler.hosts EXCEPT ![testing].os = TRUE]
    /\ Show(onDisk')
    /\ testing' = None
    /\ handler' = Idle
    /\ UNCHANGED <<query, place, detailHost, focus, editing, overlay, discoverSeq,
                   pending, notices, edits, other>>

(***************************************************************************)
(* Discovery.                                                              *)
(***************************************************************************)

OpenDiscovery ==
    /\ OnGrid /\ discoverSeq < MaxOpenings
    /\ focus' = "discover"
    /\ discoverSeq' = discoverSeq + 1
    /\ overlay' = [ClosedOverlay EXCEPT !.open = TRUE, !.run = discoverSeq', !.phase = "loading"]
    /\ pending' = pending \union {[kind |-> "load", run |-> discoverSeq',
                                   had |-> Candidates \intersect DOMAIN shown]}
    /\ UNCHANGED <<onDisk, shown, query, cursor, place, detailHost, editing,
                   testing, notices, edits, other>>

\* A message is for this opening of the overlay.
ForOverlay(run) == overlay.open /\ run = overlay.run

\* discoveryLoadedMsg; the hosts that are not in the inventory get selected.
DiscoveryLoaded ==
    \E task \in {t \in pending : t.kind = "load"} :
      /\ pending' = pending \ {task}
      /\ overlay' \in
           IF ~ ForOverlay(task.run) THEN {overlay}
           ELSE {[overlay EXCEPT !.phase = "failed"],
                 [overlay EXCEPT !.phase = "ready",
                                 !.selected = Candidates \ task.had]}
      /\ UNCHANGED <<onDisk, shown, query, cursor, place, detailHost, focus, editing,
                     testing, discoverSeq, notices, edits, other>>

\* discoveryProbedMsg of one candidate.
CandidateProbed ==
    \E task \in {t \in pending : t.kind = "probe"}, ok \in BOOLEAN :
      /\ pending' = pending \ {task}
      /\ overlay' =
           IF ~ ForOverlay(task.run) THEN overlay
           ELSE [overlay EXCEPT !.probing = @ \ {task.cand},
                                !.verdict = With(@, task.cand, [run |-> task.run, ok |-> ok])]
      /\ UNCHANGED <<onDisk, shown, query, cursor, place, detailHost, focus, editing,
                     testing, discoverSeq, notices, edits, other>>

InDiscovery == place = "hosts" /\ focus = "discover"

ToggleCandidate(c) ==
    /\ InDiscovery /\ overlay.phase = "ready"
    /\ overlay' = [overlay EXCEPT !.selected = IF c \in @ THEN @ \ {c} ELSE @ \union {c}]
    /\ UNCHANGED <<onDisk, shown, query, cursor, place, detailHost, focus, editing,
                   testing, discoverSeq, pending, notices, edits, other>>

ProbeCandidates ==
    /\ InDiscovery /\ overlay.phase = "ready"
    /\ overlay.probing = {} /\ overlay.selected # {}
    /\ overlay' = [overlay EXCEPT !.probing = overlay.selected]
    /\ pending' = pending \union {[kind |-> "probe", run |-> overlay.run, cand |-> c] :
                                  c \in overlay.selected}
    /\ UNCHANGED <<onDisk, shown, query, cursor, place, detailHost, focus, editing,
                   testing, discoverSeq, notices, edits, other>>

\* discovery.EndpointKeys: a host that is only an alias has no key.
EndpointKeys(hosts) == {Machine[n] : n \in {m \in DOMAIN hosts : hosts[m].direct}}

\* The candidates an import of chosen adds, in the order of their names.
Importable(hosts, chosen) ==
    LET eligible == {c \in chosen : c \notin DOMAIN hosts
                                    /\ Machine[c] \notin EndpointKeys(hosts)} IN
    {c \in eligible : \A d \in eligible : Machine[d] = Machine[c] => c <= d}

Imported(hosts, chosen) ==
    [n \in DOMAIN hosts \union chosen |->
        IF n \in DOMAIN hosts THEN hosts[n]
        ELSE [direct |-> n \in KnownHosts, tagged |-> FALSE, os |-> TRUE]]

Connectable == {c \in overlay.selected \intersect DOMAIN overlay.verdict : overlay.verdict[c].ok}

\* importDiscoverySelected: what was found connectable is written; the file is
\* read again to show it.
ImportSelected ==
    LET added == Importable(handler.hosts, Connectable) IN
    /\ InDiscovery /\ overlay.phase # "loading" /\ overlay.probing = {}
    /\ handler.phase = "read"
    /\ added # {}
    /\ onDisk' = Imported(handler.hosts, added)
    /\ handler' = [Idle EXCEPT !.phase = "reload"]
    /\ UNCHANGED <<shown, query, cursor, place, detailHost, focus, editing, testing,
                   overlay, discoverSeq, pending, notices, edits, other>>

ShowImport ==
    /\ handler.phase = "reload"
    /\ handler' = Idle
    /\ \/ /\ Show(onDisk) /\ Notice(onDisk)
          /\ overlay' = ClosedOverlay
          /\ focus' = "list"
       \/ UNCHANGED <<shown, cursor, notices, overlay, focus>>
    /\ UNCHANGED <<onDisk, query, place, detailHost, editing, testing, discoverSeq,
                   pending, edits, other>>

CloseDiscovery ==
    /\ InDiscovery
    /\ overlay' = ClosedOverlay
    /\ focus' = "list"
    /\ UNCHANGED <<onDisk, shown, query, cursor, place, detailHost, editing,
                   testing, discoverSeq, pending, notices, edits, other>>

(***************************************************************************)
(* A handler reads the inventory before it writes.                         *)
(***************************************************************************)

\* The keys and messages whose handlers go on to write.
MayWrite ==
    \/ place = "hosts" /\ focus = "form"
    \/ place = "info" /\ editing
    \/ place \in {"hosts", "info"} /\ focus = "confirm" /\ SelectedHost # None
    \/ testing \in DOMAIN shown /\ ~ shown[testing].os
    \/ InDiscovery /\ overlay.selected # {} /\ overlay.probing = {}

\* For comparison, what the interface shows.
BaseShown == shown

\* What a handler starts from: the file, read again.
Base == onDisk

HandlerReads ==
    /\ handler.phase = "idle" /\ MayWrite
    /\ handler' = [phase |-> "read", hosts |-> Base, edits |-> edits, host |-> None]
    /\ UNCHANGED <<onDisk, shown, query, cursor, place, detailHost, focus, editing,
                   testing, overlay, discoverSeq, pending, notices, edits, other>>

UndoReads ==
    /\ handler.phase = "undo"
    /\ handler' = [phase |-> "undo read", hosts |-> Base, edits |-> edits,
                   host |-> handler.host]
    /\ UNCHANGED <<onDisk, shown, query, cursor, place, detailHost, focus, editing,
                   testing, overlay, discoverSeq, pending, notices, edits, other>>

\* It stops before it writes: the host is there, or gone, or the file cannot be
\* written.  An edit stays open, and so does the overlay.
HandlerStops ==
    /\ handler.phase = "read"
    /\ handler' = Idle
    /\ \/ place \in {"hosts", "info"} /\ focus \in {"form", "confirm"} /\ focus' = "list"
          /\ UNCHANGED testing
       \/ testing # None /\ testing' = None /\ UNCHANGED focus
       \/ (editing \/ InDiscovery) /\ UNCHANGED <<focus, testing>>
    /\ UNCHANGED <<onDisk, shown, query, cursor, place, detailHost, editing,
                   overlay, discoverSeq, pending, notices, edits, other>>

(***************************************************************************)
(* Other commands, one at a time.  Each reads the inventory and later      *)
(* replaces it, after a form, a password prompt or probes in between.      *)
(***************************************************************************)

OtherReads ==
    /\ other = NoCommand /\ edits < MaxEdits
    /\ other' = onDisk
    /\ UNCHANGED <<onDisk, edits>>

OtherWrites(hosts) ==
    /\ other # NoCommand
    /\ onDisk' = hosts
    /\ other' = NoCommand
    /\ edits' = edits + 1

\* inventory add; the password it may store leaves the inventory alone.
OtherAdds == \E n \in HostNames \ DOMAIN other : OtherWrites(With(other, n, NewHost(TRUE)))

\* inventory update.
OtherUpdates ==
    \E n \in DOMAIN other, tags \in Tagging : OtherWrites([other EXCEPT ![n].tagged = tags])

\* inventory rm, and inventory add when it takes the host back because its
\* password cannot be stored.
OtherRemoves == \E n \in DOMAIN other : OtherWrites(Without(other, n))

\* inventory discover --import adds what it found connectable.
OtherImports ==
    \E found \in SUBSET Candidates :
        LET added == Importable(other, found) IN
        added # {} /\ OtherWrites(Imported(other, added))

OtherCommand ==
    /\ \/ OtherReads
       \/ other # NoCommand /\ (OtherAdds \/ OtherUpdates \/ OtherRemoves
                                \/ OtherImports)
    /\ UNCHANGED <<shown, query, cursor, place, detailHost, focus, editing, testing, overlay,
                   discoverSeq, pending, notices, handler>>

ScreenInit ==
    /\ onDisk \in [FirstHosts -> {h \in Host : h.direct /\ ~ h.os /\ h.tagged \in Tagging}]
    /\ shown = onDisk
    /\ query = FALSE /\ cursor = 0
    /\ place = "hosts" /\ detailHost = None
    /\ focus = "list" /\ editing = FALSE /\ testing = None
    /\ overlay = ClosedOverlay /\ discoverSeq = 0
    /\ pending = {} /\ notices = << >> /\ handler = Idle
    /\ edits = 0 /\ other = NoCommand

\* Keys and messages whose handlers leave the inventory alone.
Handle ==
    \/ \E t \in Tabs : SwitchTab(t)
    \/ \E p \in Panes : SwitchPane(p)
    \/ \E i \in 0..Cardinality(HostNames) : MoveCursor(i)
    \/ \E narrowed \in Tagging : Filter(narrowed)
    \/ EnterDetail \/ LeaveDetail
    \/ Reload \/ InventoryChanged
    \/ OpenForm \/ CloseForm
    \/ BeginEdit \/ CancelEdit
    \/ StartDelete \/ CloseConfirm
    \/ (\E n \in Tested : StartProbe(n)) \/ HostProbed
    \/ OpenDiscovery \/ DiscoveryLoaded \/ CandidateProbed
    \/ (\E c \in Candidates : ToggleCandidate(c)) \/ ProbeCandidates
    \/ CloseDiscovery

\* A handler that writes goes on; the next key or message waits for its end.
HandleOn ==
    \/ HandlerReads \/ UndoReads \/ HandlerStops
    \/ (\E n \in HostNames : SubmitForm(n)) \/ TakeBack
    \/ (\E tags \in Tagging : CommitEdit(tags))
    \/ ConfirmDelete \/ StoreOS
    \/ ImportSelected \/ ShowImport

ScreenNext ==
    \/ handler.phase = "idle" /\ Handle /\ UNCHANGED handler
    \/ HandleOn
    \/ OtherCommand

ScreenSpec == ScreenInit /\ [][ScreenNext]_screenVars

(***************************************************************************)
(* Properties.                                                             *)
(***************************************************************************)

\* No other command has written since the handler read the inventory.
Unraced == handler.phase = "idle" \/ handler.edits = edits

\* The interface never undoes an edit another command had saved when its handler
\* read the file, however long before that the screen was drawn: what it writes
\* leaves every host alone but the one it is about.  (An edit saved between the
\* reading and the writing is lost: no lock is held, hosts.go, addHost.)  What an
\* import adds was found connectable since the overlay was opened: verdicts of an
\* earlier opening are dropped, however late they come (hosts.go, Update).
OthersEditsKept ==
    [][edits' = edits /\ Unraced =>
         /\ \A n \in DOMAIN onDisk \ {detailHost, SelectedHost, testing, handler.host} :
              n \in DOMAIN onDisk' /\ onDisk'[n] = onDisk[n]
         /\ focus = "discover" =>
              DOMAIN onDisk' \ DOMAIN onDisk \subseteq
                {c \in Connectable : overlay.verdict[c].run = overlay.run}]_screenVars

\* "updateConfirm/removeSelected resolve the target via selectedHost, which
\* equals the detail host because the grid cursor stays put while detail is
\* open" (hosts.go, startDelete).
DeletesTheOpenHost ==
    place = "info" /\ focus = "confirm" /\ notices = << >>
      => SelectedHost \in {detailHost, None}
=============================================================================
