---------------------------- MODULE PlanRunProofs ----------------------------
(***************************************************************************)
(* Proofs about PlanRun.  A command starts once and its payload stays      *)
(* because of what the owner of the execution may rely on at each place:   *)
(* its own copy tells of the same steps as the snapshot on disk, which     *)
(* says "running" before anything is sent.                                 *)
(***************************************************************************)
EXTENDS PlanRun, TLAPS, NaturalsInduction, WellFoundedInduction,
        FiniteSetTheorems

Pinned(o) == Retained(o) /\ Exec \in pins[o]

\* The payloads whose files no loss of power changed.
Whole == Objects \ struck

NoExecPins == \A o \in Whole : Exec \notin pins[o]

\* The payloads of the steps to come, but for those removed by force or struck
\* by a loss of power.
Supplied(m) == \A o \in Inputs(Remaining(m)) \ (forced \cup struck) : Pinned(o)

\* What a snapshot on disk tells.
Sound(m) ==
  /\ m.status = "none" => m = NoRun
  /\ \A s \in Steps : m.steps[s] = "not_started" => starts[s] = 0
  /\ m.status # "none" => m.refs = Inputs(Steps) \/ NoExecPins
  /\ m.status # "none" /\ Resumable(m) /\ ~refused => Supplied(m)
  /\ m.status = "completed" => NoExecPins

Creating == {"prepare", "abandon"}
Approving == {"consult", "submit", "wait"}
Sending == {"started", "executing"}

Startable(m) == \A s \in Remaining(m) : m.steps[s] = "not_started"

\* One step of m is under way, and whether its command was sent shows in the place.
UnderWay(place, m) ==
  \E s \in Steps :
    /\ m.steps[s] = "running"
    /\ \A t \in Remaining(m) \ {s} : m.steps[t] = "not_started"
    /\ place = "started" => starts[s] = 0

\* What a process at a place may rely on: m is its copy, d the snapshot on disk.
Placed(place, m, d) ==
  /\ place = "idle" => m = NoRun
  /\ place \in Creating => d = NoRun /\ m = [NoRun EXCEPT !.status = "ready", !.refs = m.refs]
  /\ place = "prepare" => m.refs \subseteq Inputs(Steps) /\ \A o \in m.refs \ (forced \cup struck) : Pinned(o)
  /\ place \notin Outside => d.status # "none" /\ m.steps = d.steps /\ m.refs = d.refs
  /\ place = "loaded" => m.status = d.status
  /\ place \in Approving => Resumable(m) /\ Resumable(d)
  /\ place \in Approving \cup {"run"} => Startable(m)
  /\ place \in Approving \cup Sending \cup {"run"} =>
        (refused \/ Supplied(m)) /\ m.status # "completed" /\ m.status # "none"
  /\ place \in Sending => UnderWay(place, m) /\ m.status = "running"
  /\ place = "release" =>
        /\ m.status \in {"completed", "failed", "denied"}
        /\ Remaining(m) = {} \/ refused \/ ~Resumable(d)

AllPlaced == \A p \in Procs : Placed(pc[p], mem[p], disk)

\* The lock, and before there is a snapshot the name of the execution.
OneOwner == \A p, q \in Procs : pc[p] # "idle" /\ pc[q] # "idle" => p = q

PinsOfInputs == \A o \in Whole : Exec \in pins[o] => o \in Inputs(Steps)

CoreTyped ==
  /\ StoreTypeOK
  /\ {disk, durable} \subseteq Snapshots
  /\ plan \in [Plans -> PlanStates]
  /\ mem \in [Procs -> Snapshots]
  /\ pc \in [Procs -> RunPlaces]
  /\ starts \in [Steps -> Nat]
  /\ forced \subseteq Objects /\ refused \in BOOLEAN /\ struck \subseteq Objects
  /\ down \in BOOLEAN
  /\ look \in {"none", "read", "unknown"}

\* All but what the machine may lose, on which only its next start depends.
Core ==
  /\ CoreTyped /\ durable = disk
  /\ Sound(disk) /\ AllPlaced /\ OneOwner /\ PinsOfInputs /\ StartedOnce

IInv == Core /\ unsynced \in Unsynced
-----------------------------------------------------------------------------

\* What is typed but for the snapshots and the places of the processes.
RestTyped ==
  /\ StoreTypeOK
  /\ plan \in [Plans -> PlanStates]
  /\ forced \subseteq Objects /\ refused \in BOOLEAN /\ struck \subseteq Objects
  /\ down \in BOOLEAN
  /\ look \in {"none", "read", "unknown"}

\* What everything does but sending a command, and taking and giving back the
\* pins of the execution.
Tame ==
  /\ starts' = starts /\ (refused => refused')
  /\ forced \subseteq forced' /\ struck \subseteq struck'
  /\ \A o \in Objects :
       /\ o \notin forced' \cup struck' /\ Pinned(o) => Pinned(o)'
       /\ o \notin struck' /\ Exec \in pins'[o] => Exec \in pins[o]

LEMMA InputsAreObjects == ASSUME NEW S, S \subseteq Steps PROVE Inputs(S) \subseteq Objects
BY PlanAssumption DEF Inputs

LEMMA RemainingSteps == ASSUME NEW m PROVE Remaining(m) \subseteq Steps
BY DEF Remaining

LEMMA SameSteps ==
  ASSUME NEW m, NEW d, m.steps = d.steps
  PROVE  /\ Remaining(m) = Remaining(d) /\ (Supplied(m) <=> Supplied(d))
         /\ (Startable(m) <=> Startable(d))
BY DEF Remaining, Supplied, Startable

LEMMA TameSupplied ==
  ASSUME Tame, NEW m, Supplied(m) PROVE Supplied(m)'
<1>. SUFFICES ASSUME NEW o \in Inputs(Remaining(m)) \ (forced' \cup struck') PROVE Pinned(o)'
  BY DEF Supplied
<1>1. o \in Objects
  BY InputsAreObjects, RemainingSteps
<1>2. Pinned(o)
  BY DEF Supplied, Tame
<1>. QED  BY <1>1, <1>2 DEF Tame

LEMMA TameNoPins == ASSUME Tame, NoExecPins PROVE NoExecPins'
BY DEF Tame, NoExecPins, Whole

LEMMA TameSound == ASSUME Tame, NEW m, Sound(m) PROVE Sound(m)'
<1>1. Supplied(m) => Supplied(m)'
  BY TameSupplied
<1>2. NoExecPins => NoExecPins'
  BY TameNoPins
<1>3. starts' = starts /\ (refused => refused')
  BY DEF Tame
<1>. QED  BY <1>1, <1>2, <1>3 DEF Sound

LEMMA TamePlaced ==
  ASSUME Tame, NEW place, NEW m, NEW d, Placed(place, m, d) PROVE Placed(place, m, d)'
<1>1. Supplied(m) => Supplied(m)'
  BY TameSupplied
<1>2. starts' = starts /\ (refused => refused')
  BY DEF Tame
<1>3. UnderWay(place, m) => UnderWay(place, m)'
  BY <1>2 DEF UnderWay
<1>4. ASSUME m.refs \subseteq Inputs(Steps), \A o \in m.refs \ (forced \cup struck) : Pinned(o)
      PROVE  \A o \in m.refs \ (forced' \cup struck') : Pinned(o)'
  BY <1>4, InputsAreObjects DEF Tame
<1>. QED  BY <1>1, <1>2, <1>3, <1>4 DEF Placed

LEMMA IdlePlaced == ASSUME NEW d PROVE Placed("idle", NoRun, d)
BY DEF Placed, Creating, Approving, Sending, Outside

LEMMA IdlePlacedNext ==
  ASSUME NEW p, pc'[p] = "idle", mem'[p] = NoRun PROVE Placed(pc[p], mem[p], disk)'
BY DEF Placed, Creating, Approving, Sending, Outside

LEMMA NoRunTyped == NoRun \in Snapshots /\ NoRun.status = "none"
BY DEF NoRun, Snapshots, Statuses, StepStates

\* The others are idle while process p is not.
Alone(p) == \A q \in Procs \ {p} : pc[q] = "idle"

LEMMA OwnerAlone == ASSUME Core, NEW p \in Procs, pc[p] # "idle" PROVE Alone(p)
BY DEF Core, OneOwner, Alone

\* A process moves, and may save its copy.
LEMMA Moved ==
  ASSUME Core, NEW p \in Procs, Alone(p), RestTyped', PinsOfInputs', StartedOnce',
         starts' \in [Steps -> Nat],
         NEW place \in RunPlaces, NEW m \in Snapshots, NEW d \in Snapshots,
         pc' = [pc EXCEPT ![p] = place], mem' = [mem EXCEPT ![p] = m],
         disk' = d, durable' = d, Sound(d)', Placed(place, m, d)'
  PROVE  Core'
<1>1. CoreTyped'
  BY DEF Core, CoreTyped, RestTyped
<1>2. OneOwner'
  BY DEF Core, CoreTyped, OneOwner, Alone
<1>3. ASSUME NEW q \in Procs PROVE Placed(pc[q], mem[q], disk)'
  <2>1. CASE q = p
    <3>1. pc'[q] = place /\ mem'[q] = m
      BY <2>1 DEF Core, CoreTyped
    <3>. QED  BY <3>1
  <2>2. CASE q # p
    <3>1. pc'[q] = "idle" /\ mem'[q] = mem[q] /\ pc[q] = "idle"
      BY <2>2 DEF Core, CoreTyped, Alone
    <3>2. mem[q] = NoRun
      BY <3>1 DEF Core, AllPlaced, Placed
    <3>. QED  BY <3>1, <3>2, IdlePlacedNext
  <2>. QED  BY <2>1, <2>2
<1>4. AllPlaced'
  BY <1>3 DEF AllPlaced
<1>. QED  BY <1>1, <1>2, <1>4 DEF Core

LEMMA TamelyMoved ==
  ASSUME Core, Tame, RestTyped', NEW p \in Procs, Alone(p),
         NEW place \in RunPlaces, NEW m \in Snapshots, NEW d \in Snapshots,
         pc' = [pc EXCEPT ![p] = place], mem' = [mem EXCEPT ![p] = m],
         disk' = d, durable' = d, Sound(d), Placed(place, m, d)
  PROVE  Core'
<1>1. Sound(d)' /\ Placed(place, m, d)'
  BY TameSound, TamePlaced
<1>2. PinsOfInputs' /\ StartedOnce' /\ starts' \in [Steps -> Nat]
  BY DEF Core, CoreTyped, Tame, PinsOfInputs, Whole, StartedOnce
<1>. QED  BY <1>1, <1>2, Moved

\* Nothing happens to the execution itself.
LEMMA TamelyStayed ==
  ASSUME Core, Tame, RestTyped', UNCHANGED <<pc, mem, disk, durable>>
  PROVE  Core'
<1>1. CoreTyped' /\ OneOwner' /\ durable' = disk' /\ PinsOfInputs' /\ StartedOnce'
  BY DEF Core, CoreTyped, RestTyped, OneOwner, Tame, PinsOfInputs, Whole, StartedOnce
<1>2. Sound(disk)'
  <2>1. Sound(disk) /\ disk' = disk
    BY DEF Core
  <2>. QED  BY <2>1, TameSound
<1>3. ASSUME NEW p \in Procs PROVE Placed(pc[p], mem[p], disk)'
  <2>1. Placed(pc[p], mem[p], disk) /\ pc' = pc /\ mem' = mem /\ disk' = disk
    BY DEF Core, AllPlaced
  <2>. QED  BY <2>1, TamePlaced
<1>. QED  BY <1>1, <1>2, <1>3 DEF Core, AllPlaced

LEMMA QuietIsTame ==
  ASSUME Core, UNCHANGED <<pins, content, forced, struck, starts>>, refused => refused' PROVE Tame
BY DEF Tame, Pinned, Retained

LEMMA RestStays ==
  ASSUME Core, UNCHANGED <<storeVars, plan, forced, refused, struck, down, look>> PROVE RestTyped'
BY DEF Core, CoreTyped, RestTyped, StoreTypeOK, storeVars
-----------------------------------------------------------------------------
(* The steps of a process: what it saves, and where it goes. *)

LEMMA Here ==
  ASSUME Core, NEW p \in Procs
  PROVE  /\ Placed(pc[p], mem[p], disk) /\ Sound(disk) /\ durable = disk
         /\ mem[p] \in Snapshots /\ disk \in Snapshots /\ pc[p] \in RunPlaces
BY DEF Core, AllPlaced, CoreTyped

\* The snapshot stays as it is.
LEMMA QuietMove ==
  ASSUME Core, NEW p \in Procs, Alone(p), NEW place \in RunPlaces, NEW m \in Snapshots,
         pc' = [pc EXCEPT ![p] = place], mem' = [mem EXCEPT ![p] = m],
         UNCHANGED <<storeVars, SavedVars, plan, Elsewhere>>, Placed(place, m, disk)
  PROVE  Core'
<1>1. Tame /\ RestTyped'
  BY QuietIsTame, RestStays DEF storeVars, Elsewhere
<1>2. disk' = disk /\ durable' = disk
  BY Here DEF SavedVars
<1>. QED  BY <1>1, <1>2, Here, TamelyMoved

LEMMA MemorySame ==
  ASSUME Core, NEW p \in Procs
  PROVE  mem = [mem EXCEPT ![p] = mem[p]] /\ pc = [pc EXCEPT ![p] = pc[p]]
BY DEF Core, CoreTyped

LEMMA Leaves ==
  ASSUME Core, NEW p \in Procs, Alone(p), Leave(p),
         UNCHANGED <<SavedVars, Elsewhere>>, Tame, RestTyped'
  PROVE  Core'
<1>1. "idle" \in RunPlaces /\ NoRun \in Snapshots
  BY NoRunTyped DEF RunPlaces, Outside
<1>2. disk' = disk /\ durable' = disk
  BY Here DEF SavedVars
<1>3. pc' = [pc EXCEPT ![p] = "idle"] /\ mem' = [mem EXCEPT ![p] = NoRun]
  BY DEF Leave, Goto, Memory
<1>4. Placed("idle", NoRun, disk)
  BY IdlePlaced
<1>. QED  BY <1>1, <1>2, <1>3, <1>4, Here, TamelyMoved

LEMMA QuietLeave ==
  ASSUME Core, NEW p \in Procs, Alone(p), Leave(p),
         UNCHANGED <<storeVars, SavedVars, plan, Elsewhere>>
  PROVE  Core'
<1>1. Tame /\ RestTyped'
  BY QuietIsTame, RestStays DEF storeVars, Elsewhere
<1>. QED  BY <1>1, Leaves

LEMMA Saves ==
  ASSUME Core, NEW p \in Procs, Alone(p), NEW place \in RunPlaces, NEW m \in Snapshots,
         SaveAt(p, m, place), Tame, RestTyped',
         Sound(m), place = "idle" \/ Placed(place, m, m)
  PROVE  Core'
<1>1. disk' = m /\ durable' = m /\ pc' = [pc EXCEPT ![p] = place]
  BY DEF SaveAt, Save, Goto
<1>2. CASE place = "idle"
  <2>1. mem' = [mem EXCEPT ![p] = NoRun] /\ Placed(place, NoRun, m)
    BY <1>2, IdlePlaced DEF SaveAt, Memory
  <2>. QED  BY <1>1, <2>1, NoRunTyped, TamelyMoved
<1>3. CASE place # "idle"
  <2>1. mem' = [mem EXCEPT ![p] = m] /\ Placed(place, m, m)
    BY <1>3 DEF SaveAt, Memory
  <2>. QED  BY <1>1, <2>1, TamelyMoved
<1>. QED  BY <1>2, <1>3

LEMMA QuietSave ==
  ASSUME Core, NEW p \in Procs, Alone(p), NEW place \in RunPlaces, NEW m \in Snapshots,
         SaveAt(p, m, place), UNCHANGED <<storeVars, plan, Elsewhere>>,
         Sound(m), place = "idle" \/ Placed(place, m, m)
  PROVE  Core'
<1>1. Tame /\ RestTyped'
  BY QuietIsTame, RestStays DEF storeVars, Elsewhere
<1>. QED  BY <1>1, Saves

\* A copy that differs from a sound snapshot in its status only.
LEMMA StatusSound ==
  ASSUME NEW d, Sound(d), NEW m, m.steps = d.steps, m.refs = d.refs,
         d.status # "none", m.status # "none", m.status # "completed",
         Resumable(m) => refused \/ Supplied(m)
  PROVE  Sound(m)
BY DEF Sound

\* What a process of a created execution has in its copy.
LEMMA Inside ==
  ASSUME Core, NEW p \in Procs, pc[p] \notin Outside
  PROVE  /\ Alone(p) /\ disk.status # "none"
         /\ mem[p].steps = disk.steps /\ mem[p].refs = disk.refs
         /\ Remaining(mem[p]) = Remaining(disk)
         /\ (Supplied(mem[p]) <=> Supplied(disk))
<1>1. Alone(p)
  BY OwnerAlone DEF Outside
<1>2. disk.status # "none" /\ mem[p].steps = disk.steps /\ mem[p].refs = disk.refs
  BY Here DEF Placed
<1>. QED  BY <1>1, <1>2, SameSteps

LEMMA Onward ==
  ASSUME Core, NEW p \in Procs, pc[p] \in Approving \cup {"run"} \cup Sending
  PROVE  /\ pc[p] \notin Outside /\ (refused \/ Supplied(mem[p]))
         /\ mem[p].status \notin {"completed", "none"}
         /\ (pc[p] \notin Sending => Startable(mem[p]))
         /\ (pc[p] \in Approving => Resumable(mem[p]) /\ Resumable(disk))
<1>1. Placed(pc[p], mem[p], disk)
  BY Here
<1>2. pc[p] \notin Outside
  BY DEF Outside, Approving, Sending
<1>. QED  BY <1>1, <1>2 DEF Placed, Approving, Sending

\* Saving a status, and possibly no plan.
LEMMA OnwardSound ==
  ASSUME Core, NEW p \in Procs, pc[p] \in Approving \cup {"run"},
         NEW m, m.steps = mem[p].steps, m.refs = mem[p].refs,
         m.status \notin {"none", "completed"}
  PROVE  Sound(m) /\ (refused \/ Supplied(m)) /\ Startable(m)
<1>1. disk.status # "none" /\ m.steps = disk.steps /\ m.refs = disk.refs
  BY Onward, Inside
<1>2. refused \/ Supplied(m)
  BY Onward, SameSteps
<1>3. Startable(m)
  BY Onward, SameSteps DEF Approving, Sending
<1>. QED  BY <1>1, <1>2, <1>3, Here, StatusSound

-----------------------------------------------------------------------------
(* Creating *)

LEMMA BeginCreateKeeps == ASSUME Core, NEW p \in Procs, BeginCreate(p) PROVE Core'
<1> DEFINE m == [NoRun EXCEPT !.status = "ready"]
<1>1. Alone(p) /\ disk = NoRun
  BY Here DEF BeginCreate, Alone, Sound
<1>2. m \in Snapshots /\ m.refs = {} /\ m = [NoRun EXCEPT !.status = "ready", !.refs = m.refs]
  BY DEF NoRun, Snapshots, Statuses, StepStates
<1>3. pc' = [pc EXCEPT ![p] = "prepare"] /\ mem' = [mem EXCEPT ![p] = m]
  BY DEF BeginCreate, Goto, Memory
<1> HIDE DEF m
<1>4. Placed("prepare", m, disk)
  BY <1>1, <1>2 DEF Placed, Creating, Approving, Sending, Outside
<1>5. "prepare" \in RunPlaces
  BY DEF RunPlaces, Outside
<1>. QED  BY <1>1, <1>2, <1>3, <1>4, <1>5, QuietMove DEF BeginCreate

\* Before its creation an execution is no more than its pins.
LEMMA BeforeCreation ==
  ASSUME Core, NEW p \in Procs, pc[p] \in Creating
  PROVE  /\ Alone(p) /\ disk = NoRun /\ durable = NoRun
         /\ \A s \in Steps : starts[s] = 0
         /\ mem[p] = [NoRun EXCEPT !.status = "ready", !.refs = mem[p].refs]
         /\ mem[p].steps = NoRun.steps /\ mem[p].status = "ready"
<1>1. disk = NoRun /\ mem[p] = [NoRun EXCEPT !.status = "ready", !.refs = mem[p].refs]
  BY Here DEF Placed
<1>2. mem[p].steps = NoRun.steps /\ mem[p].status = "ready"
  BY <1>1 DEF NoRun
<1>3. \A s \in Steps : starts[s] = 0
  BY <1>1, Here DEF Sound, NoRun
<1>4. Alone(p)
  BY OwnerAlone DEF Creating
<1>. QED  BY <1>1, <1>2, <1>3, <1>4, Here

\* The owner changes its list of pins, and the pins.
LEMMA PinsMoved ==
  ASSUME Core, NEW p \in Procs, pc[p] \in Creating, UNCHANGED <<pc, SavedVars, plan, Elsewhere>>,
         NEW R \in SUBSET Objects, mem' = [mem EXCEPT ![p] = [mem[p] EXCEPT !.refs = R]],
         StoreTypeOK', PinsOfInputs',
         pc[p] = "prepare" => R \subseteq Inputs(Steps) /\ \A o \in R \ (forced \cup struck) : Pinned(o)'
  PROVE  Core'
<1>1. [mem[p] EXCEPT !.refs = R] \in Snapshots
  BY Here DEF Snapshots
<1>2. PICK m \in Snapshots : m = [mem[p] EXCEPT !.refs = R]
  BY <1>1
<1>3. PICK place \in RunPlaces : place = pc[p]
  BY Here
<1>4. m.refs = R /\ m = [NoRun EXCEPT !.status = "ready", !.refs = m.refs]
  BY <1>2, BeforeCreation DEF NoRun
<1>5. /\ starts' = starts /\ forced' = forced /\ refused' = refused
      /\ struck' = struck /\ disk' = NoRun /\ durable' = NoRun
  BY BeforeCreation DEF Elsewhere, SavedVars
<1>6. RestTyped' /\ StartedOnce' /\ starts' \in [Steps -> Nat]
  BY DEF Core, CoreTyped, RestTyped, StartedOnce, Elsewhere
<1>7. Sound(NoRun)'
  BY <1>5, BeforeCreation DEF Sound, NoRun
<1>8. Placed(place, m, NoRun)'
  BY <1>3, <1>4, <1>5 DEF Placed, Creating, Approving, Sending, Outside
<1>9. pc' = [pc EXCEPT ![p] = place] /\ mem' = [mem EXCEPT ![p] = m]
  BY <1>2, <1>3, MemorySame
<1>. QED  BY <1>5, <1>6, <1>7, <1>8, <1>9, BeforeCreation, NoRunTyped, Moved

LEMMA PinTyped ==
  ASSUME Core, NEW o \in Objects, Pin(o, Exec) \/ \E r \in Retentions : PutAndPin(o, r, Exec)
  PROVE  /\ StoreTypeOK' /\ Pinned(o)'
         /\ \A x \in Objects : /\ Pinned(x) => Pinned(x)'
                               /\ Exec \in pins'[x] => x = o \/ Exec \in pins[x]
<1>1. /\ pins' = [pins EXCEPT ![o] = @ \cup {Exec}]
      /\ content' = content \/ content' = content \cup {o}
      /\ o \in content'
      /\ UNCHANGED <<litter, now, deaths>>
  BY DEF Pin, PutAndPin, AddPin, Retained
<1>2. meta' \in [Objects -> Meta]
  <2>1. CASE Pin(o, Exec)
    BY <2>1 DEF Pin, Core, CoreTyped, StoreTypeOK
  <2>2. ASSUME NEW r \in Retentions, PutAndPin(o, r, Exec) PROVE meta' \in [Objects -> Meta]
    <3>1. Kept(r) \in Meta
      BY StoreAssumption DEF Kept, Meta, Core, CoreTyped, StoreTypeOK
    <3>. QED  BY <2>2, <3>1 DEF PutAndPin, Core, CoreTyped, StoreTypeOK
  <2>. QED  BY <2>1, <2>2
<1>. QED  BY <1>1, <1>2, NamesAssumption DEF Core, CoreTyped, StoreTypeOK, Pinned, Retained

LEMMA PinInputKeeps ==
  ASSUME Core, NEW p \in Procs, NEW o \in Objects, PinInput(p, o) PROVE Core'
<1>1. pc[p] = "prepare" /\ o \in Inputs(Steps) \ mem[p].refs
  BY DEF PinInput
<1>2. StoreTypeOK' /\ Pinned(o)'
      /\ \A x \in Objects : /\ Pinned(x) => Pinned(x)'
                            /\ Exec \in pins'[x] => x = o \/ Exec \in pins[x]
  BY PinTyped DEF PinInput
<1>3. mem[p].refs \subseteq Inputs(Steps) /\ \A x \in mem[p].refs \ (forced \cup struck) : Pinned(x)
  BY <1>1, Here DEF Placed
<1>4. PICK R \in SUBSET Objects : R = mem[p].refs \cup {o}
  BY Here DEF Snapshots
<1>5. R \subseteq Inputs(Steps) /\ \A x \in R \ (forced \cup struck) : Pinned(x)'
  BY <1>1, <1>2, <1>3, <1>4
<1>6. PinsOfInputs'
  BY <1>1, <1>2 DEF Core, PinsOfInputs, Whole, PinInput, Elsewhere
<1>7. /\ UNCHANGED <<pc, SavedVars, plan, Elsewhere>>
      /\ mem' = [mem EXCEPT ![p] = [mem[p] EXCEPT !.refs = R]]
  BY <1>4, Here DEF PinInput, Memory, Snapshots
<1>. QED  BY <1>1, <1>2, <1>5, <1>6, <1>7, PinsMoved DEF Creating

LEMMA UnpinTyped ==
  ASSUME Core, NEW o \in Objects, NEW owner, Unpin(o, owner)
  PROVE  /\ StoreTypeOK' /\ content' = content
         /\ \A x \in Objects : /\ pins'[x] \subseteq pins[x]
                               /\ \A w \in Owners \ {owner} : w \in pins[x] => w \in pins'[x]
         /\ owner \notin pins'[o]
BY DEF Core, CoreTyped, StoreTypeOK, Unpin

LEMMA AbandonPinKeeps ==
  ASSUME Core, NEW p \in Procs, NEW o \in Objects, AbandonPin(p, o) PROVE Core'
<1>1. pc[p] = "abandon"
  BY DEF AbandonPin
<1>2. StoreTypeOK' /\ PinsOfInputs'
  BY UnpinTyped DEF AbandonPin, Elsewhere, Core, PinsOfInputs, Whole
<1>3. PICK R \in SUBSET Objects : R = mem[p].refs \ {o}
  BY Here DEF Snapshots
<1>4. /\ UNCHANGED <<pc, SavedVars, plan, Elsewhere>>
      /\ mem' = [mem EXCEPT ![p] = [mem[p] EXCEPT !.refs = R]]
  BY <1>3, Here DEF AbandonPin, Memory, Snapshots
<1>. QED  BY <1>1, <1>2, <1>4, PinsMoved DEF Creating

LEMMA CreateSnapshotKeeps ==
  ASSUME Core, NEW p \in Procs, CreateSnapshot(p) PROVE Core'
<1> DEFINE m == mem[p]
<1>1. pc[p] = "prepare" /\ m.refs = Inputs(Steps)
  BY DEF CreateSnapshot
<1>2. /\ Alone(p) /\ \A s \in Steps : starts[s] = 0
      /\ m.status = "ready" /\ \A o \in m.refs \ (forced \cup struck) : Pinned(o)
  BY <1>1, BeforeCreation, Here DEF Creating, Placed
<1>3. Supplied(m)
  BY <1>1, <1>2 DEF Supplied, Inputs, Remaining
<1>4. m \in Snapshots
  BY Here
<1>5. "loaded" \in RunPlaces
  BY DEF RunPlaces
<1> HIDE DEF m
<1>6. Sound(m) /\ Placed("loaded", m, m)
  BY <1>1, <1>2, <1>3 DEF Sound, Placed, Creating, Approving, Sending, Outside
<1>7. SaveAt(p, m, "loaded") /\ UNCHANGED <<storeVars, plan, Elsewhere>>
  BY DEF CreateSnapshot, m
<1>. QED  BY <1>2, <1>4, <1>5, <1>6, <1>7, QuietSave

LEMMA PrepareFailsKeeps ==
  ASSUME Core, NEW p \in Procs, PrepareFails(p) PROVE Core'
<1> DEFINE m == mem[p]
<1>1. Alone(p) /\ disk = NoRun /\ m = [NoRun EXCEPT !.status = "ready", !.refs = m.refs]
  BY BeforeCreation DEF PrepareFails, Creating
<1>2. m \in Snapshots /\ "abandon" \in RunPlaces
  BY Here DEF RunPlaces, Outside
<1>3. /\ pc' = [pc EXCEPT ![p] = "abandon"] /\ mem' = [mem EXCEPT ![p] = m]
      /\ UNCHANGED <<storeVars, SavedVars, plan, Elsewhere>>
  BY MemorySame DEF PrepareFails, Goto
<1> HIDE DEF m
<1>4. Placed("abandon", m, disk)
  BY <1>1 DEF Placed, Creating, Approving, Sending, Outside
<1>. QED  BY <1>1, <1>2, <1>3, <1>4, QuietMove

LEMMA AbandonedKeeps ==
  ASSUME Core, NEW p \in Procs, Abandoned(p) PROVE Core'
BY QuietLeave, OwnerAlone DEF Abandoned

-----------------------------------------------------------------------------
(* Resuming *)

LEMMA ResumeKeeps == ASSUME Core, NEW p \in Procs, Resume(p) PROVE Core'
<1>1. ASSUME NEW q \in Procs, pc[q] \in Creating PROVE FALSE
  BY <1>1, BeforeCreation, NoRunTyped DEF Resume
<1>2. Alone(p)
  BY <1>1 DEF Resume, LockFree, Outside, Creating, Alone
<1>3. Placed("loaded", disk, disk)
  BY DEF Resume, Placed, Creating, Approving, Sending, Outside
<1>4. /\ pc' = [pc EXCEPT ![p] = "loaded"] /\ mem' = [mem EXCEPT ![p] = disk]
      /\ UNCHANGED <<storeVars, SavedVars, plan, Elsewhere>> /\ "loaded" \in RunPlaces
  BY DEF Resume, Goto, Memory, RunPlaces
<1>. QED  BY <1>2, <1>3, <1>4, Here, QuietMove

LEMMA MarkUnknownKeeps ==
  ASSUME Core, NEW p \in Procs, NEW s \in Steps, MarkUnknown(p, s) PROVE Core'
<1> DEFINE m == [mem[p] EXCEPT !.steps[s] = "unknown", !.status = "unknown"]
<1>1. pc[p] = "loaded" /\ pc[p] \notin Outside
  BY DEF MarkUnknown, Outside
<1>2. m \in Snapshots /\ m.status = "unknown" /\ m.refs = mem[p].refs
      /\ \A t \in Steps : m.steps[t] = "not_started" => mem[p].steps[t] = "not_started"
  BY Here DEF Snapshots, Statuses, StepStates
<1>3. SaveAt(p, m, "loaded") /\ UNCHANGED <<storeVars, plan, Elsewhere>> /\ "loaded" \in RunPlaces
  BY DEF MarkUnknown, RunPlaces
<1> HIDE DEF m
<1>4. Sound(m)
  BY <1>1, <1>2, Inside, Here DEF Sound, Resumable
<1>5. Placed("loaded", m, m)
  BY <1>2 DEF Placed, Creating, Approving, Sending, Outside
<1>. QED  BY <1>1, <1>2, <1>3, <1>4, <1>5, Inside, QuietSave

LEMMA RefuseKeeps == ASSUME Core, NEW p \in Procs, Refuse(p) PROVE Core'
BY QuietLeave, OwnerAlone DEF Refuse

\* Nothing is left to do, before or after the loop.
LEMMA Finishes ==
  ASSUME Core, NEW p \in Procs, pc[p] \in {"loaded", "run"}, Remaining(mem[p]) = {},
         Memory(p, Ended(mem[p])), Goto(p, "release"),
         UNCHANGED <<storeVars, SavedVars, plan, Elsewhere>>
  PROVE  Core'
<1> DEFINE m == Ended(mem[p])
<1>1. pc[p] \notin Outside
  BY DEF Outside
<1>2. /\ m \in Snapshots /\ m.status \in {"completed", "failed"}
      /\ m.steps = mem[p].steps /\ m.refs = mem[p].refs
  BY Here DEF Snapshots, Statuses, Ended
<1>3. /\ pc' = [pc EXCEPT ![p] = "release"] /\ mem' = [mem EXCEPT ![p] = m]
      /\ "release" \in RunPlaces
  BY DEF Goto, Memory, RunPlaces
<1> HIDE DEF m
<1>4. Remaining(m) = {}
  BY <1>2, SameSteps
<1>5. Placed("release", m, disk)
  BY <1>1, <1>2, <1>4, Inside DEF Placed, Creating, Approving, Sending, Outside
<1>. QED  BY <1>1, <1>2, <1>3, <1>5, Inside, QuietMove

LEMMA NothingLeftKeeps == ASSUME Core, NEW p \in Procs, NothingLeft(p) PROVE Core'
BY Finishes DEF NothingLeft

LEMMA EndRunKeeps == ASSUME Core, NEW p \in Procs, EndRun(p) PROVE Core'
BY Finishes DEF EndRun

LEMMA StepsLeftKeeps == ASSUME Core, NEW p \in Procs, StepsLeft(p) PROVE Core'
<1>1. pc[p] = "loaded" /\ pc[p] \notin Outside /\ Resumable(mem[p]) /\ Startable(mem[p])
  BY DEF StepsLeft, Outside, Startable
<1>2. mem[p].status = disk.status /\ disk.status # "none"
  BY <1>1, Here, Inside DEF Placed
<1>3. refused \/ Supplied(mem[p])
  BY <1>1, <1>2, Here, Inside DEF Sound, Resumable
<1>4. CASE /\ Goto(p, IF mem[p].plan = NoPlan THEN "submit" ELSE "consult")
           /\ UNCHANGED <<SavedVars, mem>>
  <2>1. PICK place \in {"submit", "consult"} : pc' = [pc EXCEPT ![p] = place]
    BY <1>4 DEF Goto
  <2>2. place \in RunPlaces /\ mem' = [mem EXCEPT ![p] = mem[p]]
    BY <1>4, MemorySame DEF RunPlaces
  <2>3. Placed(place, mem[p], disk)
    BY <1>1, <1>2, <1>3, Inside DEF Placed, Creating, Approving, Sending, Outside, Resumable
  <2>4. UNCHANGED <<storeVars, SavedVars, plan, Elsewhere>>
    BY <1>4 DEF StepsLeft
  <2>. QED  BY <1>1, <2>1, <2>2, <2>3, <2>4, Inside, Here, QuietMove
<1>5. ASSUME NEW m, m = [mem[p] EXCEPT !.plan = NoPlan,
                           !.status = IF @ \in {"pending", "expired"} THEN "ready" ELSE @],
             SaveAt(p, m, "submit")
      PROVE  Core'
  <2>1. /\ m \in Snapshots /\ m.steps = mem[p].steps /\ m.refs = mem[p].refs
        /\ Resumable(m) /\ m.status \notin {"none", "completed"}
    BY <1>1, <1>2, <1>5, Here DEF Snapshots, Statuses, Resumable
  <2>2. (refused \/ Supplied(m)) /\ Startable(m)
    BY <1>1, <1>3, <2>1, SameSteps
  <2>3. Sound(m)
    BY <1>1, <1>2, <2>1, <2>2, Inside, Here, StatusSound
  <2>4. Placed("submit", m, m) /\ "submit" \in RunPlaces
    BY <2>1, <2>2 DEF Placed, Creating, Approving, Sending, Outside, RunPlaces
  <2>5. UNCHANGED <<storeVars, plan, Elsewhere>>
    BY DEF StepsLeft
  <2>. QED  BY <1>1, <1>5, <2>1, <2>3, <2>4, <2>5, Inside, QuietSave
<1>. QED  BY <1>4, <1>5 DEF StepsLeft

-----------------------------------------------------------------------------
(* Approving *)

\* The execution is given up for good.
LEMMA GivenUp ==
  ASSUME Core, NEW p \in Procs, pc[p] \in Approving, NEW m, m \in Snapshots,
         m.steps = mem[p].steps, m.refs = mem[p].refs, m.status = "denied"
  PROVE  Sound(m) /\ Placed("release", m, m) /\ "release" \in RunPlaces
<1>1. Sound(m)
  BY OnwardSound
<1>. QED  BY <1>1 DEF Placed, Creating, Approving, Sending, Outside, Resumable, RunPlaces

\* A status that leaves the execution open is saved.
LEMMA StaysOpen ==
  ASSUME Core, NEW p \in Procs, pc[p] \in Approving, NEW m, m \in Snapshots,
         m.steps = mem[p].steps, m.refs = mem[p].refs,
         m.status \in {"pending", "ready", "expired"}, NEW place \in Approving \cup {"idle"}
  PROVE  Sound(m) /\ (place = "idle" \/ Placed(place, m, m)) /\ place \in RunPlaces
<1>1. Sound(m) /\ (refused \/ Supplied(m)) /\ Startable(m)
  BY OnwardSound
<1>2. Resumable(m)
  BY DEF Resumable
<1>. QED  BY <1>1, <1>2 DEF Placed, Creating, Approving, Sending, Outside, RunPlaces

LEMMA DeniedKeeps == ASSUME Core, NEW p \in Procs, Denied(p) PROVE Core'
<1>1. pc[p] \in Approving /\ pc[p] \notin Outside
  BY DEF Denied, Approving, Outside
<1>2. PICK m \in Snapshots : m = [mem[p] EXCEPT !.status = "denied"]
  BY Here DEF Snapshots, Statuses
<1>3. Tame
  BY QuietIsTame DEF Denied, storeVars
<1>4. RestTyped'
  BY DEF Denied, Core, CoreTyped, RestTyped, StoreTypeOK, storeVars
<1>5. PICK d \in Snapshots : d = disk
  BY Here
<1>6. Sound(d)'
  BY <1>3, <1>5, Here, TameSound
<1>7. m.status = "denied" /\ m.steps = d.steps /\ m.refs = d.refs /\ d.status # "none"
  BY <1>1, <1>2, <1>5, Inside, Here DEF Snapshots
<1>8. refused'
  BY DEF Denied
<1>9. Placed("release", m, d)' /\ "release" \in RunPlaces
  BY <1>7, <1>8 DEF Placed, Creating, Approving, Sending, Outside, RunPlaces
<1>10. PinsOfInputs' /\ StartedOnce' /\ starts' \in [Steps -> Nat]
  BY <1>3 DEF Core, CoreTyped, Tame, PinsOfInputs, Whole, StartedOnce
<1>11. /\ pc' = [pc EXCEPT ![p] = "release"] /\ mem' = [mem EXCEPT ![p] = m]
       /\ disk' = d /\ durable' = d
  BY <1>2, <1>5, Here DEF Denied, Goto, Memory, SavedVars
<1>. QED  BY <1>1, <1>4, <1>6, <1>9, <1>10, <1>11, Inside, Moved

LEMMA ConsultExpiredKeeps == ASSUME Core, NEW p \in Procs, ConsultExpired(p) PROVE Core'
<1>1. pc[p] \in Approving /\ pc[p] \notin Outside /\ "submit" \in Approving
  BY DEF ConsultExpired, Approving, Outside
<1>2. PICK m \in Snapshots : m = [mem[p] EXCEPT !.plan = NoPlan, !.status = "expired"]
  BY Here DEF Snapshots, Statuses
<1>3. m.steps = mem[p].steps /\ m.refs = mem[p].refs /\ m.status = "expired"
  BY <1>2, Here DEF Snapshots
<1>4. SaveAt(p, m, "submit") /\ UNCHANGED <<storeVars, plan, Elsewhere>>
  BY <1>2 DEF ConsultExpired
<1>. QED  BY <1>1, <1>3, <1>4, StaysOpen, Inside, QuietSave

LEMMA ConsultPendingKeeps == ASSUME Core, NEW p \in Procs, ConsultPending(p) PROVE Core'
<1>1. pc[p] \in Approving /\ pc[p] \notin Outside /\ "wait" \in Approving
  BY DEF ConsultPending, Approving, Outside
<1>2. PICK m \in Snapshots : m = [mem[p] EXCEPT !.status = "pending"]
  BY Here DEF Snapshots, Statuses
<1>3. m.steps = mem[p].steps /\ m.refs = mem[p].refs /\ m.status = "pending"
  BY <1>2, Here DEF Snapshots
<1>4. /\ \E place \in {"wait", "idle"} : SaveAt(p, m, place)
      /\ UNCHANGED <<storeVars, plan, Elsewhere>>
  BY <1>2 DEF ConsultPending
<1>5. PICK place \in Approving \cup {"idle"} : SaveAt(p, m, place)
  BY <1>1, <1>4
<1>. QED  BY <1>1, <1>3, <1>4, <1>5, StaysOpen, Inside, QuietSave

LEMMA ConsultSpentKeeps == ASSUME Core, NEW p \in Procs, ConsultSpent(p) PROVE Core'
<1>1. pc[p] \in Approving /\ pc[p] \notin Outside /\ "submit" \in Approving
  BY DEF ConsultSpent, Approving, Outside
<1>2. PICK m \in Snapshots : m = [mem[p] EXCEPT !.plan = NoPlan, !.status = "ready"]
  BY Here DEF Snapshots, Statuses
<1>3. m.steps = mem[p].steps /\ m.refs = mem[p].refs /\ m.status = "ready"
  BY <1>2, Here DEF Snapshots
<1>4. SaveAt(p, m, "submit") /\ UNCHANGED <<storeVars, plan, Elsewhere>>
  BY <1>2 DEF ConsultSpent
<1>. QED  BY <1>1, <1>3, <1>4, StaysOpen, Inside, QuietSave

LEMMA ConsultGoneKeeps == ASSUME Core, NEW p \in Procs, ConsultGone(p) PROVE Core'
BY QuietLeave, OwnerAlone DEF ConsultGone

\* A process that goes on with its copy, or with the status "ready".
LEMMA GoesOn ==
  ASSUME Core, NEW p \in Procs, pc[p] \in Approving,
         NEW place \in Approving \cup {"run"}, NEW m,
         m = mem[p] \/ m = [mem[p] EXCEPT !.status = "ready"],
         Goto(p, place), mem' = [mem EXCEPT ![p] = m],
         UNCHANGED <<storeVars, SavedVars, plan, Elsewhere>>
  PROVE  Core'
<1>1. pc[p] \notin Outside /\ Resumable(mem[p]) /\ Resumable(disk)
      /\ mem[p].status \notin {"none", "completed"}
  BY Onward
<1>2. /\ m \in Snapshots /\ m.steps = mem[p].steps /\ m.refs = mem[p].refs
      /\ Resumable(m) /\ m.status \notin {"none", "completed"}
  BY <1>1, Here DEF Snapshots, Statuses, Resumable
<1>3. (refused \/ Supplied(m)) /\ Startable(m)
  BY <1>2, OnwardSound
<1>4. Placed(place, m, disk) /\ place \in RunPlaces
  BY <1>1, <1>2, <1>3, Inside DEF Placed, Creating, Approving, Sending, Outside, RunPlaces
<1>5. pc' = [pc EXCEPT ![p] = place]
  BY DEF Goto
<1>. QED  BY <1>1, <1>2, <1>4, <1>5, Inside, QuietMove

LEMMA ConsultApprovedKeeps == ASSUME Core, NEW p \in Procs, ConsultApproved(p) PROVE Core'
<1>1. /\ pc[p] \in Approving /\ pc[p] \notin Outside
      /\ UNCHANGED <<storeVars, SavedVars, plan, Elsewhere>>
  BY DEF ConsultApproved, Approving, Outside
<1>2. ASSUME NEW place \in {"submit", "run", "wait"}, Goto(p, place), UNCHANGED mem PROVE Core'
  <2>1. mem' = [mem EXCEPT ![p] = mem[p]] /\ place \in Approving \cup {"run"}
    BY <1>2, MemorySame DEF Approving
  <2>. QED  BY <1>1, <1>2, <2>1, GoesOn
<1>3. CASE Memory(p, [mem[p] EXCEPT !.status = "ready"]) /\ Goto(p, "run")
  BY <1>1, <1>3, GoesOn DEF Memory
<1>4. CASE Leave(p)
  BY <1>1, <1>4, Inside, QuietLeave
<1>. QED  BY <1>2, <1>3, <1>4 DEF ConsultApproved

LEMMA SubmitAllowedKeeps == ASSUME Core, NEW p \in Procs, SubmitAllowed(p) PROVE Core'
<1>1. /\ pc[p] \in Approving /\ Goto(p, "run") /\ mem' = [mem EXCEPT ![p] = mem[p]]
      /\ UNCHANGED <<storeVars, SavedVars, plan, Elsewhere>>
  BY MemorySame DEF SubmitAllowed, Approving
<1>. QED  BY <1>1, GoesOn

LEMMA PinForPlanTame ==
  ASSUME Core, NEW p \in Procs, NEW pl \in Plans, PinForPlan(p, pl),
         UNCHANGED <<content, meta, litter, now, Elsewhere>>, deaths' \in Nat
  PROVE  Tame /\ RestTyped'
<1>1. \A o \in Objects : pins'[o] = pins[o] \/ pins'[o] = pins[o] \cup {pl}
  BY DEF PinForPlan
<1>2. pins' \in [Objects -> SUBSET Owners]
  BY NamesAssumption DEF PinForPlan, Core, CoreTyped, StoreTypeOK
<1>3. plan' \in [Plans -> PlanStates]
  BY DEF PinForPlan, Core, CoreTyped, PlanStates
<1>4. Tame
  BY <1>1, NamesAssumption DEF Tame, Pinned, Retained, Elsewhere
<1>. QED  BY <1>2, <1>3, <1>4 DEF Core, CoreTyped, RestTyped, StoreTypeOK, Elsewhere

LEMMA SubmitPendingKeeps ==
  ASSUME Core, NEW p \in Procs, NEW pl \in Plans, SubmitPending(p, pl) PROVE Core'
<1>1. pc[p] \in Approving /\ pc[p] \notin Outside /\ {"wait", "idle"} \subseteq Approving \cup {"idle"}
  BY DEF SubmitPending, Approving, Outside
<1>2. Tame /\ RestTyped'
  BY PinForPlanTame DEF SubmitPending, Core, CoreTyped, StoreTypeOK
<1>3. ASSUME NEW place \in {"wait", "idle"},
             SaveAt(p, [mem[p] EXCEPT !.plan = pl, !.status = "pending"], place)
      PROVE  Core'
  <2>1. PICK m \in Snapshots : m = [mem[p] EXCEPT !.plan = pl, !.status = "pending"]
    BY Here DEF Snapshots, Statuses
  <2>2. m.steps = mem[p].steps /\ m.refs = mem[p].refs /\ m.status = "pending"
    BY <2>1, Here DEF Snapshots
  <2>3. SaveAt(p, m, place)
    BY <1>3, <2>1
  <2>4. Sound(m) /\ (place = "idle" \/ Placed(place, m, m)) /\ place \in RunPlaces
    BY <1>1, <2>2, StaysOpen
  <2>. QED  BY <1>1, <1>2, <2>3, <2>4, Inside, Saves
<1>4. ASSUME SaveAt(p, [mem[p] EXCEPT !.plan = pl, !.status = "denied"], "release") PROVE Core'
  <2>1. PICK m \in Snapshots : m = [mem[p] EXCEPT !.plan = pl, !.status = "denied"]
    BY Here DEF Snapshots, Statuses
  <2>2. m.steps = mem[p].steps /\ m.refs = mem[p].refs /\ m.status = "denied"
    BY <2>1, Here DEF Snapshots
  <2>3. SaveAt(p, m, "release")
    BY <1>4, <2>1
  <2>. QED  BY <1>1, <1>2, <2>2, <2>3, GivenUp, Inside, Saves
<1>. QED  BY <1>3, <1>4 DEF SubmitPending

LEMMA SubmitDeniedKeeps == ASSUME Core, NEW p \in Procs, SubmitDenied(p) PROVE Core'
<1>1. pc[p] \in Approving /\ pc[p] \notin Outside
  BY DEF SubmitDenied, Approving, Outside
<1>2. PICK m \in Snapshots : m = [mem[p] EXCEPT !.status = "denied"]
  BY Here DEF Snapshots, Statuses
<1>3. m.steps = mem[p].steps /\ m.refs = mem[p].refs /\ m.status = "denied"
  BY <1>2, Here DEF Snapshots
<1>4. SaveAt(p, m, "release") /\ UNCHANGED <<storeVars, plan, Elsewhere>>
  BY <1>2 DEF SubmitDenied
<1>. QED  BY <1>1, <1>3, <1>4, GivenUp, Inside, QuietSave

LEMMA SubmitFailsKeeps ==
  ASSUME Core, NEW p \in Procs, NEW pl \in Plans, SubmitFails(p, pl) PROVE Core'
<1>1. pc[p] \notin Outside /\ Leave(p) /\ UNCHANGED <<SavedVars, Elsewhere>>
  BY DEF SubmitFails, Outside
<1>2. Tame /\ RestTyped'
  <2>1. CASE UNCHANGED <<pins, deaths>> /\ plan' \in {plan, [plan EXCEPT ![pl] = "pending"]}
    <3>1. Tame
      BY <2>1, QuietIsTame DEF SubmitFails, Elsewhere
    <3>. QED  BY <2>1, <3>1
              DEF SubmitFails, Elsewhere, Core, CoreTyped, RestTyped, StoreTypeOK, PlanStates
  <2>2. CASE Death /\ PinForPlan(p, pl)
    <3>1. deaths' \in Nat
      BY <2>2 DEF Death, Core, CoreTyped, StoreTypeOK
    <3>. QED  BY <2>2, <3>1, PinForPlanTame DEF SubmitFails
  <2>. QED  BY <2>1, <2>2 DEF SubmitFails
<1>. QED  BY <1>1, <1>2, Inside, Leaves

LEMMA WaitKeeps == ASSUME Core, NEW p \in Procs, Wait(p) PROVE Core'
<1>1. /\ pc[p] \in Approving /\ pc[p] \notin Outside
      /\ UNCHANGED <<storeVars, plan, Elsewhere>>
  BY DEF Wait, Approving, Outside
<1>2. CASE Goto(p, "run") /\ UNCHANGED <<mem, SavedVars>>
  <2>1. mem' = [mem EXCEPT ![p] = mem[p]] /\ UNCHANGED SavedVars
    BY <1>2, MemorySame
  <2>. QED  BY <1>1, <1>2, <2>1, GoesOn
<1>3. CASE SaveAt(p, [mem[p] EXCEPT !.status = "expired"], "idle")
  <2>1. PICK m \in Snapshots : m = [mem[p] EXCEPT !.status = "expired"]
    BY Here DEF Snapshots, Statuses
  <2>2. m.steps = mem[p].steps /\ m.refs = mem[p].refs /\ m.status = "expired"
    BY <2>1, Here DEF Snapshots
  <2>3. SaveAt(p, m, "idle")
    BY <1>3, <2>1
  <2>. QED  BY <1>1, <2>2, <2>3, StaysOpen, Inside, QuietSave
<1>4. CASE Leave(p) /\ UNCHANGED SavedVars
  BY <1>1, <1>4, Inside, QuietLeave
<1>. QED  BY <1>2, <1>3, <1>4 DEF Wait

-----------------------------------------------------------------------------
(* The loop over the steps *)

\* Every nonempty set of steps has a first one.
LEMMA FirstExists ==
  ASSUME NEW S \in SUBSET Nat, S # {} PROVE \E x \in S : \A y \in S : x <= y
<1> DEFINE Below == {ss \in Nat \X Nat : ss[1] < ss[2]}
<1>1. IsWellFoundedOn(Below, Nat)
  BY NatLessThanWellFounded DEF OpToRel
<1> HIDE DEF Below
<1>2. PICK x \in S : \A y \in S : ~(<<y, x>> \in Below)
  BY <1>1, WFMin
<1>3. ASSUME NEW y \in S PROVE x <= y
  <2>1. ~(<<y, x>> \in Below)
    BY <1>2
  <2>2. x \in Nat /\ y \in Nat
    OBVIOUS
  <2>. QED  BY <2>1, <2>2 DEF Below
<1>. QED  BY <1>3

LEMMA FirstRemains ==
  ASSUME NEW m, Remaining(m) # {} PROVE FirstOf(m) \in Remaining(m)
<1>1. Remaining(m) \in SUBSET Nat
  BY PlanAssumption DEF Remaining, Steps
<1>. QED  BY <1>1, FirstExists DEF FirstOf

LEMMA InterruptedKeeps == ASSUME Core, NEW p \in Procs, Interrupted(p) PROVE Core'
<1>1. pc[p] = "run" /\ pc[p] \notin Outside /\ "idle" \in RunPlaces
  BY DEF Interrupted, Outside, RunPlaces
<1>2. PICK m \in Snapshots : m = [mem[p] EXCEPT !.status = "ready"]
  BY Here DEF Snapshots, Statuses
<1>3. m.steps = mem[p].steps /\ m.refs = mem[p].refs /\ m.status = "ready"
  BY <1>2, Here DEF Snapshots
<1>4. Sound(m)
  BY <1>1, <1>3, OnwardSound
<1>5. SaveAt(p, m, "idle") /\ UNCHANGED <<storeVars, plan, Elsewhere>>
  BY <1>2 DEF Interrupted
<1>. QED  BY <1>1, <1>4, <1>5, Inside, QuietSave

LEMMA InputGoneKeeps == ASSUME Core, NEW p \in Procs, InputGone(p) PROVE Core'
BY QuietLeave, OwnerAlone DEF InputGone

LEMMA StartStepKeeps == ASSUME Core, NEW p \in Procs, StartStep(p) PROVE Core'
<1>1. pc[p] = "run" /\ pc[p] \notin Outside /\ Remaining(mem[p]) # {} /\ "started" \in RunPlaces
  BY DEF StartStep, Outside, RunPlaces
<1>2. PICK s \in Remaining(mem[p]) : s = FirstOf(mem[p])
  BY <1>1, FirstRemains
<1>3. s \in Steps /\ mem[p].steps[s] = "not_started" /\ starts[s] = 0
  <2>1. Startable(mem[p])
    BY <1>1, Onward DEF Sending
  <2>2. s \in Steps /\ mem[p].steps[s] = "not_started"
    BY <2>1 DEF Startable, Remaining
  <2>. QED  BY <1>1, <2>2, Inside, Here DEF Sound
<1>4. PICK m \in Snapshots :
        m = [mem[p] EXCEPT !.steps[s] = "running", !.status = "running"]
  BY <1>3, Here DEF Snapshots, Statuses, StepStates
<1>5. /\ m.status = "running" /\ m.refs = mem[p].refs /\ m.steps[s] = "running"
      /\ \A t \in Steps \ {s} : m.steps[t] = mem[p].steps[t]
  BY <1>3, <1>4, Here DEF Snapshots
<1>6. Remaining(m) = Remaining(mem[p])
  BY <1>2, <1>5 DEF Remaining, Over
<1>7. refused \/ Supplied(m)
  BY <1>1, <1>6, Onward DEF Supplied
<1>8. UnderWay("started", m)
  BY <1>1, <1>3, <1>5, <1>6, Onward DEF UnderWay, Startable, Remaining, Sending, Approving
<1>9. Sound(m)
  BY <1>1, <1>3, <1>5, <1>7, Inside, Here DEF Sound
<1>10. Placed("started", m, m)
  BY <1>5, <1>7, <1>8 DEF Placed, Creating, Approving, Sending, Outside
<1>11. SaveAt(p, m, "started") /\ UNCHANGED <<storeVars, plan, Elsewhere>>
  BY <1>2, <1>4 DEF StartStep
<1>. QED  BY <1>1, <1>9, <1>10, <1>11, Inside, QuietSave

\* The step under way is the one the code finds running.
LEMMA OneRunning ==
  ASSUME Core, NEW p \in Procs, pc[p] \in Sending
  PROVE  /\ Running(mem[p]) \in Steps /\ mem[p].steps[Running(mem[p])] = "running"
         /\ \A t \in Remaining(mem[p]) \ {Running(mem[p])} : mem[p].steps[t] = "not_started"
         /\ pc[p] = "started" => starts[Running(mem[p])] = 0
         /\ mem[p].status = "running" /\ pc[p] \notin Outside
<1>1. UnderWay(pc[p], mem[p]) /\ mem[p].status = "running"
  BY Here DEF Placed
<1>2. PICK s \in Steps :
        /\ mem[p].steps[s] = "running"
        /\ \A t \in Remaining(mem[p]) \ {s} : mem[p].steps[t] = "not_started"
        /\ pc[p] = "started" => starts[s] = 0
  BY <1>1 DEF UnderWay
<1>3. \A t \in Steps : mem[p].steps[t] = "running" => t = s
  BY <1>2 DEF Remaining, Over
<1>4. Running(mem[p]) = s
  BY <1>2, <1>3 DEF Running
<1>. QED  BY <1>1, <1>2, <1>4 DEF Sending, Outside

LEMMA ExecuteKeeps == ASSUME Core, NEW p \in Procs, Execute(p) PROVE Core'
<1>1. pc[p] = "started" /\ pc[p] \in Sending
  BY DEF Execute, Sending
<1>2. PICK s \in Steps : s = Running(mem[p])
  BY <1>1, OneRunning
<1>3. PICK m \in Snapshots : m = mem[p]
  BY Here
<1>4. PICK d \in Snapshots : d = disk
  BY Here
<1>5. /\ m.steps[s] = "running" /\ starts[s] = 0 /\ m.status = "running"
      /\ \A t \in Remaining(m) \ {s} : m.steps[t] = "not_started"
  BY <1>1, <1>2, <1>3, OneRunning
<1>6. m.steps = d.steps /\ m.refs = d.refs /\ d.status # "none"
  BY <1>1, <1>3, <1>4, OneRunning, Inside
<1>7. /\ starts' \in [Steps -> Nat] /\ \A t \in Steps \ {s} : starts'[t] = starts[t]
      /\ starts'[s] = 1
  BY <1>2, <1>5 DEF Execute, Core, CoreTyped
<1>8. UNCHANGED <<pins, content, forced, refused, struck>>
  BY DEF Execute, storeVars
<1>9. \A x : Supplied(x) <=> Supplied(x)'
  BY <1>8 DEF Supplied, Pinned, Retained
<1>10. NoExecPins <=> NoExecPins'
  BY <1>8 DEF NoExecPins, Whole
<1>11. Sound(d)
  BY <1>4, Here
<1>12. Sound(d)'
  BY <1>5, <1>6, <1>7, <1>8, <1>9, <1>10, <1>11 DEF Sound
<1>13. (refused \/ Supplied(m))
  BY <1>1, <1>3, Onward
<1>14. (refused \/ Supplied(m))'
  BY <1>8, <1>9, <1>13
<1>15. UnderWay("executing", m)'
  BY <1>5 DEF UnderWay
<1>16. Placed("executing", m, d)' /\ "executing" \in RunPlaces
  BY <1>5, <1>6, <1>14, <1>15 DEF Placed, Creating, Approving, Sending, Outside, RunPlaces
<1>17. StartedOnce'
  BY <1>7 DEF Core, StartedOnce
<1>18. PinsOfInputs' /\ RestTyped'
  BY DEF Execute, Core, CoreTyped, RestTyped, StoreTypeOK, PinsOfInputs, Whole, storeVars
<1>19. /\ pc' = [pc EXCEPT ![p] = "executing"] /\ mem' = [mem EXCEPT ![p] = m]
       /\ disk' = d /\ durable' = d
  BY <1>3, <1>4, Here, MemorySame DEF Execute, Goto, SavedVars
<1>20. Alone(p)
  BY <1>1, OneRunning, Inside
<1>. QED  BY <1>7, <1>12, <1>16, <1>17, <1>18, <1>19, <1>20, Moved

\* What is recorded of the step under way, and the place it leads to.
LEMMA RecordedSound ==
  ASSUME Core, NEW p \in Procs, pc[p] \in Sending, NEW m \in Snapshots,
         m.refs = mem[p].refs, m.status \notin {"none", "completed"},
         NEW st \in StepStates, st # "not_started" \/ pc[p] = "started",
         m.steps = [mem[p].steps EXCEPT ![Running(mem[p])] = st]
  PROVE  /\ Sound(m) /\ (refused \/ Supplied(m))
         /\ Over(st) => Startable(m)
<1>1. PICK s \in Steps : s = Running(mem[p])
  BY OneRunning
<1>2. /\ mem[p].steps[s] = "running" /\ pc[p] = "started" => starts[s] = 0
      /\ \A t \in Remaining(mem[p]) \ {s} : mem[p].steps[t] = "not_started"
  BY <1>1, OneRunning
<1>3. m.steps[s] = st /\ \A t \in Steps \ {s} : m.steps[t] = mem[p].steps[t]
  BY <1>1, Here DEF Snapshots
<1>4. Remaining(m) \subseteq Remaining(mem[p]) /\ (Over(st) => s \notin Remaining(m))
  <2>1. s \in Remaining(mem[p])
    BY <1>1, OneRunning DEF Remaining, Over
  <2>. QED  BY <1>3, <2>1 DEF Remaining
<1>5. refused \/ Supplied(m)
  BY <1>4, Onward DEF Supplied, Inputs
<1>6. Over(st) => Startable(m)
  BY <1>2, <1>3, <1>4 DEF Startable, Remaining
<1>7. \A t \in Steps : m.steps[t] = "not_started" => starts[t] = 0
  BY <1>1, <1>2, <1>3, OneRunning, Inside, Here DEF Sound
<1>8. m.refs = Inputs(Steps) \/ NoExecPins
  BY OneRunning, Inside, Here DEF Sound
<1>9. Sound(m)
  BY <1>5, <1>7, <1>8 DEF Sound
<1>. QED  BY <1>5, <1>6, <1>9

\* Where the owner goes from the row of a step.
NextPlace(m, s) == CASE Over(m.steps[s]) -> "run"
                     [] m.status \in {"failed", "denied"} -> "release"
                     [] OTHER -> "idle"

LEMMA RecordKeeps ==
  ASSUME Core, NEW p \in Procs, pc[p] \in Sending, NEW m \in Snapshots,
         m.refs = mem[p].refs, m.status \notin {"none", "completed"},
         NEW st \in StepStates, st # "not_started" \/ pc[p] = "started",
         m.steps = [mem[p].steps EXCEPT ![Running(mem[p])] = st],
         NEW place \in {"run", "release", "idle"}, SaveAt(p, m, place),
         place = "run" => Over(st), place = "release" => m.status \in {"failed", "denied"},
         UNCHANGED <<storeVars, plan, Elsewhere>>
  PROVE  Core'
<1>1. Sound(m) /\ (refused \/ Supplied(m)) /\ (Over(st) => Startable(m))
  BY RecordedSound
<1>2. place = "idle" \/ Placed(place, m, m)
  BY <1>1 DEF Placed, Creating, Approving, Sending, Outside, Resumable
<1>3. place \in RunPlaces /\ Alone(p)
  BY OneRunning, Inside DEF RunPlaces, Outside
<1>. QED  BY <1>1, <1>2, <1>3, QuietSave

LEMMA RecordResultKeeps == ASSUME Core, NEW p \in Procs, RecordResult(p) PROVE Core'
<1>1. pc[p] \in Sending /\ UNCHANGED <<storeVars, plan, Elsewhere>>
  BY DEF RecordResult, Sending
<1>2. PICK s \in Steps : s = Running(mem[p])
  BY <1>1, OneRunning
<1>3. PICK m0 \in Snapshots : m0 = mem[p]
  BY Here
<1>4. m0.status = "running"
  BY <1>1, <1>3, OneRunning
<1>5. PICK row \in {"completed", "failed", "unknown", "approval_pending", "denied"} :
        /\ row \in {"approval_pending", "denied"} => pc[p] = "started"
        /\ SaveAt(p, Recorded(m0, s, row), NextPlace(Recorded(m0, s, row), s))
  BY <1>2, <1>3 DEF RecordResult, Record, NextPlace
<1>6. ASSUME NEW st \in StepStates, NEW status \in Statuses \ {"none", "completed"},
             Recorded(m0, s, row) = [m0 EXCEPT !.steps[s] = st, !.status = status],
             st # "not_started" \/ pc[p] = "started"
      PROVE  Core'
  <2>1. PICK m \in Snapshots : m = [m0 EXCEPT !.steps[s] = st, !.status = status]
    BY DEF Snapshots
  <2>2. /\ m.refs = m0.refs /\ m.status = status
        /\ m.steps = [m0.steps EXCEPT ![s] = st] /\ m.steps[s] = st
    BY <2>1 DEF Snapshots
  <2>3. PICK place \in {"run", "release", "idle"} :
          /\ place = NextPlace(m, s)
          /\ place = "run" => Over(st)
          /\ place = "release" => status \in {"failed", "denied"}
    BY <2>2 DEF NextPlace
  <2>4. SaveAt(p, m, place)
    BY <1>5, <1>6, <2>1, <2>3
  <2>. QED  BY <1>1, <1>2, <1>3, <1>6, <2>2, <2>3, <2>4, RecordKeeps
<1>7. CASE row = "completed"
  <2>1. Recorded(m0, s, row) = [m0 EXCEPT !.steps[s] = "completed", !.status = "running"]
    BY <1>4, <1>7 DEF Recorded, Snapshots
  <2>. QED  BY <1>6, <2>1 DEF Statuses, StepStates
<1>8. CASE row = "failed"
  <2>1. PICK st \in {"failed_continued", "failed"} :
          Recorded(m0, s, row) = [m0 EXCEPT !.steps[s] = st, !.status = "failed"]
    BY <1>8 DEF Recorded
  <2>. QED  BY <1>6, <2>1 DEF Statuses, StepStates
<1>9. CASE row = "unknown"
  <2>1. Recorded(m0, s, row) = [m0 EXCEPT !.steps[s] = "unknown", !.status = "unknown"]
    BY <1>9 DEF Recorded
  <2>. QED  BY <1>6, <2>1 DEF Statuses, StepStates
<1>10. CASE row = "approval_pending"
  <2>1. Recorded(m0, s, row) = [m0 EXCEPT !.steps[s] = "not_started", !.status = "pending"]
    BY <1>10 DEF Recorded
  <2>. QED  BY <1>5, <1>6, <1>10, <2>1 DEF Statuses, StepStates
<1>11. CASE row = "denied"
  <2>1. Recorded(m0, s, row) = [m0 EXCEPT !.steps[s] = "not_started", !.status = "denied"]
    BY <1>11 DEF Recorded
  <2>. QED  BY <1>5, <1>6, <1>11, <2>1 DEF Statuses, StepStates
<1>. QED  BY <1>7, <1>8, <1>9, <1>10, <1>11

-----------------------------------------------------------------------------
(* Giving the pins back, and the end of a process *)

LEMMA ReleasePinKeeps ==
  ASSUME Core, NEW p \in Procs, NEW o \in Objects, ReleasePin(p, o) PROVE Core'
<1>1. pc[p] = "release" /\ pc[p] \notin Outside /\ Alone(p)
  BY OwnerAlone DEF ReleasePin, Outside
<1>2. PICK m \in Snapshots : m = mem[p]
  BY Here
<1>3. PICK d \in Snapshots : d = disk
  BY Here
<1>4. Placed("release", m, d) /\ Sound(d) /\ Remaining(m) = Remaining(d)
  BY <1>1, <1>2, <1>3, Here, Inside
<1>5. /\ StoreTypeOK' /\ PinsOfInputs'
      /\ \A x \in Objects : pins'[x] \subseteq pins[x]
  BY UnpinTyped DEF ReleasePin, Elsewhere, Core, PinsOfInputs, Whole
<1>6. starts' = starts /\ refused' = refused /\ forced' = forced /\ struck' = struck
  BY DEF ReleasePin, Elsewhere
<1>7. NoExecPins => NoExecPins'
  BY <1>5, <1>6 DEF NoExecPins, Whole
<1>8. Remaining(d) = {} => Supplied(d)'
  BY DEF Supplied, Inputs
<1>9. Remaining(m) = {} \/ refused \/ ~Resumable(d)
  BY <1>4 DEF Placed
<1>10. Sound(d)'
  BY <1>4, <1>6, <1>7, <1>8, <1>9 DEF Sound
<1>11. Placed("release", m, d)'
  BY <1>4, <1>6 DEF Placed, Creating, Approving, Sending, Outside
<1>12. RestTyped' /\ StartedOnce' /\ starts' \in [Steps -> Nat]
  BY <1>5 DEF ReleasePin, Core, CoreTyped, RestTyped, StartedOnce, Elsewhere
<1>13. /\ pc' = [pc EXCEPT ![p] = "release"] /\ mem' = [mem EXCEPT ![p] = m]
       /\ disk' = d /\ durable' = d /\ "release" \in RunPlaces
  BY <1>1, <1>2, <1>3, Here, MemorySame DEF ReleasePin, SavedVars, RunPlaces
<1>. QED  BY <1>1, <1>5, <1>10, <1>11, <1>12, <1>13, Moved

LEMMA ReleasedKeeps == ASSUME Core, NEW p \in Procs, Released(p) PROVE Core'
<1>1. pc[p] = "release" /\ pc[p] \notin Outside /\ "idle" \in RunPlaces
  BY DEF Released, Outside, RunPlaces
<1>2. PICK m \in Snapshots : m = [mem[p] EXCEPT !.refs = {}]
  BY Here DEF Snapshots
<1>3. m.steps = mem[p].steps /\ m.status = mem[p].status /\ m.refs = {}
  BY <1>2, Here DEF Snapshots
<1>4. m.status \in {"completed", "failed", "denied"}
  BY <1>1, <1>3, Here DEF Placed
<1>5. NoExecPins
  <2>1. mem[p].refs = Inputs(Steps) \/ NoExecPins
    BY <1>1, Inside, Here DEF Sound
  <2>. QED  BY <2>1 DEF Released, NoExecPins, Core, PinsOfInputs, Whole
<1>6. Sound(m)
  BY <1>1, <1>3, <1>4, <1>5, Inside, Here DEF Sound, Resumable
<1>7. SaveAt(p, m, "idle") /\ UNCHANGED <<storeVars, plan, Elsewhere>>
  BY <1>2 DEF Released
<1>. QED  BY <1>1, <1>6, <1>7, Inside, QuietSave

LEMMA DieKeeps == ASSUME Core, NEW p \in Procs, Die(p) PROVE Core'
<1>1. Tame
  BY QuietIsTame DEF Die, Elsewhere
<1>2. RestTyped'
  BY DEF Die, Death, Elsewhere, Core, CoreTyped, RestTyped, StoreTypeOK
<1>. QED  BY <1>1, <1>2, OwnerAlone, Leaves DEF Die

LEMMA MachineCrashKeeps == ASSUME Core, MachineCrash PROVE Core'
<1>1. Tame
  BY QuietIsTame DEF MachineCrash, Elsewhere
<1>2. RestTyped'
  BY DEF MachineCrash, Death, Elsewhere, Core, CoreTyped, RestTyped, StoreTypeOK
<1>3. disk' = disk /\ durable' = disk
  BY DEF MachineCrash, Core
<1>4. pc' \in [Procs -> RunPlaces] /\ mem' \in [Procs -> Snapshots]
  BY NoRunTyped DEF MachineCrash, RunPlaces, Outside
<1>5. CoreTyped' /\ PinsOfInputs' /\ StartedOnce'
  BY <1>1, <1>2, <1>3, <1>4 DEF Core, CoreTyped, RestTyped, Tame, PinsOfInputs, Whole, StartedOnce
<1>6. OneOwner'
  BY DEF MachineCrash, OneOwner
<1>7. Sound(disk)'
  BY <1>1, <1>3, TameSound DEF Core
<1>8. AllPlaced'
  <2>1. ASSUME NEW q \in Procs PROVE Placed(pc[q], mem[q], disk)'
    BY IdlePlacedNext DEF MachineCrash
  <2>. QED  BY <2>1 DEF AllPlaced
<1>. QED  BY <1>3, <1>5, <1>6, <1>7, <1>8 DEF Core

\* A start of the machine changes only files of payloads that are struck then.
LEMMA BootStore ==
  ASSUME Core, unsynced \in Unsynced, Boot
  PROVE  /\ StoreTypeOK' /\ unsynced' \in Unsynced
         /\ struck \subseteq struck' /\ struck' \subseteq Objects
         /\ \A o \in Objects \ struck' :
              /\ o \in content => o \in content'
              /\ Exec \in pins[o] <=> Exec \in pins'[o]
<1>1. StoreTypeOK
  BY DEF Core, CoreTyped
<1>2. content' \subseteq Objects
  BY <1>1 DEF Boot, PowerLoss, StoreTypeOK, Unsynced
<1>3. pins' \in [Objects -> SUBSET Owners]
  BY DEF Boot, PowerLoss
<1>4. meta' \in [Objects -> Meta]
  <2>1. ASSUME NEW o \in Objects PROVE MayHold(o) \subseteq Meta
    <3>1. NoMeta \in Meta /\ TornMeta \in Meta /\ [state |-> "whole", expireAt |-> 0] \in Meta
      BY DEF NoMeta, TornMeta, Meta
    <3>2. ASSUME NEW u \in 0..now, NEW x \in Retentions \ {0}
          PROVE  [state |-> "whole", expireAt |-> u + x] \in Meta
      BY <1>1, StoreAssumption DEF Meta, StoreTypeOK
    <3>3. meta[o] \in Meta
      BY <1>1 DEF StoreTypeOK
    <3>. QED  BY <3>1, <3>2, <3>3 DEF MayHold
  <2>2. /\ meta' \in [Objects -> UNION {MayHold(o) : o \in Objects}]
        /\ \A o \in Objects : meta'[o] \in MayHold(o)
    BY DEF Boot, PowerLoss
  <2>. QED  BY <2>1, <2>2
<1>5. litter' \in Nat
  <2>1. IsFiniteSet(content \ content')
    BY <1>1, StoreAssumption, FS_Subset DEF StoreTypeOK
  <2>2. Cardinality(content \ content') \in Nat
    BY <2>1, FS_CardinalityType
  <2>. QED  BY <1>1, <2>2 DEF Boot, PowerLoss, StoreTypeOK
<1>6. now' \in Nat /\ deaths' \in Nat /\ unsynced' \in Unsynced
  BY <1>1 DEF Boot, PowerLoss, StoreTypeOK, AllSynced, Unsynced
<1>7. struck' = struck \cup {o \in Objects : \/ o \in content \ content'
                                             \/ Exec \in Changed(pins[o], pins'[o])}
  BY DEF Boot
<1>8. struck \subseteq struck' /\ struck' \subseteq Objects
  BY <1>7 DEF Core, CoreTyped
<1>9. ASSUME NEW o \in Objects \ struck'
      PROVE  (o \in content => o \in content') /\ (Exec \in pins[o] <=> Exec \in pins'[o])
  BY <1>7 DEF Changed
<1>. QED  BY <1>2, <1>3, <1>4, <1>5, <1>6, <1>8, <1>9 DEF StoreTypeOK

LEMMA BootKeeps ==
  ASSUME Core, unsynced \in Unsynced, Boot PROVE Core' /\ unsynced' \in Unsynced
<1>1. UNCHANGED <<pc, mem, disk, durable>> /\ UNCHANGED <<forced, starts, refused, look>>
  BY DEF Boot, SavedVars
<1>2. Tame
  BY <1>1, BootStore DEF Tame, Pinned, Retained
<1>3. plan' \in [Plans -> PlanStates] /\ down' \in BOOLEAN
  BY DEF Boot
<1>4. RestTyped'
  BY <1>1, <1>3, BootStore DEF Core, CoreTyped, RestTyped
<1>. QED  BY <1>1, <1>2, <1>4, BootStore, TamelyStayed

LEMMA TrackedTyped ==
  ASSUME unsynced \in Unsynced, StoreTypeOK, StoreTypeOK', Tracked PROVE unsynced' \in Unsynced
<1>1. CASE deaths' >= MaxDeaths
  BY <1>1 DEF Tracked, AllSynced, Unsynced
<1>2. CASE ~(deaths' >= MaxDeaths)
  <2> DEFINE D == (unsynced.data \cup Changed(content, content')) \ DataSynced
             M == unsynced.meta \cup {o \in Objects : meta'[o] # meta[o]}
             P == [o \in Objects |-> unsynced.pins[o] \cup Changed(pins[o], pins'[o])]
  <2>1. unsynced' = [data |-> D, meta |-> M, pins |-> P]
    BY <1>2 DEF Tracked
  <2>2. D \subseteq Objects /\ M \subseteq Objects
    BY DEF Unsynced, StoreTypeOK, Changed
  <2>3. P \in [Objects -> SUBSET Owners]
    BY DEF Unsynced, StoreTypeOK, Changed
  <2> HIDE DEF D, M, P
  <2>. QED  BY <2>1, <2>2, <2>3 DEF Unsynced
<1>. QED  BY <1>1, <1>2

-----------------------------------------------------------------------------
(* The surroundings *)

LEMMA LooksKeep == ASSUME Core, ReadStatus \/ TellStatus PROVE Core'
<1>1. /\ UNCHANGED <<pc, mem, disk, durable, pins, content, forced, struck, starts, refused>>
      /\ RestTyped'
  BY DEF ReadStatus, TellStatus, SavedVars, storeVars, Core, CoreTyped, RestTyped, StoreTypeOK
<1>. QED  BY <1>1, QuietIsTame, TamelyStayed

LEMMA PlanChangesKeeps == ASSUME Core, NEW pl \in Plans, PlanChanges(pl) PROVE Core'
<1>1. UNCHANGED <<pc, mem, disk, durable>> /\ UNCHANGED <<pins, content, forced, struck, starts, refused>>
  BY DEF PlanChanges, SavedVars, storeVars, Elsewhere
<1>2. plan' \in [Plans -> PlanStates]
  BY DEF PlanChanges, Core, CoreTyped, PlanStates
<1>3. RestTyped'
  BY <1>2 DEF PlanChanges, storeVars, Elsewhere, Core, CoreTyped, RestTyped, StoreTypeOK
<1>. QED  BY <1>1, <1>3, QuietIsTame, TamelyStayed

LEMMA UnpinPlanKeeps ==
  ASSUME Core, NEW pl \in Plans, NEW o \in Objects, UnpinPlan(pl, o) PROVE Core'
<1>1. UNCHANGED <<pc, mem, disk, durable>> /\ UNCHANGED <<forced, struck, starts, refused>>
  BY DEF UnpinPlan, SavedVars, Elsewhere
<1>2. /\ StoreTypeOK' /\ content' = content
      /\ \A x \in Objects : pins'[x] \subseteq pins[x] /\ (Exec \in pins[x] => Exec \in pins'[x])
  BY UnpinTyped, NamesAssumption DEF UnpinPlan
<1>3. Tame
  BY <1>1, <1>2 DEF Tame, Pinned, Retained
<1>4. RestTyped'
  BY <1>2 DEF UnpinPlan, Elsewhere, Core, CoreTyped, RestTyped
<1>. QED  BY <1>1, <1>3, <1>4, TamelyStayed

\* What the store does for others keeps what is pinned.
LEMMA StoreSteps ==
  ASSUME Core, StoreNext
  PROVE  /\ StoreTypeOK'
         /\ \A o \in Objects : /\ Pinned(o) => Pinned(o)'
                               /\ Exec \in pins'[o] => Exec \in pins[o]
<1>. USE DEF Core, CoreTyped, StoreTypeOK, Pinned, Retained
<1>1. NoMeta \in Meta /\ TornMeta \in Meta
  BY DEF NoMeta, TornMeta, Meta
<1>2. ASSUME NEW o \in Objects, NEW r \in Retentions, Put(o, r)
      PROVE  /\ StoreTypeOK' /\ content \subseteq content' /\ pins' = pins
  <2>1. Kept(r) \in Meta
    BY StoreAssumption DEF Kept, Meta
  <2>. QED  BY <1>2, <2>1 DEF Put
<1>3. ASSUME NEW o \in Objects, PutDies(o)
      PROVE  StoreTypeOK' /\ content \subseteq content' /\ pins' = pins
  <2>1. meta' \in [Objects -> Meta]
    BY <1>1, <1>3 DEF PutDies
  <2>2. litter' \in Nat /\ deaths' \in Nat
    BY <1>3 DEF PutDies, Death
  <2>3. content' \subseteq Objects /\ content \subseteq content' /\ pins' = pins /\ now' = now
    BY <1>3 DEF PutDies
  <2>. QED  BY <2>1, <2>2, <2>3
<1>4. ASSUME NEW o \in Objects, RemoveObject(o, FALSE) \/ RemoveDies(o, FALSE)
      PROVE  /\ StoreTypeOK' /\ content' = content \ {o} /\ pins[o] = {}
             /\ \A x \in Objects : pins'[x] = pins[x]
  <2>1. meta' \in [Objects -> Meta]
    BY <1>1, <1>4 DEF RemoveObject, RemoveDies
  <2>2. CASE RemoveObject(o, FALSE)
    BY <2>1, <2>2 DEF RemoveObject, Removable
  <2>3. CASE RemoveDies(o, FALSE)
    BY <2>1, <2>3 DEF RemoveDies, Removable, Death
  <2>. QED  BY <1>4, <2>2, <2>3
<1>5. ASSUME GC
      PROVE  /\ StoreTypeOK' /\ pins' = pins
             /\ \A o \in content : pins[o] # {} => o \in content'
  BY <1>1, <1>5 DEF GC, Collectable, Removable
<1>6. CASE Tick
  BY <1>6 DEF Tick
<1>. QED  BY <1>2, <1>3, <1>4, <1>5, <1>6 DEF StoreNext

LEMMA PayloadsKeeps == ASSUME Core, Payloads PROVE Core'
<1>1. UNCHANGED <<pc, mem, disk, durable>> /\ UNCHANGED <<plan, look, forced, struck, down, starts, refused>>
  BY DEF Payloads, SavedVars, Elsewhere
<1>2. Tame /\ RestTyped'
  BY <1>1, StoreSteps DEF Payloads, Tame, Core, CoreTyped, RestTyped
<1>. QED  BY <1>1, <1>2, TamelyStayed

LEMMA PayloadForcedKeeps == ASSUME Core, NEW o \in Objects, PayloadForced(o) PROVE Core'
<1>1. /\ UNCHANGED <<pc, mem, disk, durable>> /\ UNCHANGED <<plan, look, struck, down, starts, refused>>
      /\ forced' = forced \cup {o}
  BY DEF PayloadForced, SavedVars
<1>2. /\ StoreTypeOK' /\ content' = content \ {o}
      /\ \A x \in Objects : pins'[x] \subseteq pins[x] /\ (x # o => pins'[x] = pins[x])
  <2>1. NoMeta \in Meta
    BY DEF NoMeta, Meta
  <2>2. meta' \in [Objects -> Meta]
    BY <2>1 DEF PayloadForced, ForcedRemoval, RemoveObject, RemoveDies, Core, CoreTyped, StoreTypeOK
  <2>3. CASE RemoveObject(o, TRUE)
    BY <2>2, <2>3 DEF RemoveObject, Core, CoreTyped, StoreTypeOK
  <2>4. CASE RemoveDies(o, TRUE)
    BY <2>2, <2>4 DEF RemoveDies, Death, Core, CoreTyped, StoreTypeOK
  <2>. QED  BY <2>3, <2>4 DEF PayloadForced, ForcedRemoval
<1>3. Tame
  BY <1>1, <1>2 DEF Tame, Pinned, Retained
<1>4. RestTyped'
  BY <1>1, <1>2 DEF Core, CoreTyped, RestTyped
<1>. QED  BY <1>1, <1>3, <1>4, TamelyStayed

-----------------------------------------------------------------------------
(* The theorems *)

LEMMA Initially == Init => IInv
<1> SUFFICES ASSUME Init PROVE IInv
  OBVIOUS
<1>1. NoMeta \in Meta /\ AllSynced \in Unsynced
  BY DEF NoMeta, Meta, AllSynced, Unsynced
<1>2. CoreTyped
  BY <1>1, NoRunTyped DEF Init, StoreInit, CoreTyped, StoreTypeOK, RunPlaces, Outside, PlanStates
<1>3. Sound(disk)
  BY NoRunTyped DEF Init, StoreInit, Sound, NoRun, NoExecPins, Whole
<1>4. AllPlaced
  BY IdlePlaced DEF Init, AllPlaced
<1>5. PinsOfInputs
  BY DEF Init, StoreInit, PinsOfInputs, Whole
<1>6. durable = disk /\ OneOwner /\ StartedOnce
  BY DEF Init, OneOwner, StartedOnce
<1>. QED  BY <1>1, <1>2, <1>3, <1>4, <1>5, <1>6 DEF Init, StoreInit, IInv, Core

LEMMA ProcessKeeps == ASSUME Core, NEW p \in Procs, Process(p) PROVE Core'
BY BeginCreateKeeps, CreateSnapshotKeeps, PrepareFailsKeeps, AbandonedKeeps, PinInputKeeps,
   AbandonPinKeeps, ReleasePinKeeps, ResumeKeeps, RefuseKeeps, NothingLeftKeeps, StepsLeftKeeps,
   MarkUnknownKeeps, DeniedKeeps, ConsultExpiredKeeps, ConsultPendingKeeps,
   ConsultApprovedKeeps, ConsultGoneKeeps, ConsultSpentKeeps, SubmitAllowedKeeps,
   SubmitDeniedKeeps, WaitKeeps, SubmitPendingKeeps, SubmitFailsKeeps, InterruptedKeeps,
   InputGoneKeeps, StartStepKeeps, ExecuteKeeps, RecordResultKeeps, EndRunKeeps,
   ReleasedKeeps, DieKeeps
   DEF Process

LEMMA SteadyKeeps == ASSUME Core, Steady PROVE Core'
BY ProcessKeeps, LooksKeep, PayloadsKeeps, PayloadForcedKeeps, PlanChangesKeeps,
   UnpinPlanKeeps DEF Steady

LEMMA Preserved == IInv /\ [Next]_vars => IInv'
<1> SUFFICES ASSUME IInv, [Next]_vars PROVE IInv'
  OBVIOUS
<1>1. Core /\ unsynced \in Unsynced
  BY DEF IInv
<1>2. CASE UNCHANGED vars
  <2>1. /\ UNCHANGED <<pc, mem, disk, durable, pins, content, forced, struck, starts, refused>>
        /\ RestTyped' /\ unsynced' = unsynced
    BY <1>1, <1>2 DEF vars, storeVars, Core, CoreTyped, RestTyped, StoreTypeOK
  <2>. QED  BY <1>1, <2>1, QuietIsTame, TamelyStayed DEF IInv
<1>3. CASE ~down /\ Steady /\ Tracked
  <2>1. Core'
    BY <1>1, <1>3, SteadyKeeps
  <2>2. StoreTypeOK /\ StoreTypeOK'
    BY <1>1, <2>1 DEF Core, CoreTyped
  <2>. QED  BY <1>1, <1>3, <2>1, <2>2, TrackedTyped DEF IInv
<1>4. CASE MachineCrash
  BY <1>1, <1>4, MachineCrashKeeps DEF IInv, MachineCrash
<1>5. CASE Boot
  BY <1>1, <1>5, BootKeeps DEF IInv
<1>. QED  BY <1>2, <1>3, <1>4, <1>5 DEF Next

\* The strengthening holds throughout: who owns the execution, what each
\* place of the owner relies on, and which payloads are pinned.
THEOREM Inductive == Spec => []IInv
BY Initially, Preserved, PTL DEF Spec

\* Every variable keeps its type.
THEOREM TypeCorrect == Spec => []TypeOK
<1>1. IInv => TypeOK
  BY DEF IInv, Core, CoreTyped, TypeOK
<1>. QED  BY <1>1, Inductive, PTL

\* The command of a step starts at most once, for any number of processes,
\* steps, deaths and losses of power (plan_run.go, executeSavedPlan).
THEOREM StepsStartOnce == Spec => []StartedOnce
<1>1. IInv => StartedOnce
  BY DEF IInv, Core
<1>. QED  BY <1>1, Inductive, PTL

\* The payloads of the steps to come stay pinned and there, and a completed
\* execution leaves no pin; but for a payload whose files a loss of power changed
\* (payload/store.go; plan_run.go, releaseExecutionPayloadPins).
THEOREM PinsAsNeeded == Spec => []PinsWhileNeeded
<1>1. IInv => PinsWhileNeeded
  BY DEF IInv, Core, Sound, Supplied, Pinned, NoExecPins, Whole, PinsWhileNeeded, InputsKept,
         CompletedUnpinned
<1>. QED  BY <1>1, Inductive, PTL
=============================================================================
