---------------------------- MODULE AccessProofs ----------------------------
(***************************************************************************)
(* Proofs about who may act on the gateway: the devices whose runs go on   *)
(* (RunStanding), the operators who sign in (OperatorSignIn) and the       *)
(* clients that hold tokens (TokenGrants).                                 *)
(*                                                                         *)
(* A pass over the live runs works on a snapshot, an older clock and       *)
(* answers it shares between runs, while operators change the store and    *)
(* runs end.  It stops no run wrongly, since what it read was lost to      *)
(* every run of its snapshot at that moment; and it misses none, since     *)
(* what was lost for good before the snapshot is there at every reading.   *)
(***************************************************************************)
EXTENDS TokenGrants, RunStanding, OperatorSignIn, FiniteSetTheorems, WellFoundedInduction, TLAPS

RunRecords ==
  [pc : {"none", "known", "admitted", "live", "returned", "closing", "done", "gone"},
   device : RunDevices \cup {"none"}, identities : SUBSET Identities, cancelled : BOOLEAN,
   reason : Reasons \cup {"none"}, final : {"none", "error", "outcome"}]

PassRecords ==
  [pc : {"rest", "snapshot", "pick", "device", "window", "identities"}, at : Nat,
   todo : SUBSET Runs, run : Runs \cup {"none"}, names : SUBSET Identities,
   lost : Reasons \cup {"none", "unknown"},
   devices : [RunDevices -> Reasons \cup {"none", "unknown"}],
   identities : [Identities -> {"unknown", "active", "disabled"}],
   doomed : SUBSET Runs, missed : SUBSET Runs]

\* Every variable has its type.
TypeOK ==
  /\ revokedOnes \subseteq RunDevices /\ disabled \subseteq Identities
  /\ window \in [RunDevices -> [until : Nat, deactivated : BOOLEAN]]
  /\ run \in [Runs -> RunRecords]
  /\ pass \in PassRecords
  /\ time \in Nat /\ errors \in Nat
  /\ lostEver \in [Runs -> SUBSET Reasons]

LostNow(k) == Lost(run[k], revokedOnes, window, disabled, time)

\* A request has a device; nothing is stopped before it is published, and what
\* a published run has lost by now is remembered.
RunsValid ==
  \A k \in Runs :
    /\ run[k].pc # "none" => run[k].device \in RunDevices
    /\ run[k].pc \in {"none", "known", "admitted"} => run[k].reason = "none"
    /\ run[k].pc \in Running => LostNow(k) \subseteq lostEver[k]

Published(k) == run[k].pc \in Listed \cup {"gone"}

\* The parts of a pass belong together.
PassValid ==
  /\ pass.pc = "rest" => pass = Resting
  /\ pass.pc = "snapshot" =>
       pass.todo = {} /\ pass.doomed = {} /\ pass.devices = Unknown /\ pass.identities = Unread
  /\ pass.at <= time
  /\ \A k \in pass.todo \cup pass.doomed : Published(k)
  /\ pass.pc \in {"device", "window", "identities"} => pass.run \in pass.todo
  /\ pass.pc \in {"device", "window"} => pass.names = run[pass.run].identities
  /\ pass.pc = "identities" => pass.names \subseteq run[pass.run].identities

\* An answer x is true of run k, or the run is past being stopped.
Just(x, k) == x \in Reasons /\ run[k].pc \in Running => x \in lostEver[k]

\* Every answer is true of every run that may still be judged by it.
AnswersTrue ==
  /\ \A k \in pass.todo : Just(pass.devices[run[k].device], k)
  /\ \A i \in Identities : pass.identities[i] = "disabled" => i \in disabled
  /\ pass.pc = "identities" => pass.lost # "unknown" /\ Just(pass.lost, pass.run)

\* A disabled identity that the pass has not found active.
Telling(i) == i \in disabled /\ pass.identities[i] # "active"

\* What was lost for good before the snapshot will still be found.
WillFind(k) ==
  \/ /\ run[k].device \in revokedOnes /\ pass.devices[run[k].device] \in {"unknown", "revoked"}
     /\ ~(pass.pc = "window" /\ run[pass.run].device = run[k].device)
  \/ \E i \in run[k].identities : Telling(i)

DoomFound ==
  \A k \in pass.doomed :
    /\ k \in pass.todo => WillFind(k)
    /\ pass.pc = "identities" /\ k = pass.run /\ k \notin pass.missed =>
         pass.lost # "none" \/ \E i \in pass.names : Telling(i)

IInv ==
  /\ TypeOK /\ RunsValid /\ PassValid /\ AnswersTrue /\ DoomFound
  /\ StopJustified /\ PassStopsTheLost
-----------------------------------------------------------------------------
(* Operators, time and the runs themselves leave the pass alone *)

LEMMA RunTyped ==
  ASSUME IInv, NEW k \in Runs
  PROVE  run[k] \in RunRecords /\ (run[k].pc # "none" => run[k].device \in RunDevices)
BY DEF IInv, TypeOK, RunsValid

LEMMA RestValid == Resting \in PassRecords
BY DEF Resting, PassRecords, Unknown, Unread

\* Standing lost for good stays lost, runs go on to their end, and neither
\* forgets what it lost before it is over.
Outside ==
  /\ pass' = pass /\ time' \in Nat /\ time <= time'
  /\ revokedOnes \subseteq revokedOnes' /\ disabled \subseteq disabled'
  /\ \A k \in Runs : Published(k) =>
       /\ Published(k)' /\ run'[k].device = run[k].device
       /\ run'[k].identities = run[k].identities
       /\ run'[k].pc \in Running => run[k].pc \in Running /\ lostEver[k] \subseteq lostEver'[k]
       /\ run[k].reason # "none" \/ Over(k) => run'[k].reason # "none" \/ Over(k)'

LEMMA OutsideKeepsPass ==
  ASSUME IInv, Outside
  PROVE  PassValid' /\ AnswersTrue' /\ DoomFound' /\ PassStopsTheLost'
<1>0. /\ pass \in PassRecords /\ time \in Nat /\ pass.at \in Nat /\ pass.todo \subseteq Runs
      /\ pass.doomed \subseteq Runs
  BY DEF IInv, TypeOK, PassRecords
<1>1. \A k \in pass.todo \cup pass.doomed : k \in Runs /\ Published(k)
  BY <1>0 DEF IInv, PassValid
<1>2. \A k \in pass.todo \cup pass.doomed :
        /\ Published(k)' /\ run'[k].device = run[k].device
        /\ run'[k].identities = run[k].identities
        /\ run'[k].pc \in Running => run[k].pc \in Running /\ lostEver[k] \subseteq lostEver'[k]
        /\ run[k].reason # "none" \/ Over(k) => run'[k].reason # "none" \/ Over(k)'
  BY <1>1 DEF Outside
<1>3. \A k \in pass.todo \cup pass.doomed : \A x : Just(x, k) => Just(x, k)'
  BY <1>2 DEF Just
<1>4. pass.pc \in {"device", "window", "identities"} => pass.run \in pass.todo
  BY DEF IInv, PassValid
<1>5. PassValid'
  <2>1. pass'.at <= time'
    BY <1>0 DEF IInv, PassValid, Outside
  <2>. QED  BY <1>2, <1>4, <2>1 DEF IInv, PassValid, Outside
<1>6. AnswersTrue'
  BY <1>2, <1>3, <1>4 DEF IInv, AnswersTrue, Outside
<1>7. \A i : Telling(i) => Telling(i)'
  BY DEF Telling, Outside
<1>8. ASSUME NEW k \in pass.doomed, k \in pass.todo PROVE WillFind(k)'
  <2>1. WillFind(k)
    BY <1>8 DEF IInv, DoomFound
  <2>2. pass.pc = "window" => run'[pass.run].device = run[pass.run].device
    BY <1>2, <1>4
  <2>. QED  BY <1>2, <1>7, <2>1, <2>2 DEF WillFind, Outside
<1>9. DoomFound'
  BY <1>7, <1>8 DEF IInv, DoomFound, Outside
<1>10. PassStopsTheLost'
  BY <1>2 DEF IInv, PassStopsTheLost, Outside
<1>. QED  BY <1>5, <1>6, <1>9, <1>10

\* Operators and time.
StoreMoves ==
  /\ run' = run /\ pass' = pass /\ errors' = errors /\ Remember
  /\ revokedOnes \subseteq revokedOnes' /\ revokedOnes' \subseteq RunDevices
  /\ disabled \subseteq disabled' /\ disabled' \subseteq Identities
  /\ window' \in [RunDevices -> [until : Nat, deactivated : BOOLEAN]]
  /\ time' \in Nat /\ time <= time'

LEMMA LostAreReasons == ASSUME NEW r, NEW rv, NEW w, NEW ds, NEW at
                        PROVE  Lost(r, rv, w, ds, at) \subseteq Reasons
BY DEF Lost

LEMMA StoreMovesKeep == ASSUME IInv, StoreMoves PROVE IInv'
<1>1. \A k \in Runs : lostEver'[k] =
        IF run[k].pc \in Running
        THEN lostEver[k] \cup Lost(run[k], revokedOnes', window', disabled', time')
        ELSE lostEver[k]
  BY DEF StoreMoves, Remember
<1>2. lostEver' \in [Runs -> SUBSET Reasons]
  BY LostAreReasons DEF IInv, TypeOK, StoreMoves, Remember
<1>3. TypeOK'
  BY <1>2 DEF IInv, TypeOK, StoreMoves
<1>4. RunsValid'
  BY <1>1 DEF IInv, RunsValid, StoreMoves, LostNow
<1>5. StopJustified'
  BY <1>1 DEF IInv, StopJustified, StoreMoves
<1>6. Outside
  BY <1>1 DEF Outside, StoreMoves, Published, Over
<1>. QED  BY <1>3, <1>4, <1>5, <1>6, OutsideKeepsPass DEF IInv

LEMMA OperatorsKeep ==
  ASSUME IInv, OperatorStep \/ TimePasses PROVE IInv'
<1>. USE DEF IInv, TypeOK
<1>1. ASSUME NEW d \in RunDevices, Revoke(d) PROVE StoreMoves
  BY <1>1 DEF Revoke, StoreMoves
<1>5. ASSUME NEW d \in RunDevices, CloseWindow(d) PROVE StoreMoves
  <2>1. window' \in [RunDevices -> [until : Nat, deactivated : BOOLEAN]]
    BY <1>5 DEF CloseWindow
  <2>. QED  BY <1>5, <2>1 DEF CloseWindow, StoreMoves
<1>2. ASSUME NEW d \in RunDevices, NEW n \in WindowLengths, OpenWindow(d, n) PROVE StoreMoves
  <2>1. time + n \in Nat
    BY LengthsAssumption
  <2>. QED  BY <1>2, <2>1 DEF OpenWindow, StoreMoves
<1>3. ASSUME NEW i \in Identities, DisableIdentity(i) PROVE StoreMoves
  BY <1>3 DEF DisableIdentity, StoreMoves
<1>4. ASSUME TimePasses PROVE StoreMoves
  BY <1>4 DEF TimePasses, StoreMoves, store
<1>. QED  BY <1>1, <1>2, <1>3, <1>4, <1>5, StoreMovesKeep DEF OperatorStep

\* A request or an execution goes on.
LEMMA RunMoveKeeps ==
  ASSUME IInv, NEW k \in Runs, NEW r \in RunRecords, Step(k, r),
         lostEver' \in [Runs -> SUBSET Reasons],
         \A j \in Runs \ {k} : lostEver'[j] = lostEver[j],
         r.pc # "none" => r.device \in RunDevices,
         r.pc \in {"none", "known", "admitted"} => r.reason = "none",
         r.pc \in Running =>
           /\ Lost(r, revokedOnes, window, disabled, time) \subseteq lostEver'[k]
           /\ r.reason # "none" => r.reason \in lostEver'[k],
         Published(k) =>
           /\ r.pc \in Listed \cup {"gone"} /\ r.device = run[k].device
           /\ r.identities = run[k].identities
           /\ r.pc \in Running => run[k].pc \in Running /\ lostEver[k] \subseteq lostEver'[k]
           /\ run[k].reason # "none" \/ Over(k) => r.reason # "none" \/ r.pc \in {"done", "gone"}
  PROVE  IInv'
<1>1. /\ run'[k] = r /\ \A j \in Runs \ {k} : run'[j] = run[j]
      /\ UNCHANGED <<store, pass, time, errors>>
  BY DEF Step, IInv, TypeOK
<1>2. TypeOK'
  BY <1>1 DEF Step, store, IInv, TypeOK
<1>3. ASSUME NEW j \in Runs
      PROVE  /\ run'[j].pc # "none" => run'[j].device \in RunDevices
             /\ run'[j].pc \in {"none", "known", "admitted"} => run'[j].reason = "none"
             /\ run'[j].pc \in Running => LostNow(j)' \subseteq lostEver'[j]
             /\ run'[j].pc \in Running /\ run'[j].reason # "none" => run'[j].reason \in lostEver'[j]
  <2>1. CASE j = k
    BY <1>1, <2>1 DEF store, LostNow
  <2>2. CASE j # k
    BY <1>1, <2>2 DEF store, LostNow, IInv, RunsValid, StopJustified
  <2>. QED  BY <2>1, <2>2
<1>4. RunsValid' /\ StopJustified'
  BY <1>3 DEF RunsValid, StopJustified
<1>5. ASSUME NEW j \in Runs, Published(j)
      PROVE  /\ Published(j)' /\ run'[j].device = run[j].device
             /\ run'[j].identities = run[j].identities
             /\ run'[j].pc \in Running => run[j].pc \in Running /\ lostEver[j] \subseteq lostEver'[j]
             /\ run[j].reason # "none" \/ Over(j) => run'[j].reason # "none" \/ Over(j)'
  <2>1. CASE j = k
    BY <1>1, <1>5, <2>1 DEF Published, Over
  <2>2. CASE j # k
    BY <1>1, <1>5, <2>2 DEF Published, Over
  <2>. QED  BY <2>1, <2>2
<1>6. Outside
  BY <1>1, <1>5 DEF Outside, store, IInv, TypeOK
<1>. QED  BY <1>2, <1>4, <1>6, OutsideKeepsPass DEF IInv

LEMMA NoRunValid == NoRun \in RunRecords
BY DEF NoRun, RunRecords

LEMMA RequestKeeps == ASSUME IInv, NEW k \in Runs, RequestStep(k) PROVE IInv'
<1>0. lostEver \in [Runs -> SUBSET Reasons] /\ run[k] \in RunRecords
  BY DEF IInv, TypeOK
<1>1. ASSUME NEW d \in RunDevices, NEW I \in SUBSET Identities, Authenticate(k, d, I) PROVE IInv'
  <2>1. PICK r \in RunRecords :
          r = [NoRun EXCEPT !.pc = "known", !.device = d, !.identities = I]
    BY DEF NoRun, RunRecords
  <2>2. r.pc = "known" /\ r.device = d /\ r.reason = "none"
    BY <2>1 DEF NoRun
  <2>3. Step(k, r) /\ run[k].pc = "none" /\ lostEver' = lostEver
    BY <1>1, <2>1 DEF Authenticate
  <2>. QED  BY <1>0, <2>2, <2>3, RunMoveKeeps DEF Published, Running, Listed
<1>2. ASSUME CheckActive(k) PROVE IInv'
  <2>1. run[k].pc = "known" /\ lostEver' = lostEver
    BY <1>2 DEF CheckActive
  <2>2. CASE Step(k, NoRun)
    BY <1>0, <2>1, <2>2, NoRunValid, RunMoveKeeps DEF NoRun, Published, Running, Listed
  <2>3. CASE Step(k, [run[k] EXCEPT !.pc = "admitted"])
    <3>1. PICK r \in RunRecords : r = [run[k] EXCEPT !.pc = "admitted"]
      BY <1>0 DEF RunRecords
    <3>2. r.pc = "admitted" /\ r.device = run[k].device /\ r.reason = run[k].reason
      BY <1>0, <3>1 DEF RunRecords
    <3>3. r.device \in RunDevices /\ r.reason = "none"
      BY <2>1, <3>2 DEF IInv, RunsValid
    <3>. QED  BY <1>0, <2>1, <2>3, <3>1, <3>2, <3>3, RunMoveKeeps DEF Published, Running, Listed
  <2>. QED  BY <1>2, <2>2, <2>3 DEF CheckActive
<1>3. ASSUME Publish(k) PROVE IInv'
  <2>1. run[k].pc = "admitted" /\ run[k].device \in RunDevices /\ run[k].reason = "none"
    BY <1>3 DEF Publish, IInv, RunsValid
  <2>2. PICK r \in RunRecords : r = [run[k] EXCEPT !.pc = "live"]
    BY <1>0 DEF RunRecords
  <2>3. /\ r.pc = "live" /\ r.device = run[k].device /\ r.reason = "none"
        /\ r.identities = run[k].identities
    BY <1>0, <2>1, <2>2 DEF RunRecords
  <2>4. Lost(r, revokedOnes, window, disabled, time) = LostNow(k)
    BY <2>3 DEF Lost, LostNow
  <2>5. /\ lostEver' \in [Runs -> SUBSET Reasons]
        /\ lostEver'[k] = LostNow(k)
        /\ \A j \in Runs \ {k} : lostEver'[j] = lostEver[j]
    BY <1>0, <1>3, LostAreReasons DEF Publish, LostNow
  <2>6. Step(k, r)
    BY <1>3, <2>2 DEF Publish
  <2>. QED  BY <2>1, <2>3, <2>4, <2>5, <2>6, RunMoveKeeps DEF Published, Running, Listed
<1>4. ASSUME RunReturns(k) PROVE IInv'
  <2>1. run[k].pc = "live" /\ lostEver' = lostEver
    BY <1>4 DEF RunReturns
  <2>2. PICK r \in RunRecords : r = [run[k] EXCEPT !.pc = "returned"]
    BY <1>0 DEF RunRecords
  <2>3. /\ r.pc = "returned" /\ r.device = run[k].device /\ r.reason = run[k].reason
        /\ r.identities = run[k].identities
    BY <1>0, <2>2 DEF RunRecords
  <2>4. Lost(r, revokedOnes, window, disabled, time) = LostNow(k)
    BY <2>3 DEF Lost, LostNow
  <2>5. Step(k, r)
    BY <1>4, <2>2 DEF RunReturns
  <2>. QED  BY <1>0, <2>1, <2>3, <2>4, <2>5, RunMoveKeeps
            DEF Published, Running, Listed, IInv, RunsValid, StopJustified, Over
<1>. QED  BY <1>1, <1>2, <1>3, <1>4 DEF RequestStep

LEMMA ExecutionKeeps == ASSUME IInv, NEW k \in Runs, Execution(k) PROVE IInv'
<1>0. lostEver \in [Runs -> SUBSET Reasons] /\ run[k] \in RunRecords
  BY DEF IInv, TypeOK
<1>1. ASSUME AskStopped(k) PROVE IInv'
  <2>1. run[k].pc = "returned" /\ lostEver' = lostEver
    BY <1>1 DEF AskStopped
  <2>2. PICK r \in RunRecords :
          r = [run[k] EXCEPT !.pc = "closing",
                 !.final = IF run[k].reason # "none" THEN "error" ELSE "outcome"]
    BY <1>0 DEF RunRecords
  <2>3. /\ r.pc = "closing" /\ r.device = run[k].device /\ r.reason = run[k].reason
        /\ r.identities = run[k].identities
    BY <1>0, <2>2 DEF RunRecords
  <2>4. Lost(r, revokedOnes, window, disabled, time) = LostNow(k)
    BY <2>3 DEF Lost, LostNow
  <2>5. Step(k, r)
    BY <1>1, <2>2 DEF AskStopped
  <2>. QED  BY <1>0, <2>1, <2>3, <2>4, <2>5, RunMoveKeeps
            DEF Published, Running, Listed, IInv, RunsValid, StopJustified, Over
<1>2. ASSUME Finish(k) PROVE IInv'
  <2>1. run[k].pc = "closing" /\ run[k].device \in RunDevices
    BY <1>2 DEF Finish, IInv, RunsValid
  <2>2. PICK r \in RunRecords : r = [run[k] EXCEPT !.pc = "done", !.cancelled = FALSE]
    BY <1>0 DEF RunRecords
  <2>3. /\ r.pc = "done" /\ r.device = run[k].device /\ r.identities = run[k].identities
    BY <1>0, <2>2 DEF RunRecords
  <2>4. /\ lostEver' \in [Runs -> SUBSET Reasons]
        /\ \A j \in Runs \ {k} : lostEver'[j] = lostEver[j]
    BY <1>0, <1>2 DEF Finish
  <2>5. Step(k, r)
    BY <1>2, <2>2 DEF Finish
  <2>. QED  BY <2>1, <2>3, <2>4, <2>5, RunMoveKeeps DEF Published, Running, Listed
<1>3. ASSUME EndRun(k) PROVE IInv'
  <2>1. run[k].pc = "done" /\ run[k].device \in RunDevices /\ lostEver' = lostEver
    BY <1>3 DEF EndRun, IInv, RunsValid
  <2>2. PICK r \in RunRecords :
          r = [NoRun EXCEPT !.pc = "gone", !.device = run[k].device,
                            !.identities = run[k].identities]
    BY <1>0 DEF RunRecords, NoRun
  <2>3. /\ r.pc = "gone" /\ r.device = run[k].device /\ r.identities = run[k].identities
    BY <1>0, <2>2 DEF RunRecords, NoRun
  <2>4. Step(k, r)
    BY <1>3, <2>2 DEF EndRun
  <2>. QED  BY <1>0, <2>1, <2>3, <2>4, RunMoveKeeps DEF Published, Running, Listed
<1>. QED  BY <1>1, <1>2, <1>3 DEF Execution

-----------------------------------------------------------------------------
(* The pass *)

\* What a step of the pass must keep; only its last one touches a run.
LEMMA PassKeeps ==
  ASSUME IInv, pass' \in PassRecords, errors' \in Nat, UNCHANGED <<store, run, time, lostEver>>,
         PassValid', AnswersTrue', DoomFound', PassStopsTheLost'
  PROVE  IInv'
BY DEF IInv, TypeOK, RunsValid, LostNow, StopJustified, store

LEMMA StartKeeps == ASSUME IInv, StartPass \/ EndPass PROVE IInv'
<1>0. pass \in PassRecords /\ time \in Nat /\ errors \in Nat
  BY DEF IInv, TypeOK
<1>1. ASSUME StartPass PROVE IInv'
  <2>0. pass = Resting /\ UNCHANGED <<store, run, time, lostEver, errors>>
    BY <1>1 DEF StartPass, Pass, IInv, PassValid
  <2>1. PICK p \in PassRecords : p = [Resting EXCEPT !.pc = "snapshot", !.at = time]
    BY <1>0, RestValid DEF PassRecords, Resting
  <2>2. /\ p.pc = "snapshot" /\ p.at = time /\ p.todo = {} /\ p.doomed = {}
        /\ p.devices = Unknown /\ p.identities = Unread
    BY <2>1 DEF Resting
  <2>3. pass' = p
    BY <1>1, <2>0, <2>1 DEF StartPass, Pass
  <2>4. PassValid' /\ AnswersTrue' /\ DoomFound' /\ PassStopsTheLost'
    BY <1>0, <2>0, <2>2, <2>3
       DEF PassValid, AnswersTrue, DoomFound, PassStopsTheLost, Unread
  <2>. QED  BY <1>0, <2>0, <2>3, <2>4, PassKeeps
<1>2. ASSUME EndPass PROVE IInv'
  <2>0. pass' = Resting /\ UNCHANGED <<store, run, time, lostEver, errors>>
    BY <1>2 DEF EndPass, Pass
  <2>1. /\ Resting.pc = "rest" /\ Resting.at = 0 /\ Resting.todo = {} /\ Resting.doomed = {}
        /\ Resting.devices = Unknown /\ Resting.identities = Unread
    BY DEF Resting
  <2>2. PassValid' /\ AnswersTrue' /\ DoomFound' /\ PassStopsTheLost'
    BY <1>0, <2>0, <2>1
       DEF PassValid, AnswersTrue, DoomFound, PassStopsTheLost, Unread
  <2>. QED  BY <1>0, <2>0, <2>2, RestValid, PassKeeps
<1>. QED  BY <1>1, <1>2

LEMMA SnapshotKeeps == ASSUME IInv, Snapshot PROVE IInv'
<1>0. pass \in PassRecords /\ errors \in Nat /\ pass.pc = "snapshot"
      /\ UNCHANGED <<store, run, time, lostEver, errors>>
  BY DEF IInv, TypeOK, Snapshot, Pass
<1>1. PICK live \in SUBSET Runs : live = {k \in Runs : run[k].pc \in Listed}
  OBVIOUS
<1>2. PICK p \in PassRecords :
        p = [pass EXCEPT !.pc = "pick", !.todo = live, !.missed = {},
                         !.doomed = {k \in live : Doomed(k)}]
  BY <1>0 DEF PassRecords
<1>3. /\ p.pc = "pick" /\ p.at = pass.at /\ p.todo = live /\ p.doomed = {k \in live : Doomed(k)}
      /\ p.devices = Unknown /\ p.identities = Unread
  BY <1>0, <1>2 DEF PassRecords, IInv, PassValid
<1>4. pass' = p
  BY <1>1, <1>2 DEF Snapshot, Pass
<1>5. \A k \in live : Published(k) /\ run[k].device \in RunDevices
  BY <1>1 DEF Published, IInv, RunsValid, Listed, Running
<1>6. PassValid'
  BY <1>0, <1>3, <1>4, <1>5 DEF IInv, PassValid, Published
<1>7. AnswersTrue'
  <2>1. \A k \in live : p.devices[run[k].device] = "unknown"
    BY <1>3, <1>5 DEF Unknown
  <2>2. \A i \in Identities : p.identities[i] = "unknown"
    BY <1>3 DEF Unread
  <2>. QED  BY <1>0, <1>3, <1>4, <2>1, <2>2 DEF AnswersTrue, Just, Reasons
<1>8. DoomFound'
  <2>1. ASSUME NEW k \in live, Doomed(k) PROVE WillFind(k)'
    <3>1. CASE run[k].device \in revokedOnes
      BY <1>0, <1>3, <1>4, <1>5, <3>1 DEF WillFind, Unknown, store
    <3>2. CASE run[k].identities \cap disabled # {}
      <4>1. PICK i \in run[k].identities : i \in disabled
        BY <3>2
      <4>2. i \in Identities
        BY <4>1 DEF IInv, TypeOK
      <4>. QED  BY <1>0, <1>3, <1>4, <4>1, <4>2 DEF WillFind, Telling, Unread, store
    <3>. QED  BY <2>1, <3>1, <3>2 DEF Doomed
  <2>. QED  BY <1>3, <1>4, <2>1 DEF DoomFound
<1>9. PassStopsTheLost'
  BY <1>3, <1>4 DEF PassStopsTheLost
<1>. QED  BY <1>0, <1>4, <1>6, <1>7, <1>8, <1>9, PassKeeps

\* The run the pass is at.
LEMMA AtRun ==
  ASSUME IInv, pass.pc \in {"device", "window", "identities"}
  PROVE  /\ pass.run \in pass.todo /\ pass.run \in Runs /\ Published(pass.run)
         /\ run[pass.run].device \in RunDevices /\ run[pass.run].identities \subseteq Identities
<1>1. pass.run \in pass.todo /\ pass.todo \subseteq Runs
  BY DEF IInv, PassValid, TypeOK, PassRecords
<1>. QED  BY <1>1, RunTyped DEF IInv, PassValid, Published, Listed, Running, RunRecords

\* A run without its device's answer, or with one.
LEMMA PickKeeps == ASSUME IInv, NEW k \in Runs, Pick(k) PROVE IInv'
<1>0. /\ pass \in PassRecords /\ errors \in Nat /\ pass.pc = "pick" /\ k \in pass.todo
      /\ UNCHANGED <<store, run, time, lostEver, errors>>
  BY DEF IInv, TypeOK, Pick, Pass
<1>1. /\ Published(k) /\ run[k].device \in RunDevices /\ run[k].identities \in SUBSET Identities
  BY <1>0, RunTyped DEF IInv, PassValid, Published, Listed, Running, RunRecords
<1>2. PICK known \in Reasons \cup {"none", "unknown"} : known = pass.devices[run[k].device]
  BY <1>0, <1>1 DEF PassRecords
<1>12. PICK place \in {"device", "identities"} :
        place = IF known = "unknown" THEN "device" ELSE "identities"
  OBVIOUS
<1>3. PICK p \in PassRecords :
        p = [pass EXCEPT !.pc = place, !.run = k, !.names = run[k].identities, !.lost = known]
  BY <1>0, <1>1 DEF PassRecords
<1>4. /\ p.pc = place /\ p.run = k /\ (place = "device" <=> known = "unknown")
      /\ p.names = run[k].identities /\ p.lost = known /\ p.at = pass.at /\ p.todo = pass.todo
      /\ p.devices = pass.devices /\ p.identities = pass.identities
      /\ p.doomed = pass.doomed /\ p.missed = pass.missed
  BY <1>0, <1>3, <1>12 DEF PassRecords
<1>5. pass' = p
  BY <1>2, <1>3, <1>12 DEF Pick, Pass
<1>6. PassValid'
  BY <1>0, <1>4, <1>5 DEF IInv, PassValid, Published
<1>7. AnswersTrue'
  BY <1>0, <1>2, <1>4, <1>5 DEF IInv, AnswersTrue, Just, store
<1>8. ASSUME NEW j, WillFind(j) PROVE WillFind(j)'
  BY <1>0, <1>4, <1>5, <1>8 DEF WillFind, Telling, store
<1>9. DoomFound'
  <2>1. ASSUME WillFind(k)
        PROVE  known = "revoked" \/ known = "unknown" \/ \E i \in p.names : Telling(i)
    BY <1>2, <1>4, <2>1 DEF WillFind
  <2>2. ASSUME k \in pass.doomed, p.pc = "identities"
        PROVE  p.lost # "none" \/ \E i \in p.names : Telling(i)
    BY <1>0, <1>4, <2>1, <2>2 DEF IInv, DoomFound
  <2>. QED  BY <1>0, <1>4, <1>5, <1>8, <2>2 DEF IInv, DoomFound, Telling, store
<1>10. PassStopsTheLost'
  BY <1>0, <1>4, <1>5 DEF IInv, PassStopsTheLost, Over
<1>. QED  BY <1>0, <1>5, <1>6, <1>7, <1>9, <1>10, PassKeeps

\* An answer about the device of the run the pass is at: true of every run of
\* the device that is still to be judged, and found if it was lost for good.
LEMMA AnswerKeeps ==
  ASSUME IInv, pass.pc \in {"device", "window"}, NEW lost \in Reasons \cup {"none"},
         pass' = DeviceAnswer(run[pass.run].device, lost),
         UNCHANGED <<store, run, time, lostEver, errors>>,
         lost \in Reasons => \A k \in Runs : run[k].device = run[pass.run].device =>
                               lost \in LostNow(k),
         pass.pc = "device" /\ run[pass.run].device \in revokedOnes => lost = "revoked"
  PROVE  IInv'
<1>. DEFINE d == run[pass.run].device
<1>0. /\ pass \in PassRecords /\ errors \in Nat /\ pass.run \in pass.todo /\ pass.run \in Runs
      /\ d \in RunDevices /\ pass.names = run[pass.run].identities
      /\ \A k \in pass.todo \cup pass.doomed : k \in Runs /\ Published(k)
  BY AtRun DEF IInv, TypeOK, PassValid, PassRecords
<1>1. /\ pass' \in PassRecords /\ pass'.pc = "identities" /\ pass'.lost = lost
      /\ pass'.devices[d] = lost /\ \A x \in RunDevices \ {d} : pass'.devices[x] = pass.devices[x]
      /\ pass'.run = pass.run /\ pass'.names = pass.names /\ pass'.at = pass.at
      /\ pass'.todo = pass.todo /\ pass'.identities = pass.identities
      /\ pass'.doomed = pass.doomed /\ pass'.missed = pass.missed
  <2>1. [pass.devices EXCEPT ![d] = lost] \in [RunDevices -> Reasons \cup {"none", "unknown"}]
    BY <1>0 DEF PassRecords
  <2>. QED  BY <1>0, <2>1 DEF DeviceAnswer, PassRecords
<1>2. \A k \in pass.todo : run[k].device \in RunDevices
  BY <1>0, RunTyped DEF Published, Listed, Running
<1>3. PassValid'
  BY <1>0, <1>1 DEF IInv, PassValid, Published
<1>4. \A k \in Runs : run[k].device = d => Just(lost, k)
  BY DEF Just, IInv, RunsValid
<1>5. AnswersTrue'
  <2>1. \A k \in pass.todo : Just(pass'.devices[run[k].device], k)
    BY <1>0, <1>1, <1>2, <1>4 DEF IInv, AnswersTrue
  <2>2. lost # "unknown"
    BY DEF Reasons
  <2>. QED  BY <1>0, <1>1, <1>4, <2>1, <2>2 DEF IInv, AnswersTrue, Just, store
<1>6. ASSUME NEW k \in pass.todo, WillFind(k) PROVE WillFind(k)'
  <2>1. CASE \E i \in run[k].identities : Telling(i)
    BY <1>1, <2>1 DEF WillFind, Telling, store
  <2>2. CASE /\ run[k].device \in revokedOnes /\ pass.devices[run[k].device] \in {"unknown", "revoked"}
             /\ ~(pass.pc = "window" /\ d = run[k].device)
    <3>1. pass'.devices[run[k].device] \in {"unknown", "revoked"}
      BY <1>1, <1>2, <2>2
    <3>. QED  BY <1>1, <2>2, <3>1 DEF WillFind, store
  <2>. QED  BY <1>6, <2>1, <2>2 DEF WillFind
<1>7. ASSUME WillFind(pass.run) PROVE lost # "none" \/ \E i \in pass.names : Telling(i)
  BY <1>0, <1>7 DEF WillFind
<1>8. DoomFound'
  BY <1>0, <1>1, <1>6, <1>7 DEF IInv, DoomFound, Telling, store
<1>9. PassStopsTheLost'
  BY <1>1 DEF IInv, PassStopsTheLost, Over
<1>. QED  BY <1>0, <1>1, <1>3, <1>5, <1>8, <1>9, PassKeeps

LEMMA ReadsKeep == ASSUME IInv, ReadDevice \/ ReadWindow PROVE IInv'
<1>. DEFINE d == run[pass.run].device
<1>0. /\ pass.pc \in {"device", "window"} /\ UNCHANGED <<store, run, time, lostEver, errors>>
      /\ d \in RunDevices /\ pass \in PassRecords /\ errors \in Nat
  BY AtRun DEF ReadDevice, ReadWindow, Pass, IInv, TypeOK
<1>1. CASE pass.pc = "device" /\ d \in revokedOnes /\ pass' = DeviceAnswer(d, "revoked")
  <2>1. \A k \in Runs : run[k].device = d => "revoked" \in LostNow(k)
    BY <1>1 DEF LostNow, Lost, Reasons
  <2>2. "revoked" \in Reasons
    BY DEF Reasons
  <2>. QED  BY <1>0, <1>1, <2>1, <2>2, AnswerKeeps
<1>2. CASE pass.pc = "device" /\ d \notin revokedOnes /\ pass' = [pass EXCEPT !.pc = "window"]
  <2>1. /\ pass' \in PassRecords /\ pass'.pc = "window" /\ pass'.lost = pass.lost
        /\ pass'.devices = pass.devices /\ pass'.identities = pass.identities
        /\ pass'.run = pass.run /\ pass'.names = pass.names /\ pass'.at = pass.at
        /\ pass'.todo = pass.todo /\ pass'.doomed = pass.doomed /\ pass'.missed = pass.missed
    BY <1>0, <1>2 DEF PassRecords
  <2>2. PassValid' /\ AnswersTrue' /\ PassStopsTheLost'
    BY <1>0, <1>2, <2>1
       DEF IInv, PassValid, AnswersTrue, Just, PassStopsTheLost, Published, Over, store
  <2>3. \A k : WillFind(k) => WillFind(k)'
    BY <1>0, <1>2, <2>1 DEF WillFind, Telling, store
  <2>4. DoomFound'
    BY <1>2, <2>1, <2>3 DEF IInv, DoomFound
  <2>. QED  BY <1>0, <2>1, <2>2, <2>4, PassKeeps
<1>3. CASE /\ pass.pc = "window"
           /\ pass' = DeviceAnswer(d, IF Active(window[d], pass.at) THEN "none"
                                ELSE IF window[d].deactivated THEN "deactivated" ELSE "ended")
  <2>1. PICK lost \in Reasons \cup {"none"} :
          lost = IF Active(window[d], pass.at) THEN "none"
                 ELSE IF window[d].deactivated THEN "deactivated" ELSE "ended"
    BY DEF Reasons
  <2>2. /\ window[d].until \in Nat /\ pass.at \in Nat /\ time \in Nat /\ pass.at <= time
    BY <1>0 DEF IInv, TypeOK, PassValid, PassRecords
  <2>3. ~Active(window[d], pass.at) => ~Active(window[d], time)
    BY <2>2 DEF Active
  <2>4. ASSUME lost \in Reasons, NEW k \in Runs, run[k].device = d PROVE lost \in LostNow(k)
    <3>1. ~Active(window[d], pass.at)
      BY <2>1, <2>4 DEF Reasons
    <3>. QED  BY <2>1, <2>3, <2>4, <3>1 DEF LostNow, Lost, Reasons
  <2>5. pass' = DeviceAnswer(d, lost)
    BY <1>3, <2>1
  <2>. QED  BY <1>0, <1>3, <2>4, <2>5, AnswerKeeps
<1>. QED  BY <1>1, <1>2, <1>3 DEF ReadDevice, ReadWindow, Pass

LEMMA UnreadableKeeps == ASSUME IInv, DeviceUnreadable PROVE IInv'
<1>0. /\ pass \in PassRecords /\ pass.pc \in {"device", "window"} /\ errors' \in Nat
      /\ UNCHANGED <<store, run, time, lostEver>> /\ pass.run \in Runs
  BY AtRun DEF IInv, TypeOK, DeviceUnreadable, Pass
<1>1. /\ pass' \in PassRecords /\ pass'.pc = "pick" /\ pass'.at = pass.at
      /\ pass'.devices = pass.devices /\ pass'.identities = pass.identities
      /\ pass'.todo = pass.todo \ {pass.run} /\ pass'.doomed = pass.doomed
      /\ pass'.missed = pass.missed \cup {pass.run}
  <2>1. pass' = SkipRun
    BY DEF DeviceUnreadable, Pass
  <2>. QED  BY <1>0, <2>1 DEF SkipRun, PassRecords
<1>2. PassValid' /\ AnswersTrue' /\ PassStopsTheLost'
  BY <1>0, <1>1
     DEF IInv, PassValid, AnswersTrue, Just, PassStopsTheLost, Published, Over, store
<1>3. \A k : WillFind(k) => WillFind(k)'
  BY <1>0, <1>1 DEF WillFind, Telling, store
<1>4. DoomFound'
  BY <1>1, <1>3 DEF IInv, DoomFound
<1>. QED  BY <1>0, <1>1, <1>2, <1>4, PassKeeps

\* An answer about an identity: what is disabled is told, by the store or by
\* the answer that an earlier run left.
LEMMA ReadIdentityKeeps ==
  ASSUME IInv, NEW i \in Identities, ReadIdentity(i) PROVE IInv'
<1>0. /\ pass \in PassRecords /\ pass.pc = "identities" /\ pass.lost = "none" /\ i \in pass.names
      /\ errors \in Nat /\ UNCHANGED <<store, run, time, lostEver, errors>>
      /\ pass.run \in Runs /\ pass.run \in pass.todo /\ pass.names \subseteq run[pass.run].identities
      /\ pass.identities \in [Identities -> {"unknown", "active", "disabled"}]
  BY AtRun DEF IInv, TypeOK, PassValid, PassRecords, ReadIdentity, Pass
<1>1. PICK status \in {"active", "disabled"} :
        /\ status = IF pass.identities[i] # "unknown" THEN pass.identities[i]
                    ELSE IF i \in disabled THEN "disabled" ELSE "active"
        /\ pass' = [pass EXCEPT !.names = @ \ {i}, !.identities[i] = status,
                                !.lost = IF status = "disabled" THEN "identity" ELSE "none"]
  <2>1. (IF pass.identities[i] # "unknown" THEN pass.identities[i]
         ELSE IF i \in disabled THEN "disabled" ELSE "active") \in {"active", "disabled"}
    BY <1>0
  <2>. QED  BY <2>1 DEF ReadIdentity, Pass
<1>2. (status = "disabled" => i \in disabled) /\ (Telling(i) => status = "disabled")
  BY <1>0, <1>1 DEF Telling, IInv, AnswersTrue
<1>3. PICK lost \in {"identity", "none"} : lost = IF status = "disabled" THEN "identity" ELSE "none"
  OBVIOUS
<1>4. /\ pass' \in PassRecords /\ pass'.pc = "identities" /\ pass'.at = pass.at
      /\ pass'.devices = pass.devices /\ pass'.identities[i] = status
      /\ \A x \in Identities \ {i} : pass'.identities[x] = pass.identities[x]
      /\ pass'.names = pass.names \ {i} /\ pass'.lost = lost /\ pass'.run = pass.run
      /\ pass'.todo = pass.todo /\ pass'.doomed = pass.doomed /\ pass'.missed = pass.missed
  <2>1. [pass.identities EXCEPT ![i] = status] \in [Identities -> {"unknown", "active", "disabled"}]
    BY <1>0
  <2>2. lost \in Reasons \cup {"none", "unknown"}
    BY DEF Reasons
  <2>. QED  BY <1>0, <1>1, <1>3, <2>1, <2>2 DEF PassRecords
<1>5. PassValid'
  BY <1>0, <1>4 DEF IInv, PassValid, Published
<1>6. lost = "identity" => "identity" \in LostNow(pass.run)
  BY <1>0, <1>2, <1>3 DEF LostNow, Lost, Reasons
<1>7. AnswersTrue'
  <2>1. Just(lost, pass.run)
    BY <1>0, <1>6 DEF Just, IInv, RunsValid, Reasons
  <2>2. \A x \in Identities : pass'.identities[x] = "disabled" => x \in disabled
    BY <1>2, <1>4 DEF IInv, AnswersTrue
  <2>. QED  BY <1>0, <1>4, <2>1, <2>2 DEF IInv, AnswersTrue, Just, store
<1>8. ASSUME NEW x \in Identities, Telling(x) PROVE Telling(x)'
  <2>1. CASE x = i
    BY <1>0, <1>2, <1>4, <1>8, <2>1 DEF Telling, store
  <2>2. CASE x # i
    BY <1>0, <1>4, <1>8, <2>2 DEF Telling, store
  <2>. QED  BY <2>1, <2>2
<1>9. \A x : Telling(x) => x \in Identities
  BY DEF Telling, IInv, TypeOK
<1>10. DoomFound'
  <2>1. ASSUME NEW k \in pass.todo, WillFind(k) PROVE WillFind(k)'
    BY <1>0, <1>4, <1>8, <1>9, <2>1 DEF WillFind, store
  <2>2. ASSUME \E x \in pass.names : Telling(x)
        PROVE  lost # "none" \/ \E x \in pass.names \ {i} : Telling(x)'
    BY <1>2, <1>3, <1>8, <1>9, <2>2
  <2>. QED  BY <1>0, <1>4, <2>1, <2>2 DEF IInv, DoomFound
<1>11. PassStopsTheLost'
  BY <1>0, <1>4 DEF IInv, PassStopsTheLost, Over
<1>. QED  BY <1>0, <1>4, <1>5, <1>7, <1>10, <1>11, PassKeeps

LEMMA IdentityUnreadableKeeps ==
  ASSUME IInv, NEW i \in Identities, IdentityUnreadable(i) PROVE IInv'
<1>0. /\ pass \in PassRecords /\ pass.pc = "identities" /\ errors' \in Nat
      /\ UNCHANGED <<store, run, time, lostEver>> /\ pass.run \in Runs
  BY AtRun DEF IInv, TypeOK, IdentityUnreadable, Pass
<1>1. /\ pass' \in PassRecords /\ pass'.pc = "identities" /\ pass'.at = pass.at
      /\ pass'.devices = pass.devices /\ pass'.identities = pass.identities
      /\ pass'.names = pass.names \ {i} /\ pass'.lost = pass.lost /\ pass'.run = pass.run
      /\ pass'.todo = pass.todo /\ pass'.doomed = pass.doomed
      /\ pass'.missed = pass.missed \cup {pass.run}
  <2>1. pass' = [pass EXCEPT !.names = @ \ {i}, !.missed = @ \cup {pass.run}]
    BY DEF IdentityUnreadable, Pass
  <2>. QED  BY <1>0, <2>1 DEF PassRecords
<1>2. PassValid' /\ AnswersTrue' /\ PassStopsTheLost'
  BY <1>0, <1>1
     DEF IInv, PassValid, AnswersTrue, Just, PassStopsTheLost, Published, Over, store
<1>3. \A k : WillFind(k) => WillFind(k)'
  BY <1>0, <1>1 DEF WillFind, Telling, store
<1>4. DoomFound'
  BY <1>1, <1>3 DEF IInv, DoomFound
<1>. QED  BY <1>0, <1>1, <1>2, <1>4, PassKeeps

\* The run is stopped by a reason it lost, or had nothing to lose.
LEMMA JudgeKeeps == ASSUME IInv, Judge PROVE IInv'
<1>. DEFINE k == pass.run
<1>0. /\ pass \in PassRecords /\ pass.pc = "identities" /\ UNCHANGED <<store, time, errors, lostEver>>
      /\ k \in Runs /\ k \in pass.todo /\ Published(k) /\ run[k] \in RunRecords
      /\ pass.lost \in Reasons \cup {"none"} /\ Just(pass.lost, k)
      /\ pass.lost # "none" \/ pass.names = {}
  BY AtRun, RunTyped DEF IInv, TypeOK, AnswersTrue, PassRecords, Judge
<1>1. /\ pass' \in PassRecords /\ pass'.pc = "pick" /\ pass'.at = pass.at
      /\ pass'.devices = pass.devices /\ pass'.identities = pass.identities
      /\ pass'.todo = pass.todo \ {k} /\ pass'.doomed = pass.doomed
      /\ pass'.missed = pass.missed
  <2>1. pass' = [pass EXCEPT !.pc = "pick", !.todo = @ \ {k}]
    BY DEF Judge
  <2>. QED  BY <1>0, <2>1 DEF PassRecords
<1>2. PICK r \in RunRecords :
        /\ run' = [run EXCEPT ![k] = r]
        /\ r.pc = run[k].pc /\ r.device = run[k].device /\ r.identities = run[k].identities
        /\ run[k].reason # "none" => r.reason = run[k].reason
        /\ r.reason = run[k].reason \/ (r.reason = pass.lost /\ pass.lost # "none")
        /\ pass.lost # "none" => r.reason # "none" \/ Over(k)
  <2>1. CASE pass.lost = "none" \/ Over(k)
    <3>1. run' = run
      BY <1>0, <2>1 DEF Judge, Stop, Over, IInv, TypeOK
    <3>. QED  BY <1>0, <2>1, <3>1 DEF IInv, TypeOK
  <2>2. CASE pass.lost # "none" /\ ~Over(k)
    <3>1. PICK why \in Reasons \cup {"none"} :
            why = IF run[k].reason = "none" THEN pass.lost ELSE run[k].reason
      BY <1>0 DEF RunRecords
    <3>2. run' = [run EXCEPT ![k] = [run[k] EXCEPT !.reason = why, !.cancelled = TRUE]]
      BY <2>2, <3>1 DEF Judge, Stop, Over
    <3>3. PICK r \in RunRecords : r = [run[k] EXCEPT !.reason = why, !.cancelled = TRUE]
      BY <1>0 DEF RunRecords
    <3>4. /\ r.pc = run[k].pc /\ r.device = run[k].device
          /\ r.identities = run[k].identities /\ r.reason = why
      BY <1>0, <3>3 DEF RunRecords
    <3>5. run' = [run EXCEPT ![k] = r]
      BY <3>2, <3>3
    <3>. QED  BY <2>2, <3>1, <3>4, <3>5
  <2>. QED  BY <2>1, <2>2
<1>3. run'[k] = r /\ \A j \in Runs \ {k} : run'[j] = run[j]
  BY <1>0, <1>2 DEF IInv, TypeOK
<1>4. \A j \in Runs : /\ run'[j].pc = run[j].pc /\ run'[j].device = run[j].device
                      /\ run'[j].identities = run[j].identities
                      /\ run[j].reason # "none" => run'[j].reason # "none"
  BY <1>2, <1>3
<1>5. TypeOK'
  BY <1>0, <1>1, <1>2 DEF IInv, TypeOK, store
<1>6. ASSUME NEW j \in Runs
      PROVE  /\ run'[j].pc \in {"none", "known", "admitted"} => run'[j].reason = "none"
             /\ run'[j].pc \in Running /\ run'[j].reason # "none" => run'[j].reason \in lostEver[j]
  <2>1. CASE j = k
    BY <1>0, <1>2, <1>3, <2>1 DEF IInv, StopJustified, Just, Published, Listed, Running
  <2>2. CASE j # k
    BY <1>3, <2>2 DEF IInv, RunsValid, StopJustified
  <2>. QED  BY <2>1, <2>2
<1>7. \A j \in Runs : LostNow(j)' = LostNow(j)
  BY <1>0, <1>4 DEF LostNow, Lost, store
<1>8. RunsValid' /\ StopJustified'
  BY <1>0, <1>4, <1>6, <1>7 DEF IInv, RunsValid, StopJustified
<1>9. pass.todo \subseteq Runs /\ pass.doomed \subseteq Runs
  BY <1>0 DEF PassRecords
<1>10. PassValid'
  BY <1>0, <1>1, <1>4, <1>9 DEF IInv, PassValid, Published
<1>11. AnswersTrue'
  BY <1>0, <1>1, <1>4, <1>9 DEF IInv, AnswersTrue, Just, store
<1>12. \A j \in Runs : WillFind(j) => WillFind(j)'
  BY <1>0, <1>1, <1>4 DEF WillFind, Telling, store
<1>13. DoomFound'
  BY <1>1, <1>9, <1>12 DEF IInv, DoomFound
<1>14. ASSUME NEW j \in pass.doomed, j \notin pass'.todo, j \notin pass.missed
       PROVE  run'[j].reason # "none" \/ Over(j)'
  <2>1. CASE j = k
    BY <1>0, <1>2, <1>3, <1>14, <2>1 DEF IInv, DoomFound, Over
  <2>2. CASE j # k
    BY <1>1, <1>3, <1>9, <1>14, <2>2 DEF IInv, PassStopsTheLost, Over
  <2>. QED  BY <2>1, <2>2
<1>15. PassStopsTheLost'
  BY <1>1, <1>14 DEF PassStopsTheLost
<1>. QED  BY <1>5, <1>8, <1>10, <1>11, <1>13, <1>15 DEF IInv

-----------------------------------------------------------------------------
(* The theorems *)

LEMMA InitIInv == StandingInit => IInv
<1>. SUFFICES ASSUME StandingInit PROVE IInv
  OBVIOUS
<1>1. TypeOK
  BY NoRunValid, RestValid DEF StandingInit, TypeOK
<1>2. \A k \in Runs : run[k].pc = "none" /\ run[k].reason = "none"
  BY DEF StandingInit, NoRun
<1>3. /\ pass = Resting /\ pass.pc = "rest" /\ pass.at = 0 /\ time = 1
      /\ pass.todo = {} /\ pass.doomed = {} /\ pass.identities = Unread
  BY DEF StandingInit, Resting
<1>4. RunsValid /\ StopJustified
  BY <1>2 DEF RunsValid, StopJustified, Running
<1>5. PassValid /\ AnswersTrue /\ DoomFound /\ PassStopsTheLost
  BY <1>3 DEF PassValid, AnswersTrue, DoomFound, PassStopsTheLost, Unread
<1>. QED  BY <1>1, <1>4, <1>5 DEF IInv

LEMMA Preserved == IInv /\ [StandingNext]_standingVars => IInv'
<1>. SUFFICES ASSUME IInv, [StandingNext]_standingVars PROVE IInv'
  OBVIOUS
<1>1. ASSUME OperatorStep \/ TimePasses PROVE IInv'
  BY <1>1, OperatorsKeep
<1>2. ASSUME NEW k \in Runs, RequestStep(k) \/ Execution(k) PROVE IInv'
  BY <1>2, RequestKeeps, ExecutionKeeps
<1>3. ASSUME PassStep PROVE IInv'
  BY <1>3, StartKeeps, SnapshotKeeps, PickKeeps, ReadsKeep, UnreadableKeeps,
     ReadIdentityKeeps, IdentityUnreadableKeeps, JudgeKeeps DEF PassStep
<1>4. CASE UNCHANGED standingVars
  <2>1. UNCHANGED <<store, run, pass, time, errors, lostEver>>
    BY <1>4 DEF standingVars
  <2>2. PassValid' /\ AnswersTrue' /\ DoomFound' /\ PassStopsTheLost'
    BY <2>1 DEF IInv, PassValid, AnswersTrue, Just, DoomFound, WillFind, Telling, Published,
                PassStopsTheLost, Over, store
  <2>. QED  BY <2>1, <2>2, PassKeeps DEF IInv, TypeOK
<1>. QED  BY <1>1, <1>2, <1>3, <1>4 DEF StandingNext

\* The strengthening holds throughout: what a pass has answered is true of
\* every run it may still judge, and what was lost for good will be found.
THEOREM Inductive == StandingSpec => []IInv
<1>1. IInv /\ [StandingNext]_standingVars => IInv'
  BY Preserved
<1>. QED  BY <1>1, InitIInv, PTL DEF StandingSpec

\* Every variable keeps its type.
THEOREM TypeCorrect == StandingSpec => []TypeOK
<1>1. IInv => TypeOK
  BY DEF IInv
<1>. QED  BY <1>1, Inductive, PTL

\* A pass stops every run that was lost for good when it took its snapshot,
\* unless a store error hid that run, and no run is stopped but for standing
\* it lost while published (standing.go, CancelRunsWithoutStanding).
THEOREM PassesEnforceStanding == StandingSpec => []StandingEnforced
<1>1. IInv => StandingEnforced
  BY DEF IInv, StandingEnforced
<1>. QED  BY <1>1, Inductive, PTL

-----------------------------------------------------------------------------
(* The second factor.  What a code was accepted for is remembered in the    *)
(* last step of its operator, which only grows; and the key a request       *)
(* enrols stays the one its session keeps, which never changes.             *)

Rows ==
  [owner : Accounts, stage : {"password", "active"}, pending : Nat, shown : SUBSET Nat,
   seen : Nat, expires : Nat]

Attempts == [id : Nat, at : Nat]

LoginVisits ==
  [pc : {"wait", "check"}, a : Accounts, d : Addresses, right : BOOLEAN, id : Nat, at : Nat]

CodePlaces == {"pending", "mint", "secret", "record", "enroll", "passed", "open"}

CodeVisits ==
  [pc : CodePlaces, a : Accounts, d : Addresses \cup {"none"}, s : Nat \ {0}, id : Nat,
   at : Nat, enrolled : BOOLEAN, k : Nat, t : 0..LastStep + 1, own : Nat]

\* Every variable of OperatorSignIn has its type.
SignInTypeOK ==
  /\ operator \in [Accounts -> [status : {"unknown", "active", "revoked"}, key : Nat, last : Nat]]
  /\ session \in Seq(Rows \cup {Ended})
  /\ counted \in [Accounts \cup Addresses -> SUBSET Attempts]
  /\ visit \in [Visits -> {NoVisit} \cup LoginVisits \cup CodeVisits]
  /\ keys \in Nat /\ clock \in 1..LastStep
  /\ entered \in [Accounts -> [0..LastStep + 1 -> Nat]]

\* A code that was accepted is of a step that was recorded.
AcceptedRecorded ==
  \A a \in Accounts : \A t \in 0..LastStep + 1 :
    /\ entered[a][t] <= 1
    /\ entered[a][t] # 0 => operator[a].key # NoKey /\ t <= operator[a].last

\* A request about a code is about a session; a code to be matched is of a
\* key, one to be recorded was matched, and the key to be enrolled is the
\* one the session keeps.
Sane(r, rows, ops) ==
  r.pc \in CodePlaces =>
    /\ r.s \in DOMAIN rows
    /\ r.pc \in {"secret", "record"} => r.k # NoKey
    /\ r.pc = "record" => ops[r.a].key # NoKey
    /\ r.pc = "enroll" => r.own # NoKey /\ (rows[r.s] # Ended => rows[r.s].pending = r.own)

VisitsSane == \A v \in Visits : Sane(visit[v], session, operator)

\* The pages of a session have shown at most the key it keeps.
ShownKept ==
  \A s \in DOMAIN session :
    session[s] # Ended => session[s].shown \subseteq {session[s].pending} \ {NoKey}

SignInInv == SignInTypeOK /\ AcceptedRecorded /\ VisitsSane /\ ShownKept

LEMMA SignInStarts == SignInInit => SignInInv
<1>. SUFFICES ASSUME SignInInit PROVE SignInInv
  OBVIOUS
<1>1. SignInTypeOK
  BY SignInAssumption DEF SignInInit, SignInTypeOK, NoKey
<1>2. AcceptedRecorded /\ ShownKept
  BY DEF SignInInit, AcceptedRecorded, ShownKept
<1>3. VisitsSane
  BY DEF SignInInit, VisitsSane, Sane, NoVisit, CodePlaces
<1>. QED  BY <1>1, <1>2, <1>3 DEF SignInInv

\* A key is never taken from an operator or replaced in a session, and no
\* session comes back.
KeysStay ==
  /\ \A a \in Accounts : operator[a].key # NoKey => operator'[a].key # NoKey
  /\ \A s \in DOMAIN session :
       /\ s \in DOMAIN session'
       /\ session'[s] # Ended => session[s] # Ended
       /\ session'[s] # Ended /\ session[s].pending # NoKey =>
            session'[s].pending = session[s].pending

LEMMA VisitTyped ==
  ASSUME SignInInv, NEW v \in Visits
  PROVE  /\ visit[v].pc \in {"wait", "check"} => visit[v] \in LoginVisits
         /\ visit[v].pc \in CodePlaces => visit[v] \in CodeVisits /\ visit[v].s \in DOMAIN session
<1>1. visit[v] \in {NoVisit} \cup LoginVisits \cup CodeVisits
  BY DEF SignInInv, SignInTypeOK
<1>2. Sane(visit[v], session, operator)
  BY DEF SignInInv, VisitsSane
<1>. QED  BY <1>1, <1>2 DEF NoVisit, LoginVisits, CodeVisits, CodePlaces, Sane

LEMMA RowTyped ==
  ASSUME SignInInv, NEW s \in DOMAIN session
  PROVE  /\ session[s] # Ended => session[s] \in Rows
         /\ s \in Nat \ {0}
BY DEF SignInInv, SignInTypeOK

LEMMA OthersSane ==
  ASSUME SignInInv, KeysStay, NEW v \in Visits
  PROVE  Sane(visit[v], session', operator')
<1>1. Sane(visit[v], session, operator)
  BY DEF SignInInv, VisitsSane
<1>. SUFFICES ASSUME visit[v].pc \in CodePlaces PROVE Sane(visit[v], session', operator')
  BY DEF Sane
<1>2. visit[v] \in CodeVisits /\ visit[v].s \in DOMAIN session
  BY VisitTyped
<1>3. visit[v].a \in Accounts
  BY <1>2 DEF CodeVisits
<1>. QED  BY <1>1, <1>2, <1>3 DEF Sane, KeysStay, CodePlaces

\* The visits are sane after a step that keeps the keys, when the one that
\* moved is.
LEMMA TurnKeeps ==
  ASSUME SignInInv, KeysStay, NEW v \in Visits, NEW r, Turn(v, r),
         r \in {NoVisit} \cup LoginVisits \cup CodeVisits, Sane(r, session', operator')
  PROVE  VisitsSane' /\ visit' \in [Visits -> {NoVisit} \cup LoginVisits \cup CodeVisits]
<1>1. visit \in [Visits -> {NoVisit} \cup LoginVisits \cup CodeVisits]
  BY DEF SignInInv, SignInTypeOK
<1>2. visit' \in [Visits -> {NoVisit} \cup LoginVisits \cup CodeVisits]
  BY <1>1 DEF Turn
<1>3. ASSUME NEW w \in Visits PROVE Sane(visit'[w], session', operator')
  <2>1. visit'[w] = IF w = v THEN r ELSE visit[w]
    BY <1>1 DEF Turn
  <2>. QED  BY <2>1, OthersSane
<1>. QED  BY <1>2, <1>3 DEF VisitsSane

LEMMA RestKeeps ==
  ASSUME SignInInv, KeysStay, UNCHANGED visit
  PROVE  VisitsSane' /\ visit' \in [Visits -> {NoVisit} \cup LoginVisits \cup CodeVisits]
BY OthersSane DEF SignInInv, SignInTypeOK, VisitsSane

-----------------------------------------------------------------------------
(* The limiter, and steps that only move a visit *)

\* Every nonempty set of naturals has a least element.
LEMMA LeastExists ==
  ASSUME NEW S, S \subseteq Nat, S # {}
  PROVE  \E x \in S : \A y \in S : x <= y
<1> DEFINE Below == {ss \in Nat \X Nat : ss[1] < ss[2]}
<1>1. IsWellFoundedOn(Below, Nat)
  BY NatLessThanWellFounded DEF OpToRel
<1> HIDE DEF Below
<1>2. PICK x \in S : \A y \in S : ~(<<y, x>> \in Below)
  BY <1>1, WFMin
<1>3. ASSUME NEW y \in S PROVE x <= y
  <2>1. ~(<<y, x>> \in Below)
    BY <1>2
  <2>2. x \in Nat /\ y \in Nat
    OBVIOUS
  <2>. QED  BY <2>1, <2>2 DEF Below
<1>. QED  BY <1>3

CountedTyped(c) == c \in [Accounts \cup Addresses -> SUBSET Attempts]

\* begin gives the visit a fresh attempt and counts it.
LEMMA BeginCounts ==
  ASSUME SignInInv, NEW v \in Visits, NEW r, r.a \in Accounts, r.d \in Addresses, Begin(v, r)
  PROVE  /\ CountedTyped(counted')
         /\ \E i \in Nat \ {0} : Turn(v, [r EXCEPT !.id = i, !.at = clock])
<1>1. /\ clock \in Nat /\ counted \in [Accounts \cup Addresses -> SUBSET Attempts]
      /\ Free \subseteq Nat \ {0} /\ Free # {}
  BY SignInAssumption DEF SignInInv, SignInTypeOK, Free, Begin
<1> DEFINE i == CHOOSE x \in Free : \A y \in Free : x <= y
<1>2. i \in Nat \ {0}
  <2>1. \E x \in Free : \A y \in Free : x <= y
    BY <1>1, LeastExists
  <2>. QED  BY <1>1, <2>1
<1> DEFINE e == [id |-> i, at |-> clock]
<1>3. /\ counted' = [counted EXCEPT ![r.a] = Recent(r.a) \cup {e}, ![r.d] = Recent(r.d) \cup {e}]
      /\ Turn(v, [r EXCEPT !.id = i, !.at = clock])
  BY DEF Begin
<1>. HIDE DEF i
<1>4. e \in Attempts
  BY <1>1, <1>2 DEF Attempts
<1>5. Recent(r.a) \subseteq Attempts /\ Recent(r.d) \subseteq Attempts
  BY <1>1 DEF Recent
<1>. HIDE DEF e
<1>6. CountedTyped(counted')
  BY <1>1, <1>3, <1>4, <1>5 DEF CountedTyped
<1>. QED  BY <1>2, <1>3, <1>6

LEMMA CountsFall ==
  ASSUME SignInInv, NEW r, TakenBack(r) \/ Cleared(r)
  PROVE  CountedTyped(counted')
<1>1. counted \in [Accounts \cup Addresses -> SUBSET Attempts]
  BY DEF SignInInv, SignInTypeOK
<1>2. CASE TakenBack(r)
  BY <1>1, <1>2 DEF TakenBack, CountedTyped
<1>3. CASE Cleared(r)
  BY <1>1, <1>3 DEF Cleared, CountedTyped
<1>. QED  BY <1>2, <1>3

\* A step of the limiter, the clock and the visits changes no code, key or session.
LEMMA QuietKeeps ==
  ASSUME SignInInv, UNCHANGED <<operator, session, keys, entered>>, clock' \in 1..LastStep,
         CountedTyped(counted'), VisitsSane',
         visit' \in [Visits -> {NoVisit} \cup LoginVisits \cup CodeVisits]
  PROVE  SignInInv'
BY DEF SignInInv, SignInTypeOK, AcceptedRecorded, ShownKept, CountedTyped

LEMMA KeysStayWhenUnchanged ==
  ASSUME UNCHANGED <<operator, session>> PROVE KeysStay
BY DEF KeysStay

LEMMA ReturnKeeps ==
  ASSUME SignInInv, KeysStay, NEW v \in Visits, Return(v)
  PROVE  VisitsSane' /\ visit' \in [Visits -> {NoVisit} \cup LoginVisits \cup CodeVisits]
<1>1. Sane(NoVisit, session', operator')
  BY DEF Sane, NoVisit, CodePlaces
<1>. QED  BY <1>1, TurnKeeps DEF Return

LEMMA FailureKeeps ==
  ASSUME SignInInv, KeysStay, NEW v \in Visits, visit[v].pc \in CodePlaces, CodeFails(v)
  PROVE  VisitsSane' /\ visit' \in [Visits -> {NoVisit} \cup LoginVisits \cup CodeVisits]
<1>1. CASE Return(v)
  BY <1>1, ReturnKeeps
<1> DEFINE r == [visit[v] EXCEPT !.pc = "pending", !.id = 0]
<1>2. CASE Turn(v, r)
  <2>1. visit[v] \in CodeVisits /\ visit[v].s \in DOMAIN session
    BY VisitTyped
  <2>2. r \in CodeVisits /\ r.pc = "pending" /\ r.s = visit[v].s
    BY <2>1 DEF CodeVisits, CodePlaces
  <2>3. Sane(r, session', operator')
    BY <2>1, <2>2 DEF Sane, KeysStay
  <2>. QED  BY <1>2, <2>2, <2>3, TurnKeeps
<1>. QED  BY <1>1, <1>2 DEF CodeFails

\* A visit goes on to another place with what it has.
LEMMA GoOnKeeps ==
  ASSUME SignInInv, KeysStay, NEW v \in Visits, visit[v].pc \in CodePlaces,
         NEW pc \in {"pending", "mint", "open"}, GoOn(v, pc)
  PROVE  VisitsSane' /\ visit' \in [Visits -> {NoVisit} \cup LoginVisits \cup CodeVisits]
<1> DEFINE r == [visit[v] EXCEPT !.pc = pc]
<1>1. visit[v] \in CodeVisits /\ visit[v].s \in DOMAIN session
  BY VisitTyped
<1>2. r \in CodeVisits /\ r.pc = pc /\ r.s = visit[v].s
  BY <1>1 DEF CodeVisits, CodePlaces
<1>3. Sane(r, session', operator')
  BY <1>1, <1>2 DEF Sane, KeysStay
<1>. QED  BY <1>2, <1>3, TurnKeeps DEF GoOn

-----------------------------------------------------------------------------
(* Sessions *)

\* A session may be changed in place, to one that keeps its key or ends.
LEMMA RowChanges ==
  ASSUME SignInInv, NEW s \in DOMAIN session, NEW row \in Rows \cup {Ended},
         session' = [session EXCEPT ![s] = row],
         UNCHANGED operator,
         row # Ended =>
           /\ session[s] # Ended
           /\ session[s].pending \in {NoKey, row.pending}
           /\ row.shown \subseteq {row.pending} \ {NoKey}
  PROVE  KeysStay /\ ShownKept' /\ session' \in Seq(Rows \cup {Ended})
<1>1. session \in Seq(Rows \cup {Ended})
  BY DEF SignInInv, SignInTypeOK
<1>2. session' \in Seq(Rows \cup {Ended}) /\ DOMAIN session' = DOMAIN session
  BY <1>1
<1>3. \A p \in DOMAIN session : session'[p] = IF p = s THEN row ELSE session[p]
  BY <1>1
<1>4. KeysStay
  BY <1>2, <1>3 DEF KeysStay
<1>5. ShownKept'
  BY <1>2, <1>3 DEF SignInInv, ShownKept
<1>. QED  BY <1>2, <1>4, <1>5

\* Sessions may end, all at once.
LEMMA RowsEnd ==
  ASSUME SignInInv, DOMAIN session' = DOMAIN session,
         session' \in Seq(Rows \cup {Ended}),
         \A s \in DOMAIN session : session'[s] \in {session[s], Ended},
         \A a \in Accounts : operator[a].key # NoKey => operator'[a].key # NoKey
  PROVE  KeysStay /\ ShownKept'
BY DEF SignInInv, ShownKept, KeysStay

LEMMA DeletedRow ==
  ASSUME SignInInv, NEW s \in DOMAIN session, session' = Deleted(s) \/ UNCHANGED session,
         UNCHANGED operator
  PROVE  KeysStay /\ ShownKept' /\ session' \in Seq(Rows \cup {Ended})
<1>1. CASE session' = Deleted(s)
  BY <1>1, RowChanges DEF Deleted
<1>2. CASE UNCHANGED session
  BY <1>2 DEF KeysStay, SignInInv, SignInTypeOK, ShownKept
<1>. QED  BY <1>1, <1>2

LEMMA RefreshedRow ==
  ASSUME SignInInv, NEW s \in DOMAIN session, session[s] # Ended, Refreshed(s), UNCHANGED operator
  PROVE  KeysStay /\ ShownKept' /\ session' \in Seq(Rows \cup {Ended})
<1> DEFINE row == [session[s] EXCEPT !.seen = clock]
<1>1. session[s] \in Rows /\ clock \in Nat
  BY RowTyped DEF SignInInv, SignInTypeOK
<1>2. row \in Rows /\ row.pending = session[s].pending /\ row.shown = session[s].shown
  BY <1>1 DEF Rows
<1>3. session' = [session EXCEPT ![s] = row]
  BY DEF Refreshed
<1>4. row.shown \subseteq {row.pending} \ {NoKey}
  BY <1>2 DEF SignInInv, ShownKept
<1>. HIDE DEF row
<1>. QED  BY <1>2, <1>3, <1>4, RowChanges

\* A new session has no key, and no visit is about it.
LEMMA NewRow ==
  ASSUME SignInInv, NEW a \in Accounts, NEW stage \in {"password", "active"}, NEW at \in Nat,
         UNCHANGED operator, session' = Append(session, SessionRow(a, stage, at))
  PROVE  KeysStay /\ ShownKept' /\ session' \in Seq(Rows \cup {Ended})
<1>1. session \in Seq(Rows \cup {Ended})
  BY DEF SignInInv, SignInTypeOK
<1> DEFINE row == SessionRow(a, stage, at)
<1>2. row \in Rows /\ row.shown = {}
  BY SignInAssumption DEF SessionRow, Rows, NoKey
<1>. HIDE DEF row
<1>3. session' = Append(session, row)
  BY DEF row
<1>4. /\ session' \in Seq(Rows \cup {Ended}) /\ DOMAIN session' = DOMAIN session \cup {Len(session) + 1}
      /\ session'[Len(session) + 1] = row
      /\ \A s \in DOMAIN session : session'[s] = session[s]
  BY <1>1, <1>2, <1>3
<1>5. KeysStay
  BY <1>4 DEF KeysStay
<1>6. ShownKept'
  BY <1>2, <1>4 DEF SignInInv, ShownKept
<1>. QED  BY <1>4, <1>5, <1>6

\* A step of the sessions and the visits alone.
LEMMA SessionsKeep ==
  ASSUME SignInInv, UNCHANGED <<operator, clock, entered>>, keys' \in Nat,
         CountedTyped(counted'), ShownKept', session' \in Seq(Rows \cup {Ended}), VisitsSane',
         visit' \in [Visits -> {NoVisit} \cup LoginVisits \cup CodeVisits]
  PROVE  SignInInv'
BY DEF SignInInv, SignInTypeOK, AcceptedRecorded, CountedTyped

LEMMA CountedIsTyped == SignInInv => CountedTyped(counted)
BY DEF SignInInv, SignInTypeOK, CountedTyped

-----------------------------------------------------------------------------
(* Name and password *)

LEMMA LoginKeeps ==
  ASSUME SignInInv, NEW v \in Visits, NEW a \in Accounts, NEW d \in Addresses,
         NEW right \in BOOLEAN, Login(v, a, d, right)
  PROVE  SignInInv'
<1> DEFINE r == [pc |-> "wait", a |-> a, d |-> d, right |-> right, id |-> 0, at |-> 0]
<1>1. Begin(v, r) /\ UNCHANGED <<operator, session, keys, clock, entered>>
  BY DEF Login
<1>2. CountedTyped(counted') /\ \E i \in Nat \ {0} : Turn(v, [r EXCEPT !.id = i, !.at = clock])
  BY <1>1, BeginCounts
<1>3. PICK i \in Nat \ {0} : Turn(v, [r EXCEPT !.id = i, !.at = clock])
  BY <1>2
<1> DEFINE q == [r EXCEPT !.id = i, !.at = clock]
<1>4. q \in LoginVisits /\ q.pc = "wait"
  <2>1. clock \in Nat
    BY DEF SignInInv, SignInTypeOK
  <2>2. r \in LoginVisits
    BY Zenon DEF LoginVisits
  <2>3. r.pc = "wait"
    BY Zenon
  <2>. HIDE DEF r
  <2>. QED  BY <2>1, <2>2, <2>3 DEF LoginVisits
<1>5. Sane(q, session', operator')
  BY <1>4 DEF Sane, CodePlaces
<1>. HIDE DEF q
<1>6. Turn(v, q)
  BY <1>3 DEF q
<1>7. VisitsSane' /\ visit' \in [Visits -> {NoVisit} \cup LoginVisits \cup CodeVisits]
  BY <1>1, <1>4, <1>5, <1>6, TurnKeeps, KeysStayWhenUnchanged
<1>. QED  BY <1>1, <1>2, <1>7, QuietKeeps DEF SignInInv, SignInTypeOK

LEMMA PasswordKeeps ==
  ASSUME SignInInv, NEW v \in Visits, ReadOperator(v) \/ Busy(v) \/ PasswordWrong(v)
  PROVE  SignInInv'
<1>1. UNCHANGED <<operator, session, keys, clock, entered>> /\ KeysStay
  BY KeysStayWhenUnchanged DEF ReadOperator, Busy, PasswordWrong
<1>2. clock' \in 1..LastStep
  BY <1>1 DEF SignInInv, SignInTypeOK
<1>3. CASE ReadOperator(v)
  <2> DEFINE r == [visit[v] EXCEPT !.pc = "check",
                     !.right = @ /\ operator[visit[v].a].status = "active"]
  <2>1. visit[v] \in LoginVisits
    BY <1>3, VisitTyped DEF ReadOperator
  <2>2. r \in LoginVisits /\ r.pc = "check"
    BY <2>1 DEF LoginVisits
  <2>3. Sane(r, session', operator')
    BY <2>2 DEF Sane, CodePlaces
  <2>4. VisitsSane' /\ visit' \in [Visits -> {NoVisit} \cup LoginVisits \cup CodeVisits]
    BY <1>1, <1>3, <2>2, <2>3, TurnKeeps DEF ReadOperator
  <2>. QED  BY <1>1, <1>2, <1>3, <2>4, QuietKeeps, CountedIsTyped DEF ReadOperator
<1>4. CASE Busy(v) \/ PasswordWrong(v)
  <2>1. CountedTyped(counted')
    BY <1>4, CountsFall, CountedIsTyped DEF Busy, PasswordWrong
  <2>2. VisitsSane' /\ visit' \in [Visits -> {NoVisit} \cup LoginVisits \cup CodeVisits]
    BY <1>1, <1>4, ReturnKeeps DEF Busy, PasswordWrong
  <2>. QED  BY <1>1, <1>2, <2>1, <2>2, QuietKeeps
<1>. QED  BY <1>3, <1>4

LEMMA PasswordRightKeeps ==
  ASSUME SignInInv, NEW v \in Visits, PasswordRight(v)
  PROVE  SignInInv'
<1>1. visit[v] \in LoginVisits
  BY VisitTyped DEF PasswordRight
<1>2. visit[v].a \in Accounts /\ visit[v].at \in Nat
  BY <1>1 DEF LoginVisits
<1>3. KeysStay /\ ShownKept' /\ session' \in Seq(Rows \cup {Ended})
  BY <1>2, NewRow DEF PasswordRight
<1>4. VisitsSane' /\ visit' \in [Visits -> {NoVisit} \cup LoginVisits \cup CodeVisits]
  BY <1>3, ReturnKeeps DEF PasswordRight
<1>5. CountedTyped(counted') /\ keys' \in Nat
  BY CountsFall DEF PasswordRight, SignInInv, SignInTypeOK
<1>. QED  BY <1>3, <1>4, <1>5, SessionsKeep DEF PasswordRight

-----------------------------------------------------------------------------
(* The page with the key, and the codes *)

LEMMA CodePageTyped ==
  ASSUME SignInInv, NEW v \in Visits, NEW s \in DOMAIN session, session[s] # Ended,
         NEW pc \in CodePlaces
  PROVE  /\ CodePage(v, s, pc) \in CodeVisits
         /\ CodePage(v, s, pc).pc = pc /\ CodePage(v, s, pc).s = s
         /\ CodePage(v, s, pc).a = session[s].owner
<1>1. session[s].owner \in Accounts /\ s \in Nat \ {0} /\ clock \in Nat
  BY RowTyped DEF Rows, SignInInv, SignInTypeOK
<1>2. Enrolled(s) \in BOOLEAN
  BY DEF Enrolled
<1>3. 0 \in 0..LastStep + 1 /\ NoKey \in Nat /\ 0 \in Nat
  BY SignInAssumption DEF NoKey
<1>4. "none" \in Addresses \cup {"none"}
  OBVIOUS
<1>5. CodePage(v, s, pc) \in CodeVisits
  BY <1>1, <1>2, <1>3, <1>4, Zenon DEF CodePage, CodeVisits
<1>6. CodePage(v, s, pc).pc = pc /\ CodePage(v, s, pc).s = s
      /\ CodePage(v, s, pc).a = session[s].owner
  BY Zenon DEF CodePage
<1>. QED  BY <1>5, <1>6

\* A visit to the page that shows the key.
LEMMA PageTurns ==
  ASSUME SignInInv, KeysStay, NEW v \in Visits, NEW s \in DOMAIN session, session[s] # Ended,
         Turn(v, CodePage(v, s, "pending"))
  PROVE  VisitsSane' /\ visit' \in [Visits -> {NoVisit} \cup LoginVisits \cup CodeVisits]
<1> DEFINE r == CodePage(v, s, "pending")
<1>1. r \in CodeVisits /\ r.pc = "pending" /\ r.s = s
  BY CodePageTyped DEF CodePlaces
<1>. HIDE DEF r
<1>2. Sane(r, session', operator')
  BY <1>1 DEF Sane, KeysStay
<1>3. Turn(v, r)
  BY DEF r
<1>. QED  BY <1>1, <1>2, <1>3, TurnKeeps

LEMMA OpenPageKeeps ==
  ASSUME SignInInv, NEW v \in Visits, NEW s \in DOMAIN session, OpenPage(v, s)
  PROVE  SignInInv'
<1>1. session[s] # Ended /\ Refreshed(s) /\ Turn(v, CodePage(v, s, "pending"))
      /\ UNCHANGED <<operator, counted, keys, clock, entered>>
  BY DEF OpenPage, Live
<1>2. KeysStay /\ ShownKept' /\ session' \in Seq(Rows \cup {Ended})
  BY <1>1, RefreshedRow
<1>3. VisitsSane' /\ visit' \in [Visits -> {NoVisit} \cup LoginVisits \cup CodeVisits]
  BY <1>1, <1>2, PageTurns
<1>. QED  BY <1>1, <1>2, <1>3, CountedIsTyped, SessionsKeep DEF SignInInv, SignInTypeOK

LEMMA PostCodeKeeps ==
  ASSUME SignInInv, NEW v \in Visits, NEW s \in DOMAIN session, NEW c \in Codes,
         NEW d \in Addresses, PostCode(v, s, c, d)
  PROVE  SignInInv'
<1> DEFINE pc == IF Enrolled(s) THEN "secret" ELSE "pending"
           r == CodePage(v, s, pc)
           q == [r EXCEPT !.d = d, !.k = c.k, !.t = c.t]
<1>1. session[s] # Ended /\ Refreshed(s) /\ UNCHANGED <<operator, keys, clock, entered>>
  BY DEF PostCode, Live
<1>2. KeysStay /\ ShownKept' /\ session' \in Seq(Rows \cup {Ended})
  BY <1>1, RefreshedRow
<1>3. c.k \in Nat \ {0} /\ c.t \in 0..LastStep + 1
  BY SignInAssumption DEF Codes, SignInInv, SignInTypeOK
<1>4. r \in CodeVisits /\ r.pc = pc /\ r.s = s
  BY <1>1, CodePageTyped DEF CodePlaces
<1>5. \/ Begin(v, q)
      \/ UNCHANGED <<visit, counted>>
      \/ ~Enrolled(s) /\ Turn(v, r) /\ UNCHANGED counted
  BY DEF PostCode
<1>6. CASE Begin(v, q)
  <2>1. /\ q \in CodeVisits /\ q.d = d /\ q.k = c.k /\ q.s = s /\ q.pc \in {"secret", "pending"}
        /\ q.a \in Accounts
    <3>. HIDE DEF r
    <3>. QED  BY <1>3, <1>4 DEF CodeVisits
  <2>. HIDE DEF q, r, pc
  <2>2. CountedTyped(counted') /\ \E i \in Nat \ {0} : Turn(v, [q EXCEPT !.id = i, !.at = clock])
    BY <1>6, <2>1, BeginCounts
  <2>3. PICK i \in Nat \ {0} : Turn(v, [q EXCEPT !.id = i, !.at = clock])
    BY <2>2
  <2> DEFINE p == [q EXCEPT !.id = i, !.at = clock]
  <2>4. p \in CodeVisits /\ p.k # NoKey /\ p.s = s /\ p.pc \in {"secret", "pending"}
    <3>1. clock \in Nat /\ c.k # NoKey
      BY <1>3 DEF SignInInv, SignInTypeOK, NoKey
    <3>2. p.k = q.k /\ p.s = q.s /\ p.pc = q.pc
      BY <2>1 DEF CodeVisits
    <3>3. p \in CodeVisits
      BY <2>1, <3>1 DEF CodeVisits
    <3>. QED  BY <2>1, <3>1, <3>2, <3>3
  <2>. HIDE DEF p
  <2>5. Sane(p, session', operator')
    BY <1>2, <2>4 DEF Sane, KeysStay
  <2>6. Turn(v, p)
    BY <2>3 DEF p
  <2>7. VisitsSane' /\ visit' \in [Visits -> {NoVisit} \cup LoginVisits \cup CodeVisits]
    BY <1>2, <2>4, <2>5, <2>6, TurnKeeps
  <2>. QED  BY <1>1, <1>2, <2>2, <2>7, SessionsKeep DEF SignInInv, SignInTypeOK
<1>7. CASE UNCHANGED <<visit, counted>>
  <2>1. VisitsSane' /\ visit' \in [Visits -> {NoVisit} \cup LoginVisits \cup CodeVisits]
    BY <1>2, <1>7, RestKeeps
  <2>. QED  BY <1>1, <1>2, <1>7, <2>1, CountedIsTyped, SessionsKeep DEF SignInInv, SignInTypeOK
<1>8. CASE ~Enrolled(s) /\ Turn(v, r) /\ UNCHANGED counted
  <2>1. Turn(v, CodePage(v, s, "pending"))
    BY <1>8
  <2>2. VisitsSane' /\ visit' \in [Visits -> {NoVisit} \cup LoginVisits \cup CodeVisits]
    BY <1>1, <1>2, <2>1, PageTurns
  <2>. QED  BY <1>1, <1>2, <1>8, <2>2, CountedIsTyped, SessionsKeep DEF SignInInv, SignInTypeOK
<1>. QED  BY <1>5, <1>6, <1>7, <1>8

\* The key a session keeps is the one in use from then on.
LEMMA UseKeyKeeps ==
  ASSUME SignInInv, NEW v \in Visits, visit[v].pc \in CodePlaces, UNCHANGED operator,
         NEW key \in Nat \ {0}, UseKey(v, key),
         session[visit[v].s] # Ended, session[visit[v].s].pending \in {NoKey, key}
  PROVE  /\ ShownKept' /\ session' \in Seq(Rows \cup {Ended}) /\ VisitsSane'
         /\ visit' \in [Visits -> {NoVisit} \cup LoginVisits \cup CodeVisits]
<1> DEFINE s == visit[v].s
<1>1. visit[v] \in CodeVisits /\ s \in DOMAIN session
  BY VisitTyped
<1>2. session[s] \in Rows /\ session[s].shown \subseteq {session[s].pending} \ {NoKey}
  BY <1>1, RowTyped DEF SignInInv, ShownKept
<1>3. CASE visit[v].id = 0
  <2> DEFINE row == [session[s] EXCEPT !.pending = key, !.shown = @ \cup {key}]
  <2>1. row \in Rows /\ row.pending = key /\ row.shown = session[s].shown \cup {key}
    BY <1>2 DEF Rows
  <2>2. session' = [session EXCEPT ![s] = row] /\ Return(v)
    BY <1>1, <1>3 DEF UseKey, SignInInv, SignInTypeOK
  <2>3. row.shown \subseteq {row.pending} \ {NoKey}
    BY <1>2, <2>1 DEF NoKey
  <2>. HIDE DEF row
  <2>4. KeysStay /\ ShownKept' /\ session' \in Seq(Rows \cup {Ended})
    BY <1>1, <2>1, <2>2, <2>3, RowChanges
  <2>. QED  BY <2>2, <2>4, ReturnKeeps
<1>4. CASE visit[v].id # 0
  <2> DEFINE row == [session[s] EXCEPT !.pending = key]
             r == [visit[v] EXCEPT !.pc = "enroll", !.own = key]
  <2>1. row \in Rows /\ row.pending = key /\ row.shown = session[s].shown
    BY <1>2 DEF Rows
  <2>2. session' = [session EXCEPT ![s] = row] /\ Turn(v, r)
    BY <1>4 DEF UseKey
  <2>3. row.shown \subseteq {row.pending} \ {NoKey}
    BY <1>2, <2>1
  <2>4. r \in CodeVisits /\ r.pc = "enroll" /\ r.own = key /\ r.s = s
    BY <1>1 DEF CodeVisits, CodePlaces
  <2>. HIDE DEF row, r
  <2>5. KeysStay /\ ShownKept' /\ session' \in Seq(Rows \cup {Ended})
    BY <1>1, <2>1, <2>2, <2>3, RowChanges
  <2>6. s \in DOMAIN session' /\ session'[s] = row
    BY <1>1, <2>2 DEF SignInInv, SignInTypeOK
  <2>7. Sane(r, session', operator')
    BY <2>1, <2>4, <2>6 DEF Sane, NoKey
  <2>. QED  BY <2>2, <2>4, <2>5, <2>7, TurnKeeps
<1>. QED  BY <1>3, <1>4

LEMMA PendingKeeps ==
  ASSUME SignInInv, NEW v \in Visits, Pending(v)
  PROVE  SignInInv'
<1> DEFINE s == visit[v].s
<1>1. /\ visit[v].pc = "pending" /\ visit[v].pc \in CodePlaces
      /\ UNCHANGED <<operator, counted, keys, clock, entered>>
  BY DEF Pending, CodePlaces
<1>2. s \in DOMAIN session
  BY <1>1, VisitTyped
<1>3. \/ UNCHANGED session /\ Return(v)
      \/ UNCHANGED session /\ GoOn(v, "mint")
      \/ session[s] # Ended /\ session[s].pending # NoKey /\ UseKey(v, session[s].pending)
  BY DEF Pending
<1>4. CASE UNCHANGED session /\ (Return(v) \/ GoOn(v, "mint"))
  <2>1. VisitsSane' /\ visit' \in [Visits -> {NoVisit} \cup LoginVisits \cup CodeVisits]
    BY <1>1, <1>4, KeysStayWhenUnchanged, ReturnKeeps, GoOnKeeps
  <2>. QED  BY <1>1, <1>4, <2>1, CountedIsTyped, QuietKeeps DEF SignInInv, SignInTypeOK
<1>5. CASE session[s] # Ended /\ session[s].pending # NoKey /\ UseKey(v, session[s].pending)
  <2>1. session[s].pending \in Nat \ {0}
    BY <1>2, <1>5, RowTyped DEF Rows, NoKey
  <2>2. /\ ShownKept' /\ session' \in Seq(Rows \cup {Ended}) /\ VisitsSane'
        /\ visit' \in [Visits -> {NoVisit} \cup LoginVisits \cup CodeVisits]
    BY <1>1, <1>5, <2>1, UseKeyKeeps
  <2>. QED  BY <1>1, <2>2, CountedIsTyped, SessionsKeep DEF SignInInv, SignInTypeOK
<1>. QED  BY <1>3, <1>4, <1>5

LEMMA MintKeeps ==
  ASSUME SignInInv, NEW v \in Visits, Mint(v)
  PROVE  SignInInv'
<1> DEFINE s == visit[v].s
<1>1. /\ visit[v].pc = "mint" /\ visit[v].pc \in CodePlaces
      /\ UNCHANGED <<operator, counted, clock, entered>> /\ keys \in Nat
  BY DEF Mint, CodePlaces, SignInInv, SignInTypeOK
<1>2. CASE Vacant(s)
  <2>1. keys' = keys + 1 /\ UseKey(v, keys')
    BY <1>2 DEF Mint
  <2>2. session[s] # Ended /\ session[s].pending = NoKey /\ keys' \in Nat \ {0}
    BY <1>1, <1>2, <2>1 DEF Vacant
  <2>3. /\ ShownKept' /\ session' \in Seq(Rows \cup {Ended}) /\ VisitsSane'
        /\ visit' \in [Visits -> {NoVisit} \cup LoginVisits \cup CodeVisits]
    BY <1>1, <2>1, <2>2, UseKeyKeeps
  <2>. QED  BY <1>1, <2>2, <2>3, CountedIsTyped, SessionsKeep
<1>3. CASE ~Vacant(s)
  <2>1. GoOn(v, "pending") /\ UNCHANGED <<session, keys>>
    BY <1>3 DEF Mint
  <2>2. VisitsSane' /\ visit' \in [Visits -> {NoVisit} \cup LoginVisits \cup CodeVisits]
    BY <1>1, <2>1, KeysStayWhenUnchanged, GoOnKeeps
  <2>. QED  BY <1>1, <2>1, <2>2, CountedIsTyped, QuietKeeps DEF SignInInv, SignInTypeOK
<1>. QED  BY <1>2, <1>3

-----------------------------------------------------------------------------
(* Codes are accepted *)

LEMMA ReadSecretKeeps ==
  ASSUME SignInInv, NEW v \in Visits, ReadSecret(v)
  PROVE  SignInInv'
<1> DEFINE a == visit[v].a
<1>1. /\ visit[v].pc = "secret" /\ visit[v].pc \in CodePlaces /\ KeysStay
      /\ UNCHANGED <<operator, session, counted, keys, clock, entered>>
  BY KeysStayWhenUnchanged DEF ReadSecret, CodePlaces
<1>2. visit[v] \in CodeVisits /\ visit[v].s \in DOMAIN session
  BY <1>1, VisitTyped
<1>3. VisitsSane' /\ visit' \in [Visits -> {NoVisit} \cup LoginVisits \cup CodeVisits]
  <2>1. CASE CodeFails(v)
    BY <1>1, <2>1, FailureKeeps
  <2>2. CASE Matches(operator[a].key, visit[v]) /\ GoOn(v, "record")
    <3> DEFINE r == [visit[v] EXCEPT !.pc = "record"]
    <3>1. r \in CodeVisits /\ r.pc = "record" /\ r.s = visit[v].s /\ r.k = visit[v].k /\ r.a = a
      BY <1>2 DEF CodeVisits, CodePlaces
    <3>2. visit[v].k # NoKey
      BY <1>1 DEF SignInInv, VisitsSane, Sane
    <3>3. operator[a].key # NoKey
      BY <2>2, <3>2 DEF Matches
    <3>. HIDE DEF r
    <3>4. Sane(r, session', operator')
      BY <1>1, <1>2, <3>1, <3>2, <3>3 DEF Sane
    <3>5. Turn(v, r)
      BY <2>2 DEF GoOn, r
    <3>. QED  BY <1>1, <3>1, <3>4, <3>5, TurnKeeps
  <2>. QED  BY <2>1, <2>2 DEF ReadSecret
<1>. QED  BY <1>1, <1>3, CountedIsTyped, QuietKeeps DEF SignInInv, SignInTypeOK

\* An accepted code gives its visit the way to a session.
LEMMA AcceptTurns ==
  ASSUME SignInInv, KeysStay, NEW v \in Visits, visit[v].pc \in CodePlaces, Accept(v)
  PROVE  /\ VisitsSane' /\ visit' \in [Visits -> {NoVisit} \cup LoginVisits \cup CodeVisits]
         /\ entered' = [entered EXCEPT ![visit[v].a][visit[v].t] = @ + 1]
<1> DEFINE r == [visit[v] EXCEPT !.pc = "passed", !.k = NoKey, !.t = 0, !.own = NoKey]
<1>1. visit[v] \in CodeVisits /\ visit[v].s \in DOMAIN session
  BY VisitTyped
<1>2. r \in CodeVisits /\ r.pc = "passed" /\ r.s = visit[v].s
  <2>1. 0 \in 0..LastStep + 1 /\ NoKey \in Nat /\ "passed" \in CodePlaces
    BY SignInAssumption DEF CodePlaces, NoKey
  <2>. QED  BY <1>1, <2>1 DEF CodeVisits
<1>. HIDE DEF r
<1>3. Sane(r, session', operator')
  BY <1>1, <1>2 DEF Sane, KeysStay
<1>4. Turn(v, r) /\ entered' = [entered EXCEPT ![visit[v].a][visit[v].t] = @ + 1]
  BY DEF Accept, r
<1>. QED  BY <1>2, <1>3, <1>4, TurnKeeps

\* A code accepted after every recorded one, or first of all, is accepted once.
LEMMA AcceptedOnce ==
  ASSUME SignInInv, NEW a \in Accounts, NEW t \in 0..LastStep + 1,
         NEW key \in Nat \ {0},
         operator' = [operator EXCEPT ![a].key = key, ![a].last = t],
         operator[a].key = NoKey \/ operator[a].last < t,
         entered' = [entered EXCEPT ![a][t] = @ + 1]
  PROVE  /\ AcceptedRecorded'
         /\ operator' \in [Accounts -> [status : {"unknown", "active", "revoked"}, key : Nat, last : Nat]]
         /\ entered' \in [Accounts -> [0..LastStep + 1 -> Nat]]
<1>1. /\ operator \in [Accounts -> [status : {"unknown", "active", "revoked"}, key : Nat, last : Nat]]
      /\ entered \in [Accounts -> [0..LastStep + 1 -> Nat]] /\ LastStep \in Nat
  BY SignInAssumption DEF SignInInv, SignInTypeOK
<1>2. t \in Nat
  BY <1>1
<1>3. operator' \in [Accounts -> [status : {"unknown", "active", "revoked"}, key : Nat, last : Nat]]
  BY <1>1, <1>2
<1>4. /\ operator'[a].key = key /\ operator'[a].last = t
      /\ \A b \in Accounts : b # a => operator'[b] = operator[b]
  BY <1>1
<1>5. entered' \in [Accounts -> [0..LastStep + 1 -> Nat]]
  BY <1>1
<1>6. \A b \in Accounts, u \in 0..LastStep + 1 :
        entered'[b][u] = IF b = a /\ u = t THEN entered[a][t] + 1 ELSE entered[b][u]
  BY <1>1
<1>7. \A u \in 0..LastStep + 1 :
        /\ entered[a][u] <= 1
        /\ entered[a][u] # 0 => operator[a].key # NoKey /\ u <= operator[a].last
  BY DEF SignInInv, AcceptedRecorded
<1>8. entered[a][t] = 0 /\ \A u \in 0..LastStep + 1 : entered[a][u] # 0 => u <= t
  <2>1. operator[a].last \in Nat
    BY <1>1
  <2>. QED  BY <1>2, <1>7, <2>1
<1>9. ASSUME NEW b \in Accounts, NEW u \in 0..LastStep + 1
      PROVE  /\ entered'[b][u] <= 1
             /\ entered'[b][u] # 0 => operator'[b].key # NoKey /\ u <= operator'[b].last
  <2>1. CASE b = a
    BY <1>2, <1>4, <1>6, <1>7, <1>8, <2>1 DEF NoKey
  <2>2. CASE b # a
    <3>1. entered[b][u] <= 1 /\ (entered[b][u] # 0 => operator[b].key # NoKey /\ u <= operator[b].last)
      BY DEF SignInInv, AcceptedRecorded
    <3>2. operator'[b] = operator[b]
      BY <1>4, <2>2
    <3>3. entered'[b][u] = entered[b][u]
      BY <1>6, <2>2
    <3>. QED  BY <3>1, <3>2, <3>3
  <2>. QED  BY <2>1, <2>2
<1>10. AcceptedRecorded'
  BY <1>9 DEF AcceptedRecorded
<1>. QED  BY <1>3, <1>5, <1>10

LEMMA CodeAccepted ==
  ASSUME SignInInv, NEW v \in Visits, RecordStep(v) \/ Enroll(v),
         visit[v].pc \in CodePlaces, Accept(v), NEW key \in Nat \ {0},
         operator' = [operator EXCEPT ![visit[v].a].key = key, ![visit[v].a].last = visit[v].t],
         operator[visit[v].a].key = NoKey \/ operator[visit[v].a].last < visit[v].t
  PROVE  SignInInv'
<1>1. UNCHANGED <<session, counted, keys, clock>>
  BY DEF RecordStep, Enroll
<1>2. visit[v].a \in Accounts /\ visit[v].t \in 0..LastStep + 1
  BY VisitTyped DEF CodeVisits
<1>3. KeysStay
  BY <1>1, <1>2 DEF KeysStay, NoKey, SignInInv, SignInTypeOK
<1>4. /\ VisitsSane' /\ visit' \in [Visits -> {NoVisit} \cup LoginVisits \cup CodeVisits]
      /\ entered' = [entered EXCEPT ![visit[v].a][visit[v].t] = @ + 1]
  BY <1>3, AcceptTurns
<1>5. /\ AcceptedRecorded'
      /\ operator' \in [Accounts -> [status : {"unknown", "active", "revoked"}, key : Nat, last : Nat]]
      /\ entered' \in [Accounts -> [0..LastStep + 1 -> Nat]]
  BY <1>2, <1>4, AcceptedOnce
<1>. QED  BY <1>1, <1>4, <1>5 DEF SignInInv, SignInTypeOK, ShownKept

LEMMA RecordStepKeeps ==
  ASSUME SignInInv, NEW v \in Visits, RecordStep(v)
  PROVE  SignInInv'
<1> DEFINE a == visit[v].a
<1>1. /\ visit[v].pc = "record" /\ visit[v].pc \in CodePlaces
      /\ UNCHANGED <<session, counted, keys, clock>>
  BY DEF RecordStep, CodePlaces
<1>2. CASE Recordable(v)
  <2>1. a \in Accounts
    BY <1>1, VisitTyped DEF CodeVisits
  <2>2. operator[a].key # NoKey
    BY <1>1 DEF SignInInv, VisitsSane, Sane
  <2>3. operator' = [operator EXCEPT ![a].last = visit[v].t] /\ Accept(v)
    BY <1>2 DEF RecordStep
  <2>4. operator[a].key \in Nat \ {0}
    BY <2>1, <2>2 DEF NoKey, SignInInv, SignInTypeOK
  <2>5. operator' = [operator EXCEPT ![a].key = operator[a].key, ![a].last = visit[v].t]
    BY <2>1, <2>3 DEF SignInInv, SignInTypeOK
  <2>. QED  BY <1>1, <1>2, <2>3, <2>4, <2>5, CodeAccepted DEF Recordable
<1>3. CASE ~Recordable(v)
  <2>1. CodeFails(v) /\ UNCHANGED <<operator, entered>>
    BY <1>3 DEF RecordStep
  <2>2. VisitsSane' /\ visit' \in [Visits -> {NoVisit} \cup LoginVisits \cup CodeVisits]
    BY <1>1, <2>1, FailureKeeps, KeysStayWhenUnchanged
  <2>. QED  BY <1>1, <2>1, <2>2, CountedIsTyped, QuietKeeps DEF SignInInv, SignInTypeOK
<1>. QED  BY <1>2, <1>3

LEMMA EnrollKeeps ==
  ASSUME SignInInv, NEW v \in Visits, Enroll(v)
  PROVE  SignInInv'
<1> DEFINE a == visit[v].a
<1>1. /\ visit[v].pc = "enroll" /\ visit[v].pc \in CodePlaces
      /\ UNCHANGED <<session, counted, keys, clock>>
  BY DEF Enroll, CodePlaces
<1>2. \/ /\ operator[a].key = NoKey
         /\ operator' = [operator EXCEPT ![a].key = visit[v].own, ![a].last = visit[v].t]
         /\ Accept(v)
      \/ CodeFails(v) /\ UNCHANGED <<operator, entered>>
  BY DEF Enroll
<1>3. CASE /\ operator[a].key = NoKey
           /\ operator' = [operator EXCEPT ![a].key = visit[v].own, ![a].last = visit[v].t]
           /\ Accept(v)
  <2>1. visit[v].own \in Nat
    BY <1>1, VisitTyped DEF CodeVisits
  <2>2. visit[v].own # NoKey
    BY <1>1 DEF SignInInv, VisitsSane, Sane
  <2>. QED  BY <1>1, <1>3, <2>1, <2>2, CodeAccepted DEF NoKey
<1>4. CASE CodeFails(v) /\ UNCHANGED <<operator, entered>>
  <2>1. VisitsSane' /\ visit' \in [Visits -> {NoVisit} \cup LoginVisits \cup CodeVisits]
    BY <1>1, <1>4, FailureKeeps, KeysStayWhenUnchanged
  <2>. QED  BY <1>1, <1>4, <2>1, CountedIsTyped, QuietKeeps DEF SignInInv, SignInTypeOK
<1>. QED  BY <1>2, <1>3, <1>4

-----------------------------------------------------------------------------
(* The session of a sign-in, operators, time and failures *)

LEMMA SessionOpensKeeps ==
  ASSUME SignInInv, NEW v \in Visits, EndPasswordSession(v) \/ OpenActiveSession(v)
  PROVE  SignInInv'
<1>1. /\ visit[v].pc \in CodePlaces /\ UNCHANGED <<operator, keys, clock, entered>>
      /\ keys' \in Nat
  BY DEF EndPasswordSession, OpenActiveSession, CodePlaces, SignInInv, SignInTypeOK
<1>2. visit[v] \in CodeVisits /\ visit[v].s \in DOMAIN session
  BY <1>1, VisitTyped
<1>3. CASE EndPasswordSession(v)
  <2>1. Cleared(visit[v]) /\ (session' = Deleted(visit[v].s) \/ UNCHANGED session) /\ GoOn(v, "open")
    BY <1>3 DEF EndPasswordSession
  <2>2. KeysStay /\ ShownKept' /\ session' \in Seq(Rows \cup {Ended})
    BY <1>1, <1>2, <2>1, DeletedRow
  <2>3. VisitsSane' /\ visit' \in [Visits -> {NoVisit} \cup LoginVisits \cup CodeVisits]
    BY <1>1, <2>1, <2>2, GoOnKeeps
  <2>4. CountedTyped(counted')
    BY <2>1, CountsFall
  <2>. QED  BY <1>1, <2>2, <2>3, <2>4, SessionsKeep
<1>4. CASE OpenActiveSession(v)
  <2> DEFINE row == SessionRow(visit[v].a, "active", visit[v].at)
             rows == Append(session, row)
  <2>1. session' = Swept(rows, visit[v].at) /\ Return(v) /\ UNCHANGED counted
    BY <1>4 DEF OpenActiveSession
  <2>2. row \in Rows /\ row.shown = {}
    <3>1. visit[v].a \in Accounts /\ visit[v].at \in Nat
      BY <1>2 DEF CodeVisits
    <3>. QED  BY <3>1, SignInAssumption DEF SessionRow, Rows, NoKey
  <2>. HIDE DEF row
  <2>3. session \in Seq(Rows \cup {Ended})
    BY DEF SignInInv, SignInTypeOK
  <2>4. /\ rows \in Seq(Rows \cup {Ended}) /\ Len(rows) = Len(session) + 1
        /\ DOMAIN rows = DOMAIN session \cup {Len(session) + 1}
        /\ rows[Len(session) + 1] = row
        /\ \A s \in DOMAIN session : rows[s] = session[s]
    BY <2>2, <2>3
  <2>. HIDE DEF rows
  <2>5. /\ DOMAIN session' = DOMAIN rows
        /\ \A s \in DOMAIN rows : session'[s] \in {rows[s], Ended}
    BY <2>1 DEF Swept
  <2>6. session' \in Seq(Rows \cup {Ended})
    <3>1. DOMAIN rows = 1..Len(rows) /\ Len(rows) \in Nat
      <4>1. rows \in Seq(Rows \cup {Ended})
        BY <2>4
      <4>. QED  BY <4>1
    <3>2. \A s \in 1..Len(rows) : session'[s] \in Rows \cup {Ended}
      BY <2>4, <2>5, <3>1
    <3>3. session' = [s \in 1..Len(rows) |-> session'[s]]
      BY <2>1, <3>1 DEF Swept
    <3>. QED  BY <3>1, <3>2, <3>3
  <2>7. KeysStay
    BY <1>1, <2>4, <2>5 DEF KeysStay
  <2>8. ShownKept'
    BY <2>2, <2>4, <2>5 DEF SignInInv, ShownKept
  <2>9. VisitsSane' /\ visit' \in [Visits -> {NoVisit} \cup LoginVisits \cup CodeVisits]
    BY <2>1, <2>7, ReturnKeeps
  <2>. QED  BY <1>1, <2>1, <2>6, <2>8, <2>9, CountedIsTyped, SessionsKeep
<1>. QED  BY <1>3, <1>4

LEMMA OtherPagesKeep ==
  ASSUME SignInInv, NEW s \in DOMAIN session, OtherPage(s) \/ DropSession(s)
  PROVE  SignInInv'
<1>1. UNCHANGED <<operator, counted, visit, keys, clock, entered>>
  BY DEF OtherPage, DropSession
<1>2. KeysStay /\ ShownKept' /\ session' \in Seq(Rows \cup {Ended})
  BY <1>1, RefreshedRow, DeletedRow DEF OtherPage, DropSession, Live
<1>3. VisitsSane' /\ visit' \in [Visits -> {NoVisit} \cup LoginVisits \cup CodeVisits]
  BY <1>1, <1>2, RestKeeps
<1>. QED  BY <1>1, <1>2, <1>3, CountedIsTyped, SessionsKeep DEF SignInInv, SignInTypeOK

LEMMA OperatorsKeepKeys ==
  ASSUME SignInInv, NEW a \in Accounts, AddOperator(a) \/ RevokeOperator(a)
  PROVE  SignInInv'
<1>1. /\ UNCHANGED <<counted, visit, keys, clock, entered>>
      /\ operator \in [Accounts -> [status : {"unknown", "active", "revoked"}, key : Nat, last : Nat]]
      /\ session \in Seq(Rows \cup {Ended})
  BY DEF AddOperator, RevokeOperator, SignInInv, SignInTypeOK
<1>2. PICK status \in {"active", "revoked"} : operator' = [operator EXCEPT ![a].status = status]
  BY DEF AddOperator, RevokeOperator
<1>3. /\ operator' \in [Accounts -> [status : {"unknown", "active", "revoked"}, key : Nat, last : Nat]]
      /\ \A b \in Accounts : operator'[b].key = operator[b].key /\ operator'[b].last = operator[b].last
  BY <1>1, <1>2
<1>4. AcceptedRecorded'
  BY <1>1, <1>3 DEF SignInInv, AcceptedRecorded
<1>5. /\ DOMAIN session' = DOMAIN session /\ session' \in Seq(Rows \cup {Ended})
      /\ \A s \in DOMAIN session : session'[s] \in {session[s], Ended}
  <2>1. CASE AddOperator(a)
    BY <1>1, <2>1 DEF AddOperator
  <2>2. CASE RevokeOperator(a)
    <3> DEFINE after(s) == IF session[s] # Ended /\ session[s].owner = a THEN Ended ELSE session[s]
    <3>1. session' = [s \in 1..Len(session) |-> after(s)] /\ Len(session) \in Nat
      BY <1>1, <2>2 DEF RevokeOperator
    <3>2. \A s \in 1..Len(session) : after(s) \in {session[s], Ended} /\ session[s] \in Rows \cup {Ended}
      BY <1>1
    <3>. HIDE DEF after
    <3>3. DOMAIN session = 1..Len(session) /\ DOMAIN session' = 1..Len(session)
      BY <1>1, <3>1
    <3>4. \A s \in 1..Len(session) : session'[s] = after(s)
      BY <3>1
    <3>5. session' \in Seq(Rows \cup {Ended})
      BY <3>1, <3>2
    <3>. QED  BY <3>2, <3>3, <3>4, <3>5
  <2>. QED  BY <2>1, <2>2
<1>6. KeysStay /\ ShownKept'
  BY <1>3, <1>5, RowsEnd
<1>7. VisitsSane' /\ visit' \in [Visits -> {NoVisit} \cup LoginVisits \cup CodeVisits]
  BY <1>1, <1>6, RestKeeps
<1>. QED  BY <1>1, <1>3, <1>4, <1>5, <1>6, <1>7 DEF SignInInv, SignInTypeOK

LEMMA TimeAndFailuresKeep ==
  ASSUME SignInInv, StepPasses \/ Restart \/ \E v \in Visits : StatementFails(v)
  PROVE  SignInInv'
<1>1. CASE StepPasses
  <2>1. UNCHANGED <<operator, session, counted, visit, keys, entered>> /\ clock' \in 1..LastStep
    BY <1>1, SignInAssumption DEF StepPasses, SignInInv, SignInTypeOK
  <2>2. VisitsSane' /\ visit' \in [Visits -> {NoVisit} \cup LoginVisits \cup CodeVisits]
    BY <2>1, RestKeeps, KeysStayWhenUnchanged
  <2>. QED  BY <2>1, <2>2, CountedIsTyped, QuietKeeps
<1>2. CASE Restart
  <2>1. UNCHANGED <<operator, session, keys, clock, entered>> /\ CountedTyped(counted')
    BY <1>2 DEF Restart, CountedTyped
  <2>2. VisitsSane' /\ visit' \in [Visits -> {NoVisit} \cup LoginVisits \cup CodeVisits]
    BY <1>2 DEF Restart, VisitsSane, Sane, NoVisit, CodePlaces
  <2>. QED  BY <2>1, <2>2, QuietKeeps DEF SignInInv, SignInTypeOK
<1>3. ASSUME NEW v \in Visits, StatementFails(v) PROVE SignInInv'
  <2>1. UNCHANGED <<operator, session, counted, keys, clock, entered>> /\ KeysStay
    BY <1>3, KeysStayWhenUnchanged DEF StatementFails
  <2>2. Return(v) \/ (visit[v].pc \in CodePlaces /\ CodeFails(v))
    BY <1>3 DEF StatementFails, CodePlaces
  <2>3. VisitsSane' /\ visit' \in [Visits -> {NoVisit} \cup LoginVisits \cup CodeVisits]
    BY <2>1, <2>2, ReturnKeeps, FailureKeeps
  <2>. QED  BY <2>1, <2>3, CountedIsTyped, QuietKeeps DEF SignInInv, SignInTypeOK
<1>. QED  BY <1>1, <1>2, <1>3

LEMMA SignInPreserved == SignInInv /\ [SignInNext]_signVars => SignInInv'
<1>. SUFFICES ASSUME SignInInv, [SignInNext]_signVars PROVE SignInInv'
  OBVIOUS
<1>1. ASSUME NEW v \in Visits, LoginStep(v) PROVE SignInInv'
  BY <1>1, LoginKeeps, PasswordKeeps, PasswordRightKeeps DEF LoginStep
<1>2. ASSUME NEW v \in Visits, CodeStep(v) PROVE SignInInv'
  BY <1>2, OpenPageKeeps, PostCodeKeeps, PendingKeeps, MintKeeps, ReadSecretKeeps,
     RecordStepKeeps, EnrollKeeps, SessionOpensKeeps DEF CodeStep
<1>3. CASE UNCHANGED signVars
  <2>1. UNCHANGED <<operator, session, counted, visit, keys, clock, entered>>
    BY <1>3 DEF signVars
  <2>2. VisitsSane' /\ visit' \in [Visits -> {NoVisit} \cup LoginVisits \cup CodeVisits]
    BY <2>1, RestKeeps, KeysStayWhenUnchanged
  <2>. QED  BY <2>1, <2>2, CountedIsTyped, QuietKeeps DEF SignInInv, SignInTypeOK
<1>. QED
  BY <1>1, <1>2, <1>3, OtherPagesKeep, OperatorsKeepKeys, TimeAndFailuresKeep DEF SignInNext

\* The keys a session's pages have shown are at most the one it keeps.
LEMMA OneKey ==
  ASSUME SignInInv PROVE OneKeyShown
<1>. SUFFICES ASSUME NEW s \in DOMAIN session, session[s] # Ended
              PROVE  /\ Cardinality(session[s].shown) <= 1
                     /\ \A v \in Visits : visit[v].pc = "enroll" /\ visit[v].s = s
                                           => session[s].shown \subseteq {visit[v].own}
  BY DEF OneKeyShown
<1>1. session[s].shown \subseteq {session[s].pending}
  BY DEF SignInInv, ShownKept
<1>2. Cardinality(session[s].shown) <= 1
  <2>1. CASE session[s].shown = {}
    BY <2>1, FS_EmptySet
  <2>2. CASE session[s].shown # {}
    <3>1. session[s].shown = {session[s].pending}
      BY <1>1, <2>2
    <3>2. Cardinality(session[s].shown) = 1
      BY <3>1, FS_Singleton
    <3>. QED  BY <3>2
  <2>. QED  BY <2>1, <2>2
<1>3. ASSUME NEW v \in Visits, visit[v].pc = "enroll", visit[v].s = s
      PROVE  session[s].pending = visit[v].own
  <2>1. Sane(visit[v], session, operator)
    BY DEF SignInInv, VisitsSane
  <2>. QED  BY <1>3, <2>1 DEF Sane, CodePlaces
<1>. QED  BY <1>1, <1>2, <1>3

\* The strengthening of the sign-in holds throughout: an accepted code is of a
\* recorded step, and a session's key never changes while a request enrols it.
THEOREM SignInInductive == SignInSpec => []SignInInv
<1>1. SignInInv /\ [SignInNext]_signVars => SignInInv'
  BY SignInPreserved
<1>. QED  BY <1>1, SignInStarts, PTL DEF SignInSpec

\* Every variable of the sign-in keeps its type.
THEOREM SignInTypeCorrect == SignInSpec => []SignInTypeOK
<1>1. SignInInv => SignInTypeOK
  BY DEF SignInInv
<1>. QED  BY <1>1, SignInInductive, PTL

\* No code of an authenticator is accepted twice, and the key an account is
\* enrolled with is the one every page of its session has shown (operators.go,
\* checkTOTP, enrollTOTP and pendingTOTP).
THEOREM SecondFactorWorks == SignInSpec => []SecondFactorHolds
<1>1. SignInInv => SecondFactorHolds
  <2>1. ASSUME SignInInv PROVE CodeSignsInOnce
    BY <2>1 DEF SignInInv, SignInTypeOK, AcceptedRecorded, CodeSignsInOnce
  <2>. QED  BY <2>1, OneKey DEF SecondFactorHolds
<1>. QED  BY <1>1, SignInInductive, PTL

-----------------------------------------------------------------------------
(* Token grants.  A row is exchanged once because the transaction that      *)
(* exchanges it marks it, and because a row's place is never taken again: a *)
(* deleted row stays deleted.  The rest is what a call that waits may still *)
(* rely on: rows, grants and devices only ever lose their standing.         *)

Kinds == {"none", "code", "access", "refresh"}

TokenRows == [kind : Kinds, grant : Grants \cup {NoGrant}, expires : Nat, used : BOOLEAN]

\* Steps of a token request, and of a request for the MCP endpoint.
TokenPlaces   == {"check", "standing", "issue", "reuse"}
RequestPlaces == {"grant", "device", "body", "again", "serve"}

CallRecords ==
  [pc : TokenPlaces \cup RequestPlaces \cup {"idle", "authorize", "answer"},
   device : Devices \cup {"none"}, id : Nat, row : TokenRows, at : Nat,
   until : Nat, answer : SUBSET Ids, body : BOOLEAN, late : BOOLEAN]

\* Every variable has its type.
TokensTypeOK ==
  /\ revoked \in SUBSET Devices /\ until \in [Devices -> Nat]
  /\ grant \in [Grants -> [device : Devices \cup {"none"}, revoked : BOOLEAN]]
  /\ token \in [Ids -> TokenRows] /\ inserted \in Nat
  /\ outbox \in SUBSET Grants /\ held \in SUBSET Ids
  /\ call \in [Calls -> CallRecords]
  /\ now \in Nat /\ failures \in Nat
  /\ redeemed \in [Ids -> Nat] /\ caught \in SUBSET Grants

Made(g) == g \in Grants /\ grant[g].device \in Devices

\* What the tables say of each row, beyond its type.
RowsValid ==
  \A i \in Ids : /\ token[i].kind # "none" => i <= inserted /\ Made(token[i].grant)
                 /\ token[i].kind = "access" => ~token[i].used

\* An exchanged row is marked or deleted, and one still to come is untouched.
Exchanged ==
  \A i \in Ids : /\ i > inserted => redeemed[i] = 0
                 /\ \/ redeemed[i] = 0
                    \/ redeemed[i] = 1 /\ (token[i].kind = "none" \/ token[i].used)

\* A revocation is a fact for the log, and what was caught is revoked.
Recorded ==
  /\ \A g \in Grants : grant[g].revoked => g \in outbox /\ Made(g)
  /\ \A g \in caught : grant[g].revoked

\* What a waiting call r may rely on.
CallValid(r) ==
  /\ r.pc \in TokenPlaces \cup RequestPlaces =>
       /\ r.id \in Ids /\ r.id <= inserted
       /\ Made(r.row.grant)
       /\ token[r.id].kind \in {r.row.kind, "none"}
  /\ r.pc \in TokenPlaces => r.row.kind \in {"code", "refresh"}
  /\ r.pc = "authorize" => r.device \in Devices
  /\ r.pc \notin {"check", "reuse"} => ~r.row.used
  /\ r.late => /\ r.pc \in {"again", "grant", "device"} /\ ~r.body
               /\ \/ grant[r.row.grant].revoked /\ r.pc # "device"
                  \/ grant[r.row.grant].device \in revoked

CallsValid == \A c \in Calls : CallValid(call[c])

TokensInv == TokensTypeOK /\ RowsValid /\ Exchanged /\ Recorded /\ CallsValid

\* TokenRows, grants and devices only lose their standing.
OnlyLoses ==
  /\ inserted <= inserted' /\ revoked \subseteq revoked'
  /\ \A g \in Grants : Made(g) => /\ grant'[g].device = grant[g].device
                                  /\ grant[g].revoked => grant'[g].revoked
  /\ \A i \in Ids : i <= inserted => token'[i].kind \in {token[i].kind, "none"}

-----------------------------------------------------------------------------

THEOREM Initially == Init => TokensInv
<1> SUFFICES ASSUME Init PROVE TokensInv
  OBVIOUS
<1>1. Idle \in CallRecords /\ Idle.pc = "idle" /\ ~Idle.row.used /\ ~Idle.late
  BY DEF Idle, CallRecords, NoToken, TokenRows, Kinds
<1>2. TokensTypeOK
  BY <1>1, BoundsAssumption DEF Init, TokensTypeOK, Unmade, NoToken, TokenRows, Kinds, Ids
<1>3. RowsValid /\ Exchanged /\ Recorded
  BY DEF Init, RowsValid, Exchanged, Recorded, NoToken, Unmade, Ids
<1>4. CallsValid
  BY <1>1 DEF Init, CallsValid, CallValid, TokenPlaces, RequestPlaces
<1>. QED  BY <1>2, <1>3, <1>4 DEF TokensInv

\* A call that waits keeps what it relies on, whatever others do.
LEMMA StillValid ==
  ASSUME TokensInv, OnlyLoses, TokensTypeOK', NEW d \in Calls, call'[d] = call[d]
  PROVE  CallValid(call[d])'
<1>1. CallValid(call[d]) /\ call[d] \in CallRecords
  BY DEF TokensInv, CallsValid, TokensTypeOK
<1>2. CASE call[d].pc \in TokenPlaces \cup RequestPlaces
  <2> DEFINE g == call[d].row.grant
             i == call[d].id
  <2>1. g \in Grants /\ i \in Ids /\ i <= inserted /\ Made(g)
        /\ token[i].kind \in {call[d].row.kind, "none"}
    BY <1>1, <1>2 DEF CallValid, Made
  <2>2. i <= inserted' /\ token'[i].kind \in {call[d].row.kind, "none"}
    BY <2>1 DEF OnlyLoses, TokensInv, TokensTypeOK, Ids
  <2>3. /\ grant'[g].device = grant[g].device
        /\ grant[g].revoked => grant'[g].revoked
        /\ revoked \subseteq revoked'
    BY <2>1 DEF OnlyLoses
  <2>4. Made(g)'
    BY <2>1, <2>3 DEF Made
  <2>. QED  BY <1>1, <2>1, <2>2, <2>3, <2>4 DEF CallValid
<1>3. CASE call[d].pc \notin TokenPlaces \cup RequestPlaces
  BY <1>1, <1>3 DEF CallValid, TokenPlaces, RequestPlaces
<1>. QED  BY <1>2, <1>3

\* Operators, and whatever else leaves calls alone.
LEMMA OthersKeep ==
  ASSUME TokensInv, OnlyLoses, TokensTypeOK', RowsValid', Exchanged', Recorded', call' = call
  PROVE  TokensInv'
BY StillValid DEF TokensInv, CallsValid

\* A call that changes the tables and goes on as a valid r.
LEMMA CallKeeps ==
  ASSUME TokensInv, OnlyLoses, TokensTypeOK', RowsValid', Exchanged', Recorded',
         NEW c \in Calls, NEW r, Become(c, r), CallValid(call[c])'
  PROVE  TokensInv'
<1>1. \A d \in Calls : d # c => call'[d] = call[d]
  BY DEF Become, TokensInv, TokensTypeOK
<1>2. ASSUME NEW d \in Calls PROVE CallValid(call[d])'
  BY <1>1, StillValid
<1>. QED  BY <1>2 DEF TokensInv, CallsValid

LEMMA TokenReadsKeep ==
  ASSUME TokensInv, NEW c \in Calls, NEW r \in CallRecords, Reads(c, r), CallValid(r)
  PROVE  TokensInv'
<1>1. OnlyLoses /\ RowsValid' /\ Exchanged' /\ Recorded'
  BY DEF TokensInv, TokensTypeOK, Reads, tables, ghosts, OnlyLoses, RowsValid, Exchanged, Recorded, Made
<1>2. TokensTypeOK' /\ call'[c] = r
  BY DEF TokensInv, TokensTypeOK, Reads, Become, tables, bounds, ghosts
<1>3. CallValid(call[c])'
  BY <1>2 DEF CallValid, Reads, tables, Made
<1>. QED  BY <1>1, <1>2, <1>3, CallKeeps DEF Reads

LEMMA IdleValid ==
  /\ Idle \in CallRecords
  /\ Idle.pc = "idle" /\ ~Idle.row.used /\ ~Idle.late
  /\ CallValid(Idle)
BY DEF Idle, CallRecords, NoToken, TokenRows, Kinds, CallValid, TokenPlaces, RequestPlaces

\* A call may end once the grant of a used token it read is revoked.
LEMMA EndsKeep ==
  ASSUME TokensInv, NEW c \in Calls, Ends(c),
         call[c].row.used => call[c].row.grant \in Grants /\ grant[call[c].row.grant].revoked
  PROVE  TokensInv'
<1>1. OnlyLoses /\ RowsValid' /\ Exchanged'
  BY DEF TokensInv, TokensTypeOK, Ends, tables, OnlyLoses, RowsValid, Exchanged, Made
<1>2. Recorded'
  BY DEF TokensInv, Ends, tables, Recorded, Made
<1>3. TokensTypeOK' /\ call'[c] = Idle
  BY IdleValid DEF TokensInv, TokensTypeOK, Ends, Become, tables, bounds
<1>4. CallValid(call[c])'
  BY <1>3, IdleValid DEF CallValid, TokenPlaces, RequestPlaces
<1>. QED  BY <1>1, <1>2, <1>3, <1>4, CallKeeps DEF Ends

-----------------------------------------------------------------------------
(* Operators and time *)

LEMMA TokenOperatorsKeep ==
  ASSUME TokensInv, Operators PROVE TokensInv'
<1> USE DEF TokensInv, TokensTypeOK
<1>1. CASE \E g \in Grants : RevokeGrant(g)
  <2> PICK g \in Grants : RevokeGrant(g)
    BY <1>1
  <2>1. /\ \A h \in Grants : /\ grant'[h].device = grant[h].device
                             /\ grant[h].revoked => grant'[h].revoked
                             /\ grant'[h].revoked => grant[h].revoked \/ h = g
        /\ Made(g)
    BY DEF RevokeGrant, RevokeRow, Made, Unmade, Recorded
  <2>2. OnlyLoses
    BY <2>1 DEF RevokeGrant, OnlyLoses
  <2>3. TokensTypeOK'
    BY DEF RevokeGrant, RevokeRow, bounds, ghosts
  <2>4. RowsValid' /\ Exchanged' /\ Recorded'
    BY <2>1 DEF RevokeGrant, RevokeRow, RowsValid, Exchanged, Recorded, Made, ghosts
  <2>. QED  BY <2>2, <2>3, <2>4, OthersKeep DEF RevokeGrant
<1>2. CASE \E d \in Devices : \/ Deactivate(d) \/ RevokeDevice(d)
                              \/ \E n \in Durations : Activate(d, n)
  <2>1. /\ UNCHANGED <<grant, token, outbox, inserted, call, held, bounds, ghosts>>
        /\ revoked \subseteq revoked' /\ revoked' \in SUBSET Devices
        /\ until' \in [Devices -> Nat]
    BY <1>2, BoundsAssumption DEF Deactivate, RevokeDevice, Activate
  <2>2. OnlyLoses /\ TokensTypeOK' /\ RowsValid' /\ Exchanged' /\ Recorded'
    BY <2>1 DEF OnlyLoses, RowsValid, Exchanged, Recorded, Made, bounds, ghosts
  <2>. QED  BY <2>1, <2>2, OthersKeep
<1>. QED  BY <1>1, <1>2 DEF Operators

LEMMA TickKeeps ==
  ASSUME TokensInv, Tick PROVE TokensInv'
<1>1. OnlyLoses /\ TokensTypeOK' /\ RowsValid' /\ Exchanged' /\ Recorded' /\ call' = call
  BY DEF TokensInv, TokensTypeOK, Tick, tables, ghosts, OnlyLoses, RowsValid, Exchanged, Recorded, Made
<1>. QED  BY <1>1, OthersKeep

-----------------------------------------------------------------------------
(* Calls *)

LEMMA FailKeeps ==
  ASSUME TokensInv, NEW c \in Calls, Fail(c) PROVE TokensInv'
<1>1. OnlyLoses /\ RowsValid' /\ Exchanged' /\ Recorded'
  BY DEF TokensInv, TokensTypeOK, Fail, tables, ghosts, OnlyLoses, RowsValid, Exchanged, Recorded, Made
<1>2. TokensTypeOK' /\ call'[c] = Idle
  BY IdleValid DEF TokensInv, TokensTypeOK, Fail, Become, tables, ghosts
<1>3. CallValid(call[c])'
  BY <1>2, IdleValid DEF CallValid, TokenPlaces, RequestPlaces
<1>. QED  BY <1>1, <1>2, <1>3, CallKeeps DEF Fail

LEMMA TokenAnswerKeeps ==
  ASSUME TokensInv, NEW c \in Calls, Answer(c) PROVE TokensInv'
<1>1. OnlyLoses /\ RowsValid' /\ Exchanged' /\ Recorded'
  BY DEF TokensInv, TokensTypeOK, Answer, tables, ghosts, OnlyLoses, RowsValid, Exchanged, Recorded, Made
<1>2. TokensTypeOK' /\ call'[c] = Idle
  BY IdleValid DEF TokensInv, TokensTypeOK, Answer, Become, tables, bounds, ghosts, CallRecords
<1>3. CallValid(call[c])'
  BY <1>2, IdleValid DEF CallValid, TokenPlaces, RequestPlaces
<1>. QED  BY <1>1, <1>2, <1>3, CallKeeps DEF Answer

LEMMA ConsentKeeps ==
  ASSUME TokensInv, NEW c \in Calls, NEW d \in Devices, Consent(c, d) PROVE TokensInv'
<1> DEFINE r == [Idle EXCEPT !.pc = "authorize", !.device = d, !.at = now]
<1>1. r \in CallRecords
  BY DEF TokensInv, TokensTypeOK, Idle, CallRecords, NoToken, TokenRows, Kinds
<1>2. CallValid(r)
  BY DEF Idle, NoToken, CallValid, TokenPlaces, RequestPlaces
<1>3. Reads(c, r)
  BY DEF Consent
<1>. QED  BY <1>1, <1>2, <1>3, TokenReadsKeep

\* The new row and the new grant touch nothing a call relies on.
LEMMA AuthorizeKeeps ==
  ASSUME TokensInv, NEW c \in Calls, NEW g \in Grants, Authorize(c, g) PROVE TokensInv'
<1> DEFINE code == inserted + 1
           new  == Row("code", g, call[c].at + CodeLifetime)
<1>0. /\ call[c] \in CallRecords /\ CallValid(call[c]) /\ call[c].pc = "authorize"
      /\ code \in Ids /\ grant[g] = Unmade /\ inserted' = code /\ inserted \in Nat
  BY DEF TokensInv, TokensTypeOK, CallsValid, Authorize
<1>1. new \in TokenRows /\ new.kind = "code" /\ ~new.used /\ new.grant = g
  BY <1>0, BoundsAssumption DEF Row, TokenRows, Kinds, CallRecords
<1>2. ~Made(g) /\ ~grant[g].revoked
  BY <1>0, BoundsAssumption DEF Made, Unmade
<1>3. token[code].kind = "none"
  BY <1>0 DEF TokensInv, RowsValid
<1>4. \A i \in Ids : token'[i] = IF i = code THEN new ELSE token[i]
  BY <1>0 DEF Authorize, TokensInv, TokensTypeOK
<1>5. /\ call[c].device \in Devices
      /\ \A h \in Grants : grant'[h] = IF h = g
           THEN [device |-> call[c].device, revoked |-> FALSE] ELSE grant[h]
  BY <1>0 DEF Authorize, TokensInv, TokensTypeOK, CallValid
<1>6. Made(g)' /\ \A h \in Grants : Made(h) => Made(h)'
  BY <1>5 DEF Made
<1>7. OnlyLoses
  BY <1>0, <1>2, <1>4, <1>5 DEF OnlyLoses, Authorize, Made
<1>8. TokensTypeOK'
  <2>1. token' \in [Ids -> TokenRows]
    BY <1>1 DEF Authorize, TokensInv, TokensTypeOK
  <2>2. [call[c] EXCEPT !.pc = "answer", !.answer = {code}] \in CallRecords
    BY <1>0 DEF CallRecords
  <2>. HIDE DEF code, new
  <2>4. call' \in [Calls -> CallRecords]
    BY <2>2 DEF Authorize, Become, TokensInv, TokensTypeOK, code
  <2>3. grant' \in [Grants -> [device : Devices \cup {"none"}, revoked : BOOLEAN]]
    BY <1>5 DEF Authorize, TokensInv, TokensTypeOK
  <2>. QED  BY <1>0, <2>1, <2>3, <2>4 DEF Authorize, TokensInv, TokensTypeOK, bounds, ghosts
<1>9. RowsValid'
  <2> SUFFICES ASSUME NEW i \in Ids
               PROVE  /\ token'[i].kind # "none" => i <= inserted' /\ Made(token[i].grant)'
                      /\ token'[i].kind = "access" => ~token'[i].used
    BY DEF RowsValid
  <2>1. CASE i = code
    BY <2>1, <1>0, <1>1, <1>4, <1>6 DEF Made
  <2>2. CASE i # code
    <3>1. token'[i] = token[i]
      BY <2>2, <1>4
    <3>2. token[i].kind # "none" => i <= inserted' /\ Made(token[i].grant)
      BY <1>0 DEF TokensInv, RowsValid, Ids
    <3>. QED  BY <3>1, <3>2, <1>6 DEF TokensInv, RowsValid, Made
  <2>. QED  BY <2>1, <2>2
<1>10. Exchanged'
  BY <1>0, <1>1, <1>3, <1>4 DEF Authorize, ghosts, TokensInv, TokensTypeOK, Exchanged, Ids
<1>11. Recorded'
  BY <1>2, <1>5, <1>6 DEF Authorize, ghosts, TokensInv, TokensTypeOK, Recorded
<1>12. CallValid(call[c])'
  <2>1. call'[c].pc = "answer" /\ call'[c].row = call[c].row /\ call'[c].late = call[c].late
    BY <1>0 DEF Authorize, Become, TokensInv, TokensTypeOK, CallRecords
  <2>2. ~call[c].late /\ ~call[c].row.used
    BY <1>0 DEF CallValid, RequestPlaces
  <2>. QED  BY <2>1, <2>2 DEF CallValid, TokenPlaces, RequestPlaces
<1>13. Become(c, [call[c] EXCEPT !.pc = "answer", !.answer = {code}])
  BY DEF Authorize
<1>. QED  BY <1>7, <1>8, <1>9, <1>10, <1>11, <1>12, <1>13, CallKeeps

\* A row that is there gives a call what it relies on.
LEMMA RowFound ==
  ASSUME TokensInv, NEW i \in Ids, token[i].kind # "none"
  PROVE  /\ token[i] \in TokenRows /\ i <= inserted /\ i \in Nat /\ Made(token[i].grant)
         /\ token[i].kind = "access" => ~token[i].used
BY DEF TokensInv, TokensTypeOK, RowsValid, Ids

LEMMA LookupKeeps ==
  ASSUME TokensInv, NEW c \in Calls, NEW i \in held, Lookup(c, i) PROVE TokensInv'
<1> DEFINE r == [Idle EXCEPT !.pc = "check", !.id = i, !.row = token[i], !.at = now]
<1>1. i \in Ids /\ token[i].kind \in {"code", "refresh"} /\ now \in Nat
  BY DEF TokensInv, TokensTypeOK, Lookup
<1>2. token[i] \in TokenRows /\ i <= inserted /\ i \in Nat /\ Made(token[i].grant)
  BY <1>1, RowFound
<1>3. r \in CallRecords
  BY <1>1, <1>2 DEF Idle, CallRecords, TokenPlaces
<1>4. CallValid(r)
  BY <1>1, <1>2 DEF Idle, CallValid, TokenPlaces, RequestPlaces
<1>5. Reads(c, r)
  BY DEF Lookup
<1>. QED  BY <1>3, <1>4, <1>5, TokenReadsKeep

\* What a call is, wherever it is.
LEMMA CallIs ==
  ASSUME TokensInv, NEW c \in Calls
  PROVE  call[c] \in CallRecords /\ CallValid(call[c])
BY DEF TokensInv, TokensTypeOK, CallsValid

\* A token request goes on to another place with what it read.
LEMMA MoveKeeps ==
  ASSUME TokensInv, NEW c \in Calls, call[c].pc \in TokenPlaces,
         NEW pc \in TokenPlaces, NEW end \in Nat,
         pc \in {"standing", "issue"} => ~call[c].row.used,
         Reads(c, [call[c] EXCEPT !.pc = pc, !.until = end])
  PROVE  TokensInv'
<1> DEFINE r == [call[c] EXCEPT !.pc = pc, !.until = end]
<1>1. call[c] \in CallRecords /\ CallValid(call[c])
  BY CallIs
<1>2. r \in CallRecords
  BY <1>1 DEF CallRecords
<1>3. ~call[c].late
  BY <1>1 DEF CallValid, TokenPlaces
<1>4. /\ r.pc = pc /\ r.row = call[c].row /\ r.id = call[c].id /\ r.late = call[c].late
  BY <1>1 DEF CallRecords
<1>. HIDE DEF r
<1>5. CallValid(r)
  BY <1>1, <1>3, <1>4 DEF CallValid, TokenPlaces, RequestPlaces
<1>. QED  BY <1>2, <1>5, TokenReadsKeep DEF r

LEMMA CheckKeeps ==
  ASSUME TokensInv, NEW c \in Calls, Check(c) PROVE TokensInv'
<1> DEFINE r    == call[c].row
           dead == grant[r.grant].revoked
<1>1. /\ call[c] \in CallRecords /\ CallValid(call[c])
      /\ call[c].pc = "check" /\ call[c].pc \in TokenPlaces
  BY CallIs DEF Check, TokenPlaces
<1>2. r \in TokenRows /\ r.kind \in {"code", "refresh"} /\ r.grant \in Grants
  BY <1>1 DEF CallValid, CallRecords, Made
<1>3. \A pc : [call[c] EXCEPT !.pc = pc]
              = [call[c] EXCEPT !.pc = pc, !.until = call[c].until]
  BY <1>1 DEF CallRecords
<1>4. call[c].until \in Nat
  BY <1>1 DEF CallRecords
<1>5. CASE Reads(c, [call[c] EXCEPT !.pc = "reuse"])
  BY <1>1, <1>3, <1>4, <1>5, MoveKeeps DEF TokenPlaces
<1>6. CASE /\ ~Reused(r, call[c].at, dead) /\ ~dead
           /\ Reads(c, [call[c] EXCEPT !.pc = "standing"])
  <2>1. ~r.used
    BY <1>6 DEF Reused
  <2>. QED  BY <1>1, <1>3, <1>4, <1>6, <2>1, MoveKeeps DEF TokenPlaces
<1>7. CASE ~Reused(r, call[c].at, dead) /\ Ends(c)
  <2>1. r.used => dead
    BY <1>7 DEF Reused
  <2>. QED  BY <1>2, <1>7, <2>1, EndsKeep
<1>. QED  BY <1>5, <1>6, <1>7 DEF Check

LEMMA StandingKeeps ==
  ASSUME TokensInv, NEW c \in Calls, Standing(c) PROVE TokensInv'
<1> DEFINE d == grant[call[c].row.grant].device
<1>1. /\ call[c].pc \in TokenPlaces /\ ~call[c].row.used
      /\ call[c].row.grant \in Grants /\ d \in Devices
  BY CallIs DEF Standing, CallValid, TokenPlaces, Made
<1>2. CASE Reads(c, [call[c] EXCEPT !.pc = "issue", !.until = until[d]])
  <2>1. until[d] \in Nat
    BY <1>1 DEF TokensInv, TokensTypeOK
  <2>. QED  BY <1>1, <1>2, <2>1, MoveKeeps DEF TokenPlaces
<1>3. CASE Ends(c)
  BY <1>1, <1>3, EndsKeep
<1>. QED  BY <1>2, <1>3 DEF Standing

LEMMA IssueRefusedKeeps ==
  ASSUME TokensInv, NEW c \in Calls, IssueRefused(c) PROVE TokensInv'
BY CallIs, EndsKeep DEF IssueRefused, CallValid, TokenPlaces, Made

LEMMA IssueLostKeeps ==
  ASSUME TokensInv, NEW c \in Calls, IssueLost(c) PROVE TokensInv'
<1>1. call[c].pc \in TokenPlaces /\ call[c] \in CallRecords
  BY CallIs DEF IssueLost, TokenPlaces
<1>2. /\ [call[c] EXCEPT !.pc = "reuse"]
          = [call[c] EXCEPT !.pc = "reuse", !.until = call[c].until]
      /\ call[c].until \in Nat
  BY <1>1 DEF CallRecords
<1>. QED  BY <1>1, <1>2, MoveKeeps DEF IssueLost, TokenPlaces

LEMMA RevokeReusedKeeps ==
  ASSUME TokensInv, NEW c \in Calls, RevokeReused(c) PROVE TokensInv'
<1> DEFINE g == call[c].row.grant
<1>1. Made(g) /\ g \in Grants
  BY CallIs DEF RevokeReused, CallValid, TokenPlaces, Made
<1>2. \A h \in Grants : /\ grant'[h].device = grant[h].device
                        /\ grant[h].revoked => grant'[h].revoked
                        /\ grant'[h].revoked => grant[h].revoked \/ h = g
  BY <1>1 DEF RevokeReused, RevokeRow, TokensInv, TokensTypeOK
<1>3. grant'[g].revoked
  BY <1>1 DEF RevokeReused, RevokeRow, TokensInv, TokensTypeOK
<1>4. OnlyLoses
  BY <1>2 DEF RevokeReused, OnlyLoses, TokensInv, TokensTypeOK
<1>5. TokensTypeOK' /\ call'[c] = Idle
  BY <1>1, IdleValid DEF RevokeReused, RevokeRow, Become, TokensInv, TokensTypeOK, bounds
<1>6. RowsValid' /\ Exchanged'
  BY <1>2 DEF RevokeReused, TokensInv, TokensTypeOK, RowsValid, Exchanged, Made, TokenRows
<1>7. Recorded'
  BY <1>1, <1>2, <1>3 DEF RevokeReused, RevokeRow, TokensInv, TokensTypeOK, Recorded, Made
<1>8. CallValid(call[c])'
  BY <1>5, IdleValid DEF CallValid, TokenPlaces, RequestPlaces
<1>. QED  BY <1>4, <1>5, <1>6, <1>7, <1>8, CallKeeps DEF RevokeReused

\* The exchange uses row i, inserts two rows at places never taken, and
\* deletes some.
LEMMA IssueTokensKeeps ==
  ASSUME TokensInv, NEW c \in Calls, IssueTokens(c) PROVE TokensInv'
<1> DEFINE i == call[c].id
           g == call[c].row.grant
           access  == inserted + 1
           refresh == inserted + 2
           first  == Row("access", g, Earlier(call[c].at + AccessLifetime, call[c].until))
           second == Row("refresh", g, call[c].at + RefreshLifetime)
           marked == [token EXCEPT ![i].used = TRUE, ![access] = first, ![refresh] = second]
<1>1. /\ call[c] \in CallRecords /\ CallValid(call[c]) /\ call[c].pc = "issue"
      /\ call[c].pc \in TokenPlaces /\ inserted \in Nat
      /\ access \in Ids /\ refresh \in Ids /\ inserted' = refresh
  <2>1. call[c] \in CallRecords /\ CallValid(call[c])
    BY CallIs
  <2>2. call[c].pc = "issue" /\ refresh \in Ids /\ inserted' = refresh
    BY DEF IssueTokens
  <2>3. inserted \in Nat
    BY DEF TokensInv, TokensTypeOK
  <2>4. access \in Ids
    BY <2>2, <2>3, BoundsAssumption DEF Ids
  <2>. QED  BY <2>1, <2>2, <2>3, <2>4 DEF TokenPlaces
<1>0. UNCHANGED <<revoked, until, grant, outbox, held, now, failures, caught>>
  BY DEF IssueTokens, bounds
<1>2. /\ i \in Ids /\ i <= inserted /\ i # access /\ i # refresh /\ access # refresh
      /\ Made(g) /\ g \in Grants /\ ~grant[g].revoked
      /\ token[i].kind \in {"code", "refresh"} /\ ~token[i].used /\ token[i] \in TokenRows
  BY <1>1 DEF IssueTokens, Issuable, CallValid, Made, TokensInv, TokensTypeOK, Ids
<1>3. /\ first \in TokenRows /\ first.kind = "access" /\ ~first.used /\ first.grant = g
      /\ second \in TokenRows /\ second.kind = "refresh" /\ ~second.used /\ second.grant = g
  <2>1. call[c].at \in Nat /\ call[c].until \in Nat
    BY <1>1 DEF CallRecords
  <2>2. /\ Earlier(call[c].at + AccessLifetime, call[c].until) \in Nat
        /\ call[c].at + RefreshLifetime \in Nat
    BY <2>1, BoundsAssumption DEF Earlier
  <2>. QED  BY <1>2, <2>2 DEF Row, TokenRows, Kinds
<1>4. token[access].kind = "none" /\ token[refresh].kind = "none"
  BY <1>1 DEF TokensInv, RowsValid
<1>5. \A j \in Ids : marked[j] = CASE j = access -> first
                                   [] j = refresh -> second
                                   [] j = i -> [token[i] EXCEPT !.used = TRUE]
                                   [] OTHER -> token[j]
  BY <1>1, <1>2 DEF TokensInv, TokensTypeOK
<1>6. \A j \in Ids : token'[j] = marked[j] \/ token'[j] = NoToken
  BY DEF IssueTokens, Pruned
<1>7. DOMAIN token' = Ids /\ NoToken \in TokenRows /\ NoToken.kind = "none" /\ ~NoToken.used
      /\ [token[i] EXCEPT !.used = TRUE] \in TokenRows
      /\ [token[i] EXCEPT !.used = TRUE].kind = token[i].kind
      /\ [token[i] EXCEPT !.used = TRUE].grant = token[i].grant
      /\ [token[i] EXCEPT !.used = TRUE].used
  BY <1>2 DEF IssueTokens, Pruned, NoToken, TokenRows, Kinds
<1>8. ASSUME NEW j \in Ids
      PROVE  \/ j \in {access, refresh} /\ token'[j] \in {first, second}
             \/ j = i /\ token'[j] = [token[i] EXCEPT !.used = TRUE]
             \/ j \notin {access, refresh, i} /\ token'[j] = token[j]
             \/ token'[j] = NoToken
  BY <1>2, <1>5, <1>6
<1>. HIDE DEF first, second, marked
<1>9. OnlyLoses
  <2>1. ASSUME NEW j \in Ids, j <= inserted PROVE token'[j].kind \in {token[j].kind, "none"}
    <3>1. j \in Nat /\ j # access /\ j # refresh
      BY <1>1, <2>1 DEF Ids
    <3>. QED  BY <1>7, <1>8, <3>1
  <2>2. inserted <= inserted'
    BY <1>1
  <2>. QED  BY <1>0, <2>1, <2>2 DEF OnlyLoses
<1>10. TokensTypeOK'
  <2>1. \A j \in Ids : token'[j] \in TokenRows
    BY <1>3, <1>7, <1>8 DEF TokensInv, TokensTypeOK
  <2>2. token' \in [Ids -> TokenRows]
    <3>1. token' = [j \in Ids |-> token'[j]]
      BY DEF IssueTokens, Pruned
    <3>. QED  BY <2>1, <3>1
  <2>3. [call[c] EXCEPT !.pc = "answer", !.answer = {access, refresh}] \in CallRecords
    BY <1>1 DEF CallRecords
  <2>4. call' \in [Calls -> CallRecords]
    BY <2>3 DEF IssueTokens, Become, TokensInv, TokensTypeOK
  <2>5. redeemed' \in [Ids -> Nat]
    BY <1>2 DEF IssueTokens, TokensInv, TokensTypeOK
  <2>6. inserted' \in Nat
    BY <1>1
  <2>. QED  BY <1>0, <2>2, <2>4, <2>5, <2>6 DEF TokensInv, TokensTypeOK
<1>11. RowsValid'
  <2> SUFFICES ASSUME NEW j \in Ids
               PROVE  /\ token'[j].kind # "none" => j <= inserted' /\ Made(token[j].grant)'
                      /\ token'[j].kind = "access" => ~token'[j].used
    BY DEF RowsValid
  <2>1. \A h : Made(h)' <=> Made(h)
    BY DEF IssueTokens, Made
  <2>2. token[j].kind # "none" => j <= inserted /\ Made(token[j].grant)
    BY DEF TokensInv, RowsValid
  <2>3. token[j].kind = "access" => ~token[j].used
    BY DEF TokensInv, RowsValid
  <2>4. Made(token[j].grant)' <=> token'[j].grant \in Grants /\ grant[token'[j].grant].device \in Devices
    BY DEF Made, IssueTokens
  <2>5. j \in Nat
    BY DEF Ids
  <2>6. CASE j \in {access, refresh} /\ token'[j] \in {first, second}
    BY <1>1, <1>2, <1>3, <2>4, <2>6 DEF Made
  <2>7. CASE j = i /\ token'[j] = [token[i] EXCEPT !.used = TRUE]
    BY <1>1, <1>2, <1>7, <2>2, <2>4, <2>5, <2>7 DEF Made
  <2>8. CASE j \notin {access, refresh, i} /\ token'[j] = token[j]
    BY <1>1, <2>2, <2>3, <2>4, <2>5, <2>8 DEF Made
  <2>9. CASE token'[j] = NoToken
    BY <1>7, <2>9
  <2>. QED  BY <1>8, <2>6, <2>7, <2>8, <2>9
<1>12. Exchanged'
  <2> SUFFICES ASSUME NEW j \in Ids
               PROVE  /\ j > inserted' => redeemed'[j] = 0
                      /\ \/ redeemed'[j] = 0
                         \/ redeemed'[j] = 1 /\ (token'[j].kind = "none" \/ token'[j].used)
    BY DEF Exchanged
  <2>1. redeemed'[j] = IF j = i THEN redeemed[j] + 1 ELSE redeemed[j]
    BY <1>2 DEF IssueTokens, TokensInv, TokensTypeOK
  <2>2. /\ j > inserted => redeemed[j] = 0
        /\ \/ redeemed[j] = 0
           \/ redeemed[j] = 1 /\ (token[j].kind = "none" \/ token[j].used)
    BY DEF TokensInv, Exchanged
  <2>3. j \in Nat /\ i \in Nat
    BY <1>2 DEF Ids
  <2>4. CASE j = i
    <3>1. token[j].kind # "none" /\ ~token[j].used
      BY <1>2, <2>4
    <3>2. redeemed[j] = 0
      BY <2>2, <3>1, Zenon
    <3>3. redeemed'[j] = 1
      BY <2>1, <2>4, <3>2
    <3>4. j <= inserted'
      BY <1>1, <1>2, <2>3, <2>4
    <3>5. token'[j] = [token[i] EXCEPT !.used = TRUE] \/ token'[j] = NoToken
      BY <1>2, <1>8, <2>4
    <3>6. token'[j].kind = "none" \/ token'[j].used
      BY <1>7, <3>5, Zenon
    <3>7. ~(j > inserted')
      BY <1>1, <2>3, <3>4
    <3>. QED  BY <3>3, <3>6, <3>7, Zenon
  <2>5. CASE j \in {access, refresh}
    BY <1>1, <1>2, <2>1, <2>2, <2>3, <2>5
  <2>6. CASE j \notin {access, refresh, i}
    BY <1>1, <1>7, <1>8, <2>1, <2>2, <2>3, <2>6
  <2>. QED  BY <2>4, <2>5, <2>6
<1>13. Recorded'
  BY DEF IssueTokens, TokensInv, Recorded, Made
<1>14. CallValid(call[c])'
  <2>1. call'[c].pc = "answer" /\ call'[c].row = call[c].row /\ call'[c].late = call[c].late
    BY <1>1 DEF IssueTokens, Become, TokensInv, TokensTypeOK, CallRecords
  <2>2. ~call[c].late /\ ~call[c].row.used
    BY <1>1 DEF CallValid
  <2>. QED  BY <2>1, <2>2 DEF CallValid, TokenPlaces, RequestPlaces
<1>15. Become(c, [call[c] EXCEPT !.pc = "answer", !.answer = {access, refresh}])
  BY DEF IssueTokens
<1>. QED  BY <1>9, <1>10, <1>11, <1>12, <1>13, <1>14, <1>15, CallKeeps

-----------------------------------------------------------------------------
(* Requests for the MCP endpoint *)

LEMMA AdmitKeeps ==
  ASSUME TokensInv, NEW c \in Calls, NEW i \in held, Admit(c, i) PROVE TokensInv'
<1> DEFINE r == [Idle EXCEPT !.pc = "grant", !.id = i, !.row = token[i], !.body = TRUE]
<1>1. i \in Ids /\ token[i].kind = "access"
  BY DEF TokensInv, TokensTypeOK, Admit
<1>2. /\ token[i] \in TokenRows /\ i <= inserted /\ i \in Nat /\ Made(token[i].grant)
      /\ ~token[i].used
  BY <1>1, RowFound
<1>3. r \in CallRecords
  BY <1>2 DEF Idle, CallRecords, RequestPlaces
<1>4. CallValid(r)
  BY <1>1, <1>2 DEF Idle, CallValid, TokenPlaces, RequestPlaces
<1>5. Reads(c, r)
  BY DEF Admit
<1>. QED  BY <1>3, <1>4, <1>5, TokenReadsKeep

LEMMA AdmitAgainKeeps ==
  ASSUME TokensInv, NEW c \in Calls, AdmitAgain(c) PROVE TokensInv'
<1> DEFINE r == [call[c] EXCEPT !.pc = "grant"]
<1>1. /\ call[c] \in CallRecords /\ CallValid(call[c]) /\ call[c].pc = "again"
      /\ ~call[c].row.used
  BY CallIs DEF AdmitAgain, CallValid
<1>2. CASE Reads(c, r)
  <2>1. r \in CallRecords
    BY <1>1 DEF CallRecords, RequestPlaces
  <2>2. /\ r.pc = "grant" /\ r.row = call[c].row /\ r.id = call[c].id
        /\ r.late = call[c].late /\ r.body = call[c].body
    BY <1>1 DEF CallRecords
  <2>. HIDE DEF r
  <2>3. CallValid(r)
    BY <1>1, <2>2 DEF CallValid, TokenPlaces, RequestPlaces
  <2>. QED  BY <1>2, <2>1, <2>3, TokenReadsKeep
<1>3. CASE Ends(c)
  BY <1>1, <1>3, EndsKeep
<1>. QED  BY <1>2, <1>3 DEF AdmitAgain

\* A call that came too late and finds its grant standing has a revoked device,
LEMMA AdmitGrantKeeps ==
  ASSUME TokensInv, NEW c \in Calls, AdmitGrant(c) PROVE TokensInv'
<1> DEFINE r == [call[c] EXCEPT !.pc = "device"]
<1>1. /\ call[c] \in CallRecords /\ CallValid(call[c]) /\ call[c].pc = "grant"
      /\ ~call[c].row.used
  BY CallIs DEF AdmitGrant, CallValid
<1>2. CASE Reads(c, r) /\ ~grant[call[c].row.grant].revoked
  <2>1. r \in CallRecords
    BY <1>1 DEF CallRecords, RequestPlaces
  <2>2. /\ r.pc = "device" /\ r.row = call[c].row /\ r.id = call[c].id
        /\ r.late = call[c].late /\ r.body = call[c].body
    BY <1>1 DEF CallRecords
  <2>. HIDE DEF r
  <2>3. CallValid(r)
    BY <1>1, <1>2, <2>2 DEF CallValid, TokenPlaces, RequestPlaces
  <2>. QED  BY <1>2, <2>1, <2>3, TokenReadsKeep
<1>3. CASE Ends(c)
  BY <1>1, <1>3, EndsKeep
<1>. QED  BY <1>2, <1>3 DEF AdmitGrant

\* and is refused for that.
LEMMA AdmitDeviceKeeps ==
  ASSUME TokensInv, NEW c \in Calls, AdmitDevice(c) PROVE TokensInv'
<1> DEFINE next == IF call[c].body THEN "body" ELSE "serve"
           r    == [call[c] EXCEPT !.pc = next]
<1>1. /\ call[c] \in CallRecords /\ CallValid(call[c]) /\ call[c].pc = "device"
      /\ ~call[c].row.used
  BY CallIs DEF AdmitDevice, CallValid
<1>2. CASE Reads(c, r) /\ Stands(grant[call[c].row.grant].device, now)
  <2>1. r \in CallRecords
    BY <1>1 DEF CallRecords, RequestPlaces
  <2>2. /\ r.pc = next /\ r.row = call[c].row /\ r.id = call[c].id
        /\ r.late = call[c].late
    BY <1>1 DEF CallRecords
  <2>3. ~call[c].late
    BY <1>1, <1>2 DEF CallValid, Stands
  <2>. HIDE DEF r
  <2>4. CallValid(r)
    BY <1>1, <2>2, <2>3 DEF CallValid, TokenPlaces, RequestPlaces
  <2>. QED  BY <1>2, <2>1, <2>4, TokenReadsKeep
<1>3. CASE Ends(c)
  BY <1>1, <1>3, EndsKeep
<1>. QED  BY <1>2, <1>3 DEF AdmitDevice

LEMMA BodyKeeps ==
  ASSUME TokensInv, NEW c \in Calls, Body(c) PROVE TokensInv'
<1> DEFINE r == [call[c] EXCEPT !.pc = "again", !.body = FALSE, !.late = Gone(c)]
<1>1. /\ call[c] \in CallRecords /\ CallValid(call[c]) /\ call[c].pc = "body"
  BY CallIs DEF Body
<1>2. Gone(c) \in BOOLEAN
  BY DEF Gone
<1>3. r \in CallRecords
  BY <1>1, <1>2 DEF CallRecords, RequestPlaces
<1>4. /\ r.pc = "again" /\ r.row = call[c].row /\ r.id = call[c].id
      /\ r.late = Gone(c) /\ r.body = FALSE
  BY <1>1 DEF CallRecords
<1>5. Reads(c, r)
  BY DEF Body
<1>. HIDE DEF r
<1>6. Gone(c) => \/ grant[call[c].row.grant].revoked
                 \/ grant[call[c].row.grant].device \in revoked
  BY DEF Gone
<1>7. CallValid(r)
  BY <1>1, <1>4, <1>6 DEF CallValid, TokenPlaces, RequestPlaces
<1>. QED  BY <1>3, <1>5, <1>7, TokenReadsKeep

LEMMA ServeKeeps ==
  ASSUME TokensInv, NEW c \in Calls, Serve(c) PROVE TokensInv'
<1>1. ~call[c].row.used
  BY CallIs DEF Serve, CallValid
<1>. QED  BY <1>1, EndsKeep DEF Serve

-----------------------------------------------------------------------------

\* Every step of the tables and the calls keeps the invariant.
THEOREM StepKeeps == TokensInv /\ [Next]_vars => TokensInv'
<1> SUFFICES ASSUME TokensInv, [Next]_vars PROVE TokensInv'
  OBVIOUS
<1>1. ASSUME NEW c \in Calls, TokenCall(c) PROVE TokensInv'
  BY <1>1, LookupKeeps, CheckKeeps, StandingKeeps, IssueTokensKeeps, IssueRefusedKeeps,
     IssueLostKeeps, RevokeReusedKeeps DEF TokenCall
<1>2. ASSUME NEW c \in Calls, Request(c) PROVE TokensInv'
  BY <1>2, AdmitKeeps, AdmitAgainKeeps, AdmitGrantKeeps, AdmitDeviceKeeps, BodyKeeps,
     ServeKeeps DEF Request
<1>3. ASSUME NEW c \in Calls, NEW d \in Devices, Consent(c, d) PROVE TokensInv'
  BY <1>3, ConsentKeeps
<1>4. ASSUME NEW c \in Calls, NEW g \in Grants, Authorize(c, g) PROVE TokensInv'
  BY <1>4, AuthorizeKeeps
<1>5. ASSUME NEW c \in Calls, Answer(c) \/ Fail(c) PROVE TokensInv'
  BY <1>5, TokenAnswerKeeps, FailKeeps
<1>6. CASE UNCHANGED vars
  BY <1>6 DEF vars, tables, bounds, ghosts, TokensInv, TokensTypeOK, RowsValid, Exchanged, Recorded,
     CallsValid, CallValid, Made
<1>. QED  BY <1>1, <1>2, <1>3, <1>4, <1>5, <1>6, TokenOperatorsKeep, TickKeeps DEF Next

\* The strengthening is an invariant of the token endpoint, the MCP endpoint
\* and the operators together.
THEOREM TokensInductive == Spec => []TokensInv
BY Initially, StepKeeps, PTL DEF Spec

\* Every variable has its type.
THEOREM TokensTypeCorrect == Spec => []TokensTypeOK
<1>1. TokensInv => TokensTypeOK
  BY DEF TokensInv
<1>. QED  BY <1>1, TokensInductive, PTL

\* issueTokens exchanges a code or a refresh token at most once.
THEOREM ExchangedOnce == Spec => []RedeemedOnce
<1>1. TokensInv => RedeemedOnce
  BY DEF TokensInv, Exchanged, RedeemedOnce
<1>. QED  BY <1>1, TokensInductive, PTL

\* A request that saw a used token and is over has revoked the grant, with the
\* fact for the audit log.
THEOREM ReuseIsPunished == Spec => []ReuseEndsGrant
<1>1. TokensInv => ReuseEndsGrant
  BY DEF TokensInv, TokensTypeOK, Recorded, ReuseEndsGrant
<1>. QED  BY <1>1, TokensInductive, PTL

\* The second admission of tokenRoute refuses what was revoked during the
\* upload.
THEOREM UploadsStand == Spec => []UploadStands
<1>1. TokensInv => UploadStands
  BY DEF TokensInv, CallsValid, CallValid, UploadStands
<1>. QED  BY <1>1, TokensInductive, PTL

\* A row that takes a kind is a code of a grant just made, or one of the
\* tokens that issueTokens stores: it read the grant in its transaction.
LEMMA StoredForStanding ==
  ASSUME TokensInv, [Next]_vars, NEW i \in Ids, token'[i].kind \notin {"none", token[i].kind}
  PROVE  ~grant[token'[i].grant].revoked
<1>1. token' # token
  OBVIOUS
<1>2. CASE \E c \in Calls, g \in Grants : Authorize(c, g)
  <2>1. PICK c \in Calls, g \in Grants : Authorize(c, g)
    BY <1>2
  <2>2. i = inserted + 1 /\ token'[i] = Row("code", g, call[c].at + CodeLifetime)
    BY <2>1 DEF Authorize, TokensInv, TokensTypeOK
  <2>3. token'[i].grant = g
    BY <2>2 DEF Row
  <2>4. ~grant[g].revoked
    BY <2>1 DEF Authorize, Unmade
  <2>. QED  BY <2>3, <2>4
<1>3. CASE \E c \in Calls : IssueTokens(c)
  <2>1. PICK c \in Calls : IssueTokens(c)
    BY <1>3
  <2> DEFINE r == call[c].row
             first  == Row("access", r.grant, Earlier(call[c].at + AccessLifetime, call[c].until))
             second == Row("refresh", r.grant, call[c].at + RefreshLifetime)
             used   == [token[call[c].id] EXCEPT !.used = TRUE]
             rows   == [token EXCEPT ![call[c].id].used = TRUE, ![inserted + 1] = first,
                                     ![inserted + 2] = second]
  <2>2. token' = Pruned(rows, call[c].at) /\ ~grant[r.grant].revoked /\ call[c].id \in Ids
    BY <2>1, CallIs DEF IssueTokens, Issuable, CallValid, TokenPlaces, RequestPlaces
  <2>3. token'[i] = rows[i] \/ token'[i] = NoToken
    BY <2>2 DEF Pruned
  <2>4. token'[i] = rows[i]
    BY <2>3 DEF NoToken
  <2>5. \/ rows[i] = first \/ rows[i] = second \/ rows[i] = token[i]
        \/ i = call[c].id /\ rows[i] = used
    BY <2>2 DEF TokensInv, TokensTypeOK
  <2>6. used.kind = token[call[c].id].kind
    BY <2>2 DEF TokensInv, TokensTypeOK, TokenRows
  <2>7. first.grant = r.grant /\ second.grant = r.grant
    BY DEF Row
  <2>. HIDE DEF first, second, used, rows
  <2>8. token'[i] = first \/ token'[i] = second
    BY <2>4, <2>5, <2>6
  <2>. QED  BY <2>2, <2>7, <2>8
<1>4. CASE UNCHANGED token
  BY <1>1, <1>4
<1>5. [Next]_vars => \/ \E c \in Calls, g \in Grants : Authorize(c, g)
                     \/ \E c \in Calls : IssueTokens(c)
                     \/ UNCHANGED token
  BY DEF Next, Operators, TokenCall, Request, Activate, Deactivate, RevokeDevice, RevokeGrant,
     Tick, Consent, Answer, Fail, Lookup, Check, Standing, IssueRefused, IssueLost,
     RevokeReused, Admit, AdmitAgain, AdmitGrant, AdmitDevice, Body, Serve, Reads, Ends,
     tables, vars
<1>. QED  BY <1>2, <1>3, <1>4, <1>5

\* No token is stored for a grant that was revoked by then: issueTokens reads
\* the grant again in the transaction that stores them.
THEOREM NoneStoredAfterRevocation == Spec => NoneAfterRevocation
<1>1. TokensInv /\ [Next]_vars =>
        [\A i \in Ids : token'[i].kind \notin {"none", token[i].kind} =>
           ~grant[token'[i].grant].revoked]_vars
  BY StoredForStanding
<1>. QED  BY <1>1, TokensInductive, PTL DEF Spec, NoneAfterRevocation

===============================================================================
