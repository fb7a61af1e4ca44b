---------------------------- MODULE RunSpoolProofs ----------------------------
(***************************************************************************)
(* RunSpool's invariants hold for every cap, reserve, frame size, number   *)
(* of targets and set of connections: the execution never finds the cap in *)
(* the way of a frame it must write, and no connection misses a frame.     *)
(***************************************************************************)
EXTENDS RunSpool, TLAPS

Held(p) == p * ResponseReserve

\* Where the execution is.
Progress ==
  /\ pc = "run" => pending = targets
  /\ pc = "respond" => left <= pending /\ (left = pending \/ cancelled)
  /\ pc = "ended" <=> done

\* A spool's last frame ends it, and a broken or finished run adds no frame.
LastFrame ==
  /\ Len(ends) > 0 => ends[Len(ends)] = size
  /\ done /\ ~err => Len(ends) > 0 /\ kinds[Len(kinds)] \in {"result", "error"}

\* Whatever was dropped, the run knows that it is truncated.
LossKnown ==
  /\ lost => truncated
  /\ done /\ truncated => exit # 0

\* A result leaves no target out but those its context's end kept from running.
TargetsTold ==
  done /\ ~err /\ kinds[Len(kinds)] = "result" => pending = 0 \/ cancelled

\* What a connection's last snapshot said is still true enough.
SnapshotValid(c) ==
  /\ c.offset <= size
  /\ c.pc \in {"act", "wait"} =>
       /\ c.offset <= c.size /\ c.size <= size /\ c.wake <= wake
       /\ c.size < size => c.wake < wake
  /\ c.pc = "act" /\ c.over => (done \/ err) /\ c.size = size
  /\ c.pc = "wait" => c.offset = c.size
  /\ c.pc = "ended" => (done \/ err) /\ c.offset = size

Snapshots == \A r \in Readers : SnapshotValid(reader[r])

IInv == /\ TypeOK /\ CapHolds /\ NeverRefused
        /\ Progress /\ LastFrame /\ LossKnown /\ TargetsTold /\ Snapshots

-----------------------------------------------------------------------------

LEMMA HeldTypes ==
  ASSUME NEW p \in Nat
  PROVE  /\ Held(p) \in Nat
         /\ p > 0 => p - 1 \in Nat /\ Held(p - 1) = Held(p) - ResponseReserve
BY SizesAssumption DEF Held

LEMMA TargetsFit ==
  ASSUME NEW t \in Nat, t <= MaxRunTargets, t # 0
  PROVE  Held(t) + FinalReserve <= Limit
<1>1. Limit >= FinalReserve
  BY SizesAssumption DEF MaxRunTargets
<1> DEFINE room == Limit - FinalReserve
           q == room \div ResponseReserve
<1>2. room \in Nat /\ q \in Nat /\ q * ResponseReserve <= room
  BY <1>1, SizesAssumption
<1>3. t <= q
  BY <1>1, SizesAssumption DEF MaxRunTargets
<1>4. t * ResponseReserve <= q * ResponseReserve
  BY <1>2, <1>3, SizesAssumption
<1>5. QED
  BY <1>2, <1>4, SizesAssumption DEF Held

LEMMA InitIInv == Init => IInv
<1> SUFFICES ASSUME Init PROVE IInv
  OBVIOUS
<1>1. TypeOK
  <2>1. targets \in Nat \ {0} /\ pending \in 0..targets /\ left \in 0..targets
    BY SizesAssumption DEF Init, Reserved
  <2>2. ends \in Seq(Nat) /\ kinds \in Seq(Kinds) /\ Len(ends) = Len(kinds)
    BY DEF Init
  <2>3. reader \in [Readers -> Connections]
    BY DEF Init, Closed, Connections
  <2>4. QED
    BY <2>1, <2>2, <2>3 DEF Init, TypeOK
<1>2. CapHolds
  BY TargetsFit, SizesAssumption DEF Init, Reserved, CapHolds, Owed, Held
<1>3. NeverRefused /\ Progress /\ LossKnown /\ TargetsTold
  BY DEF Init, Reserved, NeverRefused, Progress, LossKnown, TargetsTold
<1>4. LastFrame
  BY DEF Init, LastFrame
<1>5. Snapshots
  BY <1>1 DEF Init, Snapshots, SnapshotValid, Closed
<1>6. QED
  BY <1>1, <1>2, <1>3, <1>4, <1>5 DEF IInv

-----------------------------------------------------------------------------
(* What appendLocked may do to the spool, and what that leaves true. *)

Grows ==
  /\ size' \in Nat /\ wake' \in Nat
  /\ ends' \in Seq(Nat) /\ kinds' \in Seq(Kinds) /\ Len(ends') = Len(kinds')
  /\ err' \in BOOLEAN /\ failed' \in BOOLEAN
  /\ size <= size' /\ wake <= wake' /\ (size < size' => wake < wake')
  /\ Len(ends') > 0 => ends'[Len(ends')] = size'
  /\ err => err' /\ size' = size

LEMMA AppendGrows ==
  ASSUME IInv, NEW kind \in Kinds, NEW bytes \in Nat \ {0},
         NEW breaks \in BOOLEAN, AppendLocked(kind, bytes, breaks)
  PROVE  Grows
<1> USE DEF IInv, TypeOK, LastFrame
<1>1. CASE UNCHANGED <<size, ends, kinds, wake>>
  <2>1. err' \in BOOLEAN /\ failed' \in BOOLEAN /\ (err => err')
    BY <1>1 DEF AppendLocked, AppendFrame, spoolVars
  <2>2. QED
    BY <1>1, <2>1 DEF Grows
<1>2. CASE ~err /\ AppendFrame(kind, bytes)
  <2>1. /\ size' = size + bytes /\ wake' = wake + 1
        /\ ends' = Append(ends, size + bytes) /\ kinds' = Append(kinds, kind)
        /\ UNCHANGED <<err, failed>>
    BY <1>2 DEF AppendFrame
  <2>2. /\ ends' \in Seq(Nat) /\ kinds' \in Seq(Kinds)
        /\ Len(ends') = Len(ends) + 1 /\ Len(kinds') = Len(kinds) + 1
        /\ ends'[Len(ends) + 1] = size + bytes
    BY <2>1
  <2>3. QED
    BY <1>2, <2>1, <2>2 DEF Grows
<1>3. QED
  BY <1>1, <1>2 DEF AppendLocked, spoolVars

\* A frame that fits is refused by nothing but the disk.
LEMMA AppendFits ==
  ASSUME IInv, NEW kind \in Kinds, NEW bytes \in Nat \ {0},
         NEW breaks \in BOOLEAN, AppendLocked(kind, bytes, breaks),
         breaks => (~err => size + bytes <= Limit)
  PROVE  /\ err' => failed'
         /\ size' <= size + bytes /\ size' <= Limit
         /\ ~err' /\ breaks => kinds' = Append(kinds, kind)
         /\ ~err' => ~err
<1> USE DEF IInv, TypeOK, CapHolds, Owed, NeverRefused
<1>1. Owed \in Nat
  BY HeldTypes, SizesAssumption DEF Held
<1>2. size <= Limit
  BY <1>1, SizesAssumption DEF CapHolds
<1> HIDE DEF Owed
<1>3. CASE err /\ UNCHANGED spoolVars
  BY <1>2, <1>3 DEF spoolVars
<1>4. CASE ~err /\ size + bytes > Limit /\ err' = breaks
           /\ UNCHANGED <<size, ends, kinds, wake, failed>>
  BY <1>2, <1>4, SizesAssumption
<1>5. CASE ~err /\ size + bytes <= Limit /\ AppendFrame(kind, bytes)
  BY <1>5 DEF AppendFrame
<1>6. CASE ~err /\ err' = TRUE /\ failed' = TRUE /\ UNCHANGED <<size, ends, kinds, wake>>
  BY <1>2, <1>6
<1>7. QED
  BY <1>3, <1>4, <1>5, <1>6 DEF AppendLocked

LEMMA AddZero == \A n \in Nat : n + 0 = n
OBVIOUS

\* The cap holds after a step if what the run then owes still fits.
LEMMA OwedBounds ==
  ASSUME size' \in Nat, size' <= Limit, pending' \in Nat,
         ~(done' \/ err') => size' + Held(pending') + FinalReserve <= Limit
  PROVE  CapHolds'
<1>1. Held(pending') \in Nat /\ Owed' = IF done' \/ err' THEN 0
                                       ELSE Held(pending') + FinalReserve
  BY HeldTypes DEF Owed, Held
<1>2. CASE done' \/ err'
  <2>1. Owed' = 0
    BY <1>1, <1>2, Zenon
  <2>2. size' + Owed' = size'
    BY <2>1, AddZero, Zenon
  <2>3. QED
    BY <2>2, Zenon DEF CapHolds
<1>3. CASE ~(done' \/ err')
  <2>1. Owed' = Held(pending') + FinalReserve
    BY <1>1, <1>3, Zenon
  <2>2. QED
    BY <1>1, <1>3, <2>1, SizesAssumption DEF CapHolds
<1>4. QED
  BY <1>2, <1>3

LEMMA ReadersFollow ==
  ASSUME IInv, UNCHANGED reader, size' \in Nat, wake' \in Nat,
         size <= size', wake <= wake', size < size' => wake < wake',
         err => err' /\ size' = size, done => done' /\ size' = size
  PROVE  Snapshots'
<1> SUFFICES ASSUME NEW r \in Readers PROVE SnapshotValid(reader[r])'
  BY DEF Snapshots
<1>1. reader[r] \in Connections /\ SnapshotValid(reader[r]) /\ reader'[r] = reader[r]
  BY DEF IInv, TypeOK, Snapshots
<1> DEFINE c == reader[r]
<1>2. /\ c.offset \in Nat /\ c.size \in Nat /\ c.wake \in Nat
      /\ c.over \in BOOLEAN
  BY <1>1 DEF Connections
<1>3. SnapshotValid(c)
  BY <1>1
<1> HIDE DEF c
<1>4. size \in Nat /\ wake \in Nat
  BY DEF IInv, TypeOK
<1>5. /\ c.offset <= size'
      /\ c.pc \in {"act", "wait"} =>
           /\ c.offset <= c.size /\ c.size <= size' /\ c.wake <= wake'
           /\ c.size < size' => c.wake < wake'
      /\ c.pc = "act" /\ c.over => (done' \/ err') /\ c.size = size'
      /\ c.pc = "wait" => c.offset = c.size
      /\ c.pc = "ended" => (done' \/ err') /\ c.offset = size'
  BY <1>2, <1>3, <1>4 DEF SnapshotValid
<1>6. QED
  BY <1>1, <1>5 DEF SnapshotValid, c

-----------------------------------------------------------------------------
(* One lemma for each action. *)

LEMMA DataStep ==
  ASSUME IInv, NEW b \in DataSizes, Data(b)
  PROVE  IInv'
<1> USE DEF Data, runVars
<1>1. b \in Nat \ {0} /\ pc = "run" /\ ~done /\ pending \in Nat
  BY SizesAssumption DEF IInv, TypeOK, Progress
<1>2. UNCHANGED <<targets, pending, done, pc, left, exit, cancelled, reader>>
  OBVIOUS
<1>3. Held(pending) \in Nat
  BY <1>1, HeldTypes
<1>4. CASE truncated \/ b > Room(pending)
  <2>1. UNCHANGED spoolVars /\ truncated' = TRUE /\ lost' = TRUE
    BY <1>4
  <2>2. Snapshots'
    BY <1>2, <2>1, ReadersFollow DEF spoolVars, IInv, TypeOK
  <2>3. QED
    BY <1>1, <1>2, <2>1, <2>2 DEF IInv, TypeOK, CapHolds, Owed, NeverRefused,
       Progress, LastFrame, LossKnown, TargetsTold, spoolVars
<1>5. CASE ~(truncated \/ b > Room(pending))
  <2>1. AppendLocked("data", b, FALSE) /\ UNCHANGED <<truncated, lost>>
    BY <1>5
  <2>2. "data" \in Kinds /\ FALSE \in BOOLEAN
    BY DEF Kinds
  <2>3. Grows
    BY <1>1, <2>1, <2>2, AppendGrows
  <2>4. (err' => failed') /\ size' <= size + b /\ size' <= Limit /\ (~err' => ~err)
    BY <1>1, <2>1, <2>2, AppendFits
  <2>5. TypeOK'
    BY <1>2, <2>1, <2>3 DEF IInv, TypeOK, Grows
  <2>6. CapHolds'
    <3>1. size \in Nat /\ size' \in Nat /\ b + size + Held(pending) + FinalReserve <= Limit
      BY <1>1, <1>3, <1>5, <2>3, SizesAssumption DEF Room, Held, IInv, TypeOK, Grows
    <3>2. size' + Held(pending) + FinalReserve <= Limit
      BY <1>1, <1>3, <2>4, <3>1, SizesAssumption
    <3>3. QED
      <4>1. pending' = pending /\ pending' \in Nat /\ size' <= Limit
        BY <1>1, <1>2, <2>4
      <4>2. QED
        BY <3>1, <3>2, <4>1, OwedBounds, Zenon
  <2>7. Snapshots'
    BY <1>1, <1>2, <2>3, ReadersFollow DEF Grows
  <2>8. NeverRefused' /\ Progress' /\ LossKnown' /\ TargetsTold'
    BY <1>1, <1>2, <2>1, <2>4 DEF IInv, NeverRefused, Progress, LossKnown, TargetsTold
  <2>9. LastFrame'
    BY <1>1, <1>2, <2>3 DEF LastFrame, Grows
  <2>10. QED
    BY <2>5, <2>6, <2>7, <2>8, <2>9 DEF IInv
<1>6. QED
  BY <1>4, <1>5

LEMMA ResponseStep ==
  ASSUME IInv, NEW w \in WholeSizes, NEW s \in StrippedSizes,
         NEW m \in MinimalSizes, Response(w, s, m)
  PROVE  IInv'
<1> DEFINE p == pending - 1
<1>1. /\ w \in Nat \ {0} /\ s \in Nat \ {0} /\ m \in Nat \ {0} /\ m <= ResponseReserve
      /\ pc = "respond" /\ ~done /\ left > 0
  BY SizesAssumption DEF IInv, TypeOK, Progress, Response
<1>2. pending \in Nat /\ pending > 0 /\ p \in Nat /\ left - 1 <= p /\ left \in Nat
  BY <1>1 DEF IInv, TypeOK, Progress
<1>3. /\ Held(pending) \in Nat /\ Held(p) \in Nat
      /\ Held(p) = Held(pending) - ResponseReserve
  BY <1>2, HeldTypes
<1>4. /\ pending' = p /\ left' = left - 1
      /\ UNCHANGED <<targets, done, pc, exit, cancelled, reader>>
  BY DEF Response
<1>5. size \in Nat /\ (~err => size + Held(pending) + FinalReserve <= Limit)
  <2>1. size \in Nat /\ ~err => size + Owed <= Limit /\ Owed = Held(pending) + FinalReserve
    BY <1>1 DEF IInv, TypeOK, CapHolds, Owed, Held
  <2>2. size \in Nat
    BY DEF IInv, TypeOK
  <2>3. QED
    BY <1>3, <2>1, <2>2, SizesAssumption
<1>6. PICK bytes \in Nat \ {0}, breaks \in BOOLEAN :
        /\ AppendLocked("response", bytes, breaks)
        /\ bytes <= Room(p) \/ bytes <= ResponseReserve
  BY <1>1 DEF Response
<1>7. ~err => size + bytes + Held(p) + FinalReserve <= Limit
  BY <1>3, <1>5, <1>6, SizesAssumption DEF Room, Held
<1>8. "response" \in Kinds
  BY DEF Kinds
<1>9. Grows
  BY <1>6, <1>8, AppendGrows
<1>10. ~err => size + bytes <= Limit
  BY <1>3, <1>5, <1>6, <1>7, SizesAssumption
<1>11. (err' => failed') /\ size' <= size + bytes /\ size' <= Limit /\ (~err' => ~err)
  BY <1>6, <1>8, <1>10, AppendFits
<1>12. truncated' \in BOOLEAN /\ lost' \in BOOLEAN /\ (lost' => truncated')
  <2>1. \/ UNCHANGED <<truncated, lost>>
        \/ truncated' = TRUE /\ lost' = TRUE
    BY DEF Response
  <2>2. truncated \in BOOLEAN /\ lost \in BOOLEAN /\ (lost => truncated)
    BY DEF IInv, TypeOK, LossKnown
  <2>3. CASE UNCHANGED <<truncated, lost>>
    <3>1. truncated' = truncated /\ lost' = lost
      BY <2>3
    <3>2. QED
      BY <2>2, <3>1, Zenon
  <2>4. CASE truncated' = TRUE /\ lost' = TRUE
    BY <2>4
  <2>5. QED
    BY <2>1, <2>3, <2>4, Zenon
<1>13. TypeOK'
  <2>1. pending' \in 0..targets' /\ left' \in 0..targets'
    BY <1>1, <1>2, <1>4 DEF IInv, TypeOK
  <2>2. QED
    BY <1>4, <1>9, <1>12, <2>1 DEF IInv, TypeOK, Grows
<1>14. CapHolds'
  <2>1. size' \in Nat
    BY <1>9 DEF Grows
  <2>2. ~err' => size' + Held(p) + FinalReserve <= Limit
    BY <1>3, <1>5, <1>6, <1>7, <1>11, <2>1, SizesAssumption
  <2>3. QED
    <3>1. pending' = p /\ pending' \in Nat /\ size' <= Limit
      BY <1>2, <1>4, <1>11
    <3>2. QED
      BY <2>1, <2>2, <3>1, OwedBounds, Zenon
<1>15. Snapshots'
  BY <1>1, <1>4, <1>9, ReadersFollow DEF Grows
<1>16. NeverRefused' /\ LossKnown' /\ TargetsTold'
  BY <1>1, <1>4, <1>11, <1>12 DEF NeverRefused, LossKnown, TargetsTold
<1>17. Progress'
  BY <1>1, <1>2, <1>4 DEF Progress, IInv
<1>18. LastFrame'
  BY <1>1, <1>4, <1>9 DEF LastFrame, Grows
<1>19. QED
  BY <1>13, <1>14, <1>15, <1>16, <1>17, <1>18 DEF IInv

LEMMA FinishStep ==
  ASSUME IInv, NEW bytes \in FinalSizes, NEW kind \in {"result", "error"},
         pc \in {"run", "respond"}, FinishWith(kind, bytes),
         exit' \in {0, 1}, truncated => exit' # 0,
         kind = "result" => pending = 0 \/ cancelled
  PROVE  IInv'
<1>1. bytes \in Nat \ {0} /\ bytes <= FinalReserve /\ ~done /\ kind \in Kinds
  BY SizesAssumption DEF IInv, Progress, Kinds
<1>2. /\ AppendLocked(kind, bytes, TRUE) /\ done' = TRUE /\ pc' = "ended"
      /\ UNCHANGED <<targets, pending, truncated, left, cancelled, lost, reader>>
  BY DEF FinishWith
<1>3. pending \in Nat /\ Held(pending) \in Nat
  BY HeldTypes DEF IInv, TypeOK
<1>4. ~err => size + bytes <= Limit
  BY <1>1, <1>3, SizesAssumption DEF IInv, TypeOK, CapHolds, Owed, Held
<1>5. Grows
  BY <1>1, <1>2, AppendGrows
<1>6. /\ err' => failed'
      /\ size' <= Limit /\ (~err' => kinds' = Append(kinds, kind)) /\ (~err' => ~err)
  BY <1>1, <1>2, <1>4, AppendFits
<1>7. TypeOK'
  BY <1>2, <1>5 DEF IInv, TypeOK, Grows
<1>8. CapHolds'
  <2>1. size' \in Nat /\ size' <= Limit /\ pending' \in Nat /\ (done' \/ err')
    BY <1>2, <1>3, <1>5, <1>6 DEF Grows
  <2>2. QED
    BY <2>1, OwedBounds, Zenon
<1>9. NeverRefused' /\ Progress' /\ LossKnown'
  BY <1>2, <1>6 DEF IInv, NeverRefused, Progress, LossKnown
<1>10. LastFrame'
  <2>1. ASSUME ~err' PROVE Len(ends') > 0 /\ kinds'[Len(kinds')] = kind
    <3>1. kinds' = Append(kinds, kind) /\ kinds \in Seq(Kinds)
      BY <1>6, <2>1 DEF IInv, TypeOK
    <3>2. Len(kinds') = Len(kinds) + 1 /\ kinds'[Len(kinds) + 1] = kind
          /\ Len(kinds) \in Nat
      BY <1>1, <3>1
    <3>3. QED
      BY <1>5, <3>2 DEF Grows
  <2>2. QED
    BY <1>5, <2>1 DEF LastFrame, Grows
<1>11. Snapshots'
  BY <1>1, <1>2, <1>5, ReadersFollow DEF Grows
<1>12. TargetsTold'
  <2>1. ASSUME ~err' PROVE kinds'[Len(kinds')] = kind
    BY <1>1, <1>6, <2>1 DEF IInv, TypeOK
  <2>2. QED
    BY <1>2, <2>1 DEF TargetsTold
<1>13. QED
  BY <1>7, <1>8, <1>9, <1>10, <1>11, <1>12 DEF IInv

\* A connection's step leaves the run alone.
LEMMA ReaderStep ==
  ASSUME IInv, NEW r \in Readers, NEW c \in Connections, SnapshotValid(c),
         reader' = [reader EXCEPT ![r] = c], UNCHANGED <<spoolVars, runVars>>
  PROVE  IInv'
<1>1. TypeOK'
  BY DEF IInv, TypeOK, spoolVars, runVars
<1>2. Snapshots'
  <2>1. ASSUME NEW q \in Readers PROVE SnapshotValid(reader[q])'
    BY DEF IInv, TypeOK, Snapshots, SnapshotValid, spoolVars, runVars
  <2>2. QED
    BY <2>1 DEF Snapshots
<1>3. QED
  BY <1>1, <1>2 DEF IInv, CapHolds, Owed, NeverRefused, Progress, LastFrame,
     LossKnown, TargetsTold, spoolVars, runVars

LEMMA ReadingStep ==
  ASSUME IInv, NEW r \in Readers, Reading(r) \/ Disconnect(r)
  PROVE  IInv'
<1> DEFINE c == reader[r]
<1>1. c \in Connections /\ SnapshotValid(c)
  BY DEF IInv, TypeOK, Snapshots
<1>2. size \in Nat /\ wake \in Nat /\ done \in BOOLEAN /\ err \in BOOLEAN
  BY DEF IInv, TypeOK
<1>3. reader \in [Readers -> Connections]
  BY DEF IInv, TypeOK
<1>4. CASE Snapshot(r)
  <2> DEFINE n == [pc |-> "act", offset |-> c.offset, size |-> size,
                   over |-> done \/ err, wake |-> wake]
  <2>1. n \in Connections /\ reader' = [reader EXCEPT ![r] = n]
    BY <1>1, <1>2, <1>4 DEF Connections, Snapshot
  <2>2. SnapshotValid(n)
    BY <1>1, <1>2 DEF SnapshotValid
  <2>3. QED
    BY <1>4, <2>1, <2>2, ReaderStep DEF Snapshot
<1>5. CASE Copy(r)
  <2>1. CASE c.offset < c.size
    <3> DEFINE n == At(c, "snapshot", c.size)
    <3>1. n \in Connections /\ reader' = [reader EXCEPT ![r] = n]
      BY <1>1, <1>5, <2>1 DEF Connections, At, Copy
    <3>2. SnapshotValid(n)
      BY <1>1, <1>2, <1>5 DEF SnapshotValid, At, Copy
    <3>3. QED
      BY <1>5, <3>1, <3>2, ReaderStep DEF Copy
  <2>2. CASE ~(c.offset < c.size)
    <3> DEFINE n == At(c, IF c.over THEN "ended" ELSE "wait", c.offset)
    <3>1. n \in Connections /\ reader' = [reader EXCEPT ![r] = n]
      BY <1>1, <1>5, <2>2 DEF Connections, At, Copy
    <3>2. c.offset = c.size
      BY <1>1, <1>2, <1>5, <2>2 DEF SnapshotValid, Copy, Connections
    <3>3. SnapshotValid(n)
      BY <1>1, <1>2, <1>5, <3>2 DEF SnapshotValid, At, Copy
    <3>4. QED
      BY <1>5, <3>1, <3>3, ReaderStep DEF Copy
  <2>3. QED
    BY <2>1, <2>2
<1>6. CASE Woken(r)
  <2> DEFINE n == At(c, "snapshot", c.offset)
  <2>1. n \in Connections /\ reader' = [reader EXCEPT ![r] = n]
    BY <1>1, <1>6 DEF Connections, At, Woken
  <2>2. SnapshotValid(n)
    BY <1>1, <1>2 DEF SnapshotValid, At
  <2>3. QED
    BY <1>6, <2>1, <2>2, ReaderStep DEF Woken
<1>7. CASE Disconnect(r)
  <2>1. Closed \in Connections /\ SnapshotValid(Closed)
    BY <1>2 DEF Closed, Connections, SnapshotValid
  <2>2. QED
    BY <1>7, <2>1, ReaderStep DEF Disconnect
<1>8. QED
  BY <1>4, <1>5, <1>6, <1>7 DEF Reading

LEMMA OpenStep ==
  ASSUME IInv, NEW r \in Readers, NEW o \in Offsets, Open(r, o)
  PROVE  IInv'
<1> DEFINE n == [pc |-> "snapshot", offset |-> o, size |-> 0, over |-> FALSE, wake |-> 0]
<1>1. o \in Nat
  BY DEF Offsets, IInv, TypeOK
<1>2. n \in Connections
  BY <1>1 DEF Connections
<1>3. SnapshotValid(n)
  BY DEF SnapshotValid, Open
<1>4. QED
  BY <1>2, <1>3, ReaderStep DEF Open

LEMMA OtherStep ==
  ASSUME IInv, Cancel \/ Outcome
  PROVE  IInv'
<1>1. TypeOK'
  <2>1. CASE Cancel
    BY <2>1 DEF Cancel, IInv, TypeOK, spoolVars
  <2>2. CASE Outcome
    <3>1. left' \in 0..targets /\ exit' \in {0, 1}
      BY <2>2 DEF Outcome, IInv, TypeOK
    <3>2. QED
      BY <2>2, <3>1 DEF Outcome, IInv, TypeOK, spoolVars
  <2>3. QED
    BY <2>1, <2>2
<1>2. CapHolds' /\ NeverRefused' /\ LastFrame' /\ LossKnown' /\ TargetsTold'
  BY DEF Cancel, Outcome, IInv, CapHolds, Owed, NeverRefused, LastFrame, LossKnown, TargetsTold,
     spoolVars, Progress
<1>3. Progress'
  BY DEF Cancel, Outcome, IInv, TypeOK, Progress
<1>4. Snapshots'
  BY ReadersFollow DEF Cancel, Outcome, spoolVars, IInv, TypeOK
<1>5. QED
  BY <1>1, <1>2, <1>3, <1>4 DEF IInv

LEMMA NextIInv == IInv /\ [Next]_vars => IInv'
<1> SUFFICES ASSUME IInv, [Next]_vars PROVE IInv'
  OBVIOUS
<1>1. ASSUME NEW b \in FinalSizes, FinishResult(b) PROVE IInv'
  <2>1. exit' \in {0, 1} /\ (truncated => exit' # 0)
    BY <1>1 DEF FinishResult, FinalExit, IInv, TypeOK
  <2>2. pending = 0 \/ cancelled
    BY <1>1 DEF FinishResult, IInv, Progress
  <2>3. QED
    BY <1>1, <2>1, <2>2, FinishStep DEF FinishResult
<1>2. ASSUME NEW b \in FinalSizes, FinishError(b) PROVE IInv'
  BY <1>2, FinishStep DEF FinishError
<1>3. CASE Execution
  BY <1>1, <1>2, <1>3, DataStep, OtherStep, ResponseStep DEF Execution
<1>4. CASE UNCHANGED vars
  <2>1. UNCHANGED <<spoolVars, runVars, reader>>
    BY <1>4 DEF vars
  <2>2. Snapshots'
    BY <2>1, ReadersFollow DEF spoolVars, runVars, IInv, TypeOK
  <2>3. QED
    BY <2>1, <2>2 DEF spoolVars, runVars, IInv, TypeOK, CapHolds, Owed,
       NeverRefused, Progress, LastFrame, LossKnown, TargetsTold
<1>5. QED
  BY <1>3, <1>4, ReadingStep, OpenStep DEF Next

-----------------------------------------------------------------------------
(* The theorems. *)

\* The inductive invariant holds in every reachable state.
THEOREM Inductive == Spec => []IInv
BY InitIInv, NextIInv, PTL DEF Spec

\* Every variable keeps its type.
THEOREM TypeCorrect == Spec => []TypeOK
<1>1. IInv => TypeOK
  BY DEF IInv
<1>2. QED
  BY <1>1, Inductive, PTL

\* The spool and what the run still owes it fit --run-max-bytes, whatever the
\* command prints (runstore.go, roomLocked).
THEOREM SpoolFits == Spec => []CapHolds
<1>1. IInv => CapHolds
  BY DEF IInv
<1>2. QED
  BY <1>1, Inductive, PTL

\* A minimal response and a final frame are never refused: a run breaks only
\* when its disk does (runstore.go, response and finish).
THEOREM ReservesSuffice == Spec => []NeverRefused
<1>1. IInv => NeverRefused
  BY DEF IInv
<1>2. QED
  BY <1>1, Inductive, PTL

\* A finished run's spool ends with its final frame (runstore.go, finish).
THEOREM FinalFrameLast == Spec => []EndsWithFinal
<1>1. IInv => EndsWithFinal
  BY DEF IInv, TypeOK, LastFrame, EndsWithFinal, Last
<1>2. QED
  BY <1>1, Inductive, PTL

\* A run that ends in a success has lost no output to the cap, and has a
\* response of every target unless its context ended (exec.go, execute).
THEOREM LossAlwaysTold == Spec => []LossTold
<1>1. IInv => LossTold
  BY DEF IInv, LossKnown, TargetsTold, LossTold, Succeeded, Last
<1>2. QED
  BY <1>1, Inductive, PTL

\* A stream that ends by itself has delivered the whole spool (runs.go,
\* streamRun).
THEOREM StreamsComplete == Spec => []StreamComplete
<1>1. IInv => StreamComplete
  BY DEF IInv, Snapshots, SnapshotValid, StreamComplete
<1>2. QED
  BY <1>1, Inductive, PTL

\* No append falls unnoticed between a connection's snapshot and its wait
\* (runs.go, streamRun; runstore.go, snapshot).
THEOREM NoWakeMissed == Spec => []NoMissedWake
<1>1. IInv => NoMissedWake
  BY DEF IInv, Snapshots, SnapshotValid, NoMissedWake
<1>2. QED
  BY <1>1, Inductive, PTL

===============================================================================
