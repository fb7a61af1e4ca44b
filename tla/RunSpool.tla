------------------------------- MODULE RunSpool -------------------------------
(***************************************************************************)
(* One run's spool: the frames its execution appends (internal/gateway/    *)
(* exec.go, execute; runstore.go, data, response and finish) under a hard  *)
(* cap, and the connections that stream it (runs.go, streamRun).  A frame  *)
(* is its kind and its size, so a spool is where its frames end.  Every    *)
(* action is one critical section of the run's mutex, or one step of a     *)
(* reader between two of them.                                             *)
(***************************************************************************)
EXTENDS Integers, Sequences

CONSTANTS
  Limit,            \* --run-max-bytes
  ResponseReserve,  \* responseReserveBytes
  FinalReserve,     \* finalReserveBytes
  MaxMessage,       \* MaxMessageFrameBytes, with the header
  DataSizes,        \* frame sizes of output chunks
  WholeSizes,       \* frame sizes of whole responses
  StrippedSizes,    \* frame sizes of responses without their output
  MinimalSizes,     \* frame sizes of minimal responses
  FinalSizes,       \* frame sizes of result and error frames
  Readers,          \* device connections that follow the run
  MaxTargets,       \* bound: targets of a run
  MaxFrames,        \* bound: frames in the spool
  WritesFail        \* bound: may a spool write fail?

\* minimalResponse clips every field so that its frame fits the reserve, and
\* an exit code or an error message fits the other.
ASSUME SizesAssumption ==
  /\ Limit \in Nat /\ ResponseReserve \in Nat \ {0} /\ FinalReserve \in Nat
  /\ MaxMessage \in Nat /\ MaxTargets \in Nat /\ MaxFrames \in Nat
  /\ DataSizes \subseteq Nat \ {0} /\ WholeSizes \subseteq Nat \ {0}
  /\ StrippedSizes \subseteq Nat \ {0}
  /\ MinimalSizes \subseteq 1..ResponseReserve
  /\ FinalSizes \subseteq 1..FinalReserve
  /\ WritesFail \in BOOLEAN

VARIABLES
  targets,    \* targets of the run
  size,       \* spool bytes that readers may see
  ends,       \* where each frame ends
  kinds,      \* the kind of each frame
  pending,    \* responses not yet written
  truncated,  \* the cap has dropped something
  err,        \* a spool write failed
  done,       \* the final frame is written
  wake,       \* how many wake channels appends have closed
  pc,         \* of the execution: run, respond, ended
  left,       \* responses of the outcome still to spool
  exit,       \* the outcome's exit code
  cancelled,  \* the run's context has ended
  lost,       \* history: output or a field the device asked for was dropped
  failed,     \* history: a write of the spool failed
  reader      \* each connection

spoolVars == <<size, ends, kinds, wake, err, failed>>
runVars   == <<targets, pending, truncated, done, pc, left, exit, cancelled, lost>>
vars      == <<spoolVars, runVars, reader>>

Kinds == {"data", "response", "result", "error"}

Connections == [pc : {"closed", "snapshot", "act", "wait", "ended"},
                offset : Nat, size : Nat, over : BOOLEAN, wake : Nat]

\* A connection: where it is, and what its last snapshot said.
Closed == [pc |-> "closed", offset |-> 0, size |-> 0, over |-> FALSE, wake |-> 0]

-----------------------------------------------------------------------------

MaxRunTargetsRoundedUp == (Limit + ResponseReserve - 1) \div ResponseReserve

\* maxRunTargets: the admission check of startRun.
MaxRunTargets == IF Limit < FinalReserve THEN 0
                 ELSE (Limit - FinalReserve) \div ResponseReserve

\* The responses that startRun holds space for.
Reserved == targets

Init ==
  /\ targets \in {t \in 1..MaxTargets : t <= MaxRunTargets}
  /\ size = 0 /\ ends = << >> /\ kinds = << >> /\ wake = 0
  /\ pending = Reserved
  /\ truncated = FALSE /\ err = FALSE /\ done = FALSE
  /\ pc = "run" /\ left = 0 /\ exit = 0
  /\ cancelled = FALSE
  /\ lost = FALSE /\ failed = FALSE
  /\ reader = [r \in Readers |-> Closed]

\* roomLocked, with p responses still to come.
Room(p) == Limit - size - p * ResponseReserve - FinalReserve

\* A frame's bytes are written, then shown to readers, and they are woken.
AppendFrame(kind, bytes) ==
  /\ size' = size + bytes
  /\ ends' = Append(ends, size + bytes) /\ kinds' = Append(kinds, kind)
  /\ wake' = wake + 1
  /\ UNCHANGED <<err, failed>>

\* appendLocked: a broken run takes no frames, one over the cap is refused
\* (which breaks the run if its caller says so), and a failed write breaks it.
AppendLocked(kind, bytes, refusalBreaks) ==
  \/ err /\ UNCHANGED spoolVars
  \/ /\ ~err /\ size + bytes > Limit
     /\ err' = refusalBreaks
     /\ UNCHANGED <<size, ends, kinds, wake, failed>>
  \/ ~err /\ size + bytes <= Limit /\ AppendFrame(kind, bytes)
  \/ /\ WritesFail /\ ~err /\ size + bytes <= Limit
     /\ err' = TRUE /\ failed' = TRUE
     /\ UNCHANGED <<size, ends, kinds, wake>>

\* run.data, one chunk of a single-host run's stream: dropped with everything
\* after it once it does not fit.
Data(bytes) ==
  /\ pc = "run" /\ targets = 1 /\ Len(ends) < MaxFrames
  /\ IF truncated \/ bytes > Room(pending)
     THEN truncated' = TRUE /\ lost' = TRUE /\ UNCHANGED spoolVars
     ELSE AppendLocked("data", bytes, FALSE) /\ UNCHANGED <<truncated, lost>>
  /\ UNCHANGED <<targets, pending, done, pc, left, exit, cancelled, reader>>

\* /exec/cancel, a timeout or lost standing.
Cancel ==
  /\ pc = "run" /\ ~cancelled
  /\ cancelled' = TRUE
  /\ UNCHANGED <<spoolVars, targets, pending, truncated, done, pc, left, exit,
                 lost, reader>>

\* runner.Run returns one response for each target, or fewer when the context
\* ended while it was at one of them.  The exit code merges those of the targets
\* it came to, so it may be a success without the others.
Outcome ==
  /\ pc = "run"
  /\ pc' = "respond"
  /\ left' \in {n \in 1..targets : n = targets \/ cancelled}
  /\ exit' \in {0, 1}
  /\ UNCHANGED <<spoolVars, targets, pending, truncated, done, cancelled, lost, reader>>

\* run.response: whole, without its output, or minimal.
Response(whole, stripped, minimal) ==
  LET p == pending - 1
      fits(bytes) == bytes <= MaxMessage /\ bytes <= Room(p)
  IN
  /\ pc = "respond" /\ left > 0
  /\ pending' = p /\ left' = left - 1
  /\ \/ /\ ~truncated /\ fits(whole)
        /\ AppendLocked("response", whole, FALSE)
        /\ UNCHANGED <<truncated, lost>>
     \/ /\ truncated \/ ~fits(whole)
        /\ truncated' = TRUE /\ lost' = TRUE
        /\ \/ fits(stripped) /\ AppendLocked("response", stripped, FALSE)
           \/ ~fits(stripped) /\ AppendLocked("response", minimal, TRUE)
  /\ UNCHANGED <<targets, done, pc, exit, cancelled, reader>>

\* run.finish: the final frame, and every reader is woken for good.
FinishWith(kind, bytes) ==
  /\ AppendLocked(kind, bytes, TRUE)
  /\ done' = TRUE /\ pc' = "ended"
  /\ UNCHANGED <<targets, pending, truncated, left, cancelled, lost, reader>>

FinalExitUnmerged == exit

\* The result frame's exit code: what the cap cut short is never a success.
FinalExit == IF truncated /\ exit = 0 THEN 1 ELSE exit

FinishResult(bytes) ==
  /\ pc = "respond" /\ left = 0
  /\ exit' = FinalExit
  /\ FinishWith("result", bytes)

\* A failed pipeline, or a run the gateway stopped.
FinishError(bytes) ==
  /\ pc = "run"
  /\ exit' = 1
  /\ FinishWith("error", bytes)

\* streamRun's entry, from the offset the device consumed.
Open(r, offset) ==
  /\ reader[r].pc = "closed"
  /\ offset <= size
  /\ reader' = [reader EXCEPT ![r] = [pc |-> "snapshot", offset |-> offset,
                                      size |-> 0, over |-> FALSE, wake |-> 0]]
  /\ UNCHANGED <<spoolVars, runVars>>

\* Connection c moves to a place and an offset, its snapshot kept.
At(c, place, offset) == [pc |-> place, offset |-> offset, size |-> c.size,
                         over |-> c.over, wake |-> c.wake]

Snapshot(r) ==
  /\ reader[r].pc = "snapshot"
  /\ reader' = [reader EXCEPT ![r] =
       [pc |-> "act", offset |-> reader[r].offset, size |-> size,
        over |-> done \/ err, wake |-> wake]]
  /\ UNCHANGED <<spoolVars, runVars>>

CopyReadsDone(r) ==
  LET c == reader[r] IN
  /\ c.pc = "act"
  /\ reader' = [reader EXCEPT ![r] =
       IF c.offset < c.size THEN At(c, "snapshot", c.size)
       ELSE IF done \/ err THEN At(c, "ended", c.offset)
       ELSE At(c, "wait", c.offset)]
  /\ UNCHANGED <<spoolVars, runVars>>

\* The spool up to the snapshot's size goes to the device, or the stream ends.
Copy(r) ==
  LET c == reader[r] IN
  /\ c.pc = "act"
  /\ reader' = [reader EXCEPT ![r] =
       IF c.offset < c.size THEN At(c, "snapshot", c.size)
       ELSE IF c.over THEN At(c, "ended", c.offset)
       ELSE At(c, "wait", c.offset)]
  /\ UNCHANGED <<spoolVars, runVars>>

WokenByAppend(r) ==
  /\ reader[r].pc = "wait" /\ wake > reader[r].wake
  /\ reader' = [reader EXCEPT ![r] = At(reader[r], "snapshot", reader[r].offset)]
  /\ UNCHANGED <<spoolVars, runVars>>

\* The snapshot's wake channel is closed, by an append or by finish.
Woken(r) ==
  /\ reader[r].pc = "wait" /\ (wake > reader[r].wake \/ done)
  /\ reader' = [reader EXCEPT ![r] = At(reader[r], "snapshot", reader[r].offset)]
  /\ UNCHANGED <<spoolVars, runVars>>

Disconnect(r) ==
  /\ reader[r].pc \in {"act", "wait"}
  /\ reader' = [reader EXCEPT ![r] = Closed]
  /\ UNCHANGED <<spoolVars, runVars>>

Execution ==
  \/ \E b \in DataSizes : Data(b)
  \/ Cancel
  \/ Outcome
  \/ \E w \in WholeSizes, s \in StrippedSizes, m \in MinimalSizes : Response(w, s, m)
  \/ \E b \in FinalSizes : FinishResult(b) \/ FinishError(b)

Offsets == {0} \cup {ends[i] : i \in DOMAIN ends}

Reading(r) == Snapshot(r) \/ Copy(r) \/ Woken(r)

Next ==
  \/ Execution
  \/ \E r \in Readers : \/ \E o \in Offsets : Open(r, o)
                        \/ Reading(r)
                        \/ Disconnect(r)

Spec == Init /\ [][Next]_vars

\* The run's timeout bounds its command, so its execution goes on to its end,
\* and a connection's goroutine is scheduled while it can move.
FairSpec ==
  /\ Spec
  /\ WF_vars(Outcome) /\ WF_vars(\E b \in FinalSizes : FinishResult(b))
  /\ WF_vars(\E w \in WholeSizes, s \in StrippedSizes, m \in MinimalSizes : Response(w, s, m))
  /\ \A r \in Readers : WF_vars(Reading(r))
-----------------------------------------------------------------------------
(* Correctness *)

\* Every variable has its type.
TypeOK ==
  /\ targets \in Nat \ {0}
  /\ size \in Nat /\ wake \in Nat
  /\ ends \in Seq(Nat) /\ kinds \in Seq(Kinds) /\ Len(ends) = Len(kinds)
  /\ pending \in 0..targets /\ left \in 0..targets
  /\ truncated \in BOOLEAN /\ err \in BOOLEAN /\ done \in BOOLEAN
  /\ cancelled \in BOOLEAN /\ lost \in BOOLEAN /\ failed \in BOOLEAN
  /\ pc \in {"run", "respond", "ended"} /\ exit \in {0, 1}
  /\ reader \in [Readers -> Connections]

\* What the run still has to write, at its smallest.
Owed == IF done \/ err THEN 0 ELSE pending * ResponseReserve + FinalReserve

\* Whatever the command prints, the spool and the frames it still owes fit the
\* cap (runstore.go, roomLocked and appendLocked).
CapHolds == size + Owed <= Limit

\* Only a failing disk breaks a run: whatever output and metadata it produces,
\* every response and the final frame find the space held back for them
\* (runstore.go: "minimal response does not fit its reserve", "final frame
\* does not fit its reserve").
NeverRefused == err => failed

Last(s) == s[Len(s)]

\* A finished run that is not broken ends with its final frame.
EndsWithFinal ==
  done /\ ~err => /\ Last(kinds) \in {"result", "error"}
                  /\ Last(ends) = size

\* A run whose spool ends in a success.
Succeeded == done /\ ~err /\ Last(kinds) = "result" /\ exit = 0

\* A success is whole: the cap dropped no output of it, and unless the run's
\* context has ended every target has its response (exec.go, execute).
LossTold == Succeeded => ~lost /\ (pending = 0 \/ cancelled)

\* "A partial result must never pass for a complete one." (exec.go, execute)
PartialNeverPasses == Succeeded => ~lost /\ pending = 0

\* A stream that the gateway ends by itself has delivered the whole spool of
\* a run that is not broken, up to its final frame.
StreamComplete ==
  \A r \in Readers : reader[r].pc = "ended" /\ ~err =>
    done /\ reader[r].offset = size

\* A waiting connection that lacks output has been woken: no append falls
\* between its snapshot and its wait unnoticed.
NoMissedWake ==
  \A r \in Readers : reader[r].pc = "wait" /\ reader[r].offset < size =>
    wake > reader[r].wake

\* A connection never waits for a wake-up that has already happened: every
\* stream that stays connected comes to its end.
StreamsEnd ==
  \A r \in Readers : reader[r].pc # "closed" ~> reader[r].pc \in {"ended", "closed"}
===============================================================================
