----------------------------- MODULE ExecClient -----------------------------
(***************************************************************************)
(* One call of Client.Exec (internal/remoteclient/client.go) against a     *)
(* gateway: the request is repeated until a run frame arrives, a broken    *)
(* stream is attached again behind the frames already consumed, and the    *)
(* end of the caller's context becomes an explicit cancel.                 *)
(*                                                                         *)
(* The gateway is what RunClaims promises of a run ID: every claim it      *)
(* makes is a step of RunClaims.  Requests may arrive late, until their    *)
(* proof expires, or never; answers are lost with their connection.  Time  *)
(* is coarse: backoff and the cancel's own timeout take none of it.        *)
(***************************************************************************)
EXTENDS Integers, Sequences, FiniteSets

CONSTANTS
    RunID,
    StartWindow,      \* RunClaims: how long a started run stays claimed
    RefusalWindow,    \* RunClaims: how long a cancelled ID stays refused
    ProofLifetime,    \* how long a request can still be admitted
    ReattachTimeout,  \* the patience of follow without progress
    AttemptTime,      \* how long an attempt without an answer lasts (assumed)
    Frames,           \* frames of the run's stream after its run frame
    MaxAttempts,      \* bound on the requests to start
    LastHour          \* bound on the clock

\* An hour's window against a minute's proof and two minutes' patience leaves
\* room for any attempt (runstore.go, idempotencyWindow; request_signature.go,
\* RequestLifetime); a tombstone outlives the proofs sent before its cancel.
ASSUME CallAssumption ==
    /\ StartWindow \in Nat /\ RefusalWindow \in Nat /\ ProofLifetime \in Nat
    /\ ReattachTimeout \in Nat /\ AttemptTime \in Nat /\ Frames \in Nat
    /\ MaxAttempts \in Nat
    /\ AttemptTime + ReattachTimeout + ProofLifetime <= StartWindow
    /\ ProofLifetime <= RefusalWindow

VARIABLES
    claim, startedAt, refusedAt, hour,  \* the state of RunClaims
    runStarts,   \* how often the command was started
    stopping,    \* the running command was cancelled
    spooled,     \* frames of the run written so far
    kept,        \* its output can still be replayed
    request,     \* every request to start: unsent, flying, gone or answered
    cancel,      \* the cancel: unsent, flying or gone, and its answer
    call         \* the call itself

gateVars == <<claim, startedAt, refusedAt, hour>>
runVars == <<runStarts, stopping, spooled, kept>>
callVars == <<gateVars, runVars, request, cancel, call>>

Claims == INSTANCE RunClaims WITH
    Runs <- {RunID}, phase <- claim, started <- startedAt, refused <- refusedAt,
    clock <- hour

Attempts == 1..MaxAttempts
Unsent == [state |-> "unsent", expires |-> 0]

(***************************************************************************)
(* The gateway.                                                            *)
(***************************************************************************)

Claimed == claim[RunID]

ClaimTo(c) == claim' = [claim EXCEPT ![RunID] = c]

StartRun ==
    /\ ClaimTo("running")
    /\ startedAt' = [startedAt EXCEPT ![RunID] = hour]
    /\ UNCHANGED <<refusedAt, hour>>
    /\ Claims!Start(RunID)
    /\ runStarts' = runStarts + 1
    /\ spooled' = 0 /\ kept' = TRUE /\ stopping' = FALSE

\* A request to start arrives while its proof is good: it starts the command,
\* joins the run that has its ID, or is refused: for its cancel, for lost
\* output, for a full gateway or by the policy.
RequestArrives(n) ==
    /\ request[n].state = "flying"
    /\ hour < request[n].expires
    /\ UNCHANGED <<cancel, call>>
    /\ \/ /\ Claimed = "free"
          /\ StartRun
          /\ request' = [request EXCEPT ![n].state = "joined"]
       \/ /\ Claimed \in {"running", "over"} /\ kept
          /\ request' = [request EXCEPT ![n].state = "joined"]
          /\ UNCHANGED <<gateVars, runVars>>
       \/ /\ Claimed \in {"free", "refused"} \/ ~ kept
          /\ request' = [request EXCEPT ![n].state = "refused"]
          /\ UNCHANGED <<gateVars, runVars>>

\* The cancel arrives: a run in progress is stopped, an ID the gateway does
\* not know is refused from now on.
CancelArrives ==
    /\ cancel = "flying"
    /\ cancel' = "done"
    /\ UNCHANGED <<runStarts, spooled, kept, request, call>>
    /\ \/ /\ Claimed = "running"
          /\ stopping' = TRUE
          /\ UNCHANGED gateVars
       \/ /\ Claimed = "free"
          /\ ClaimTo("refused")
          /\ refusedAt' = [refusedAt EXCEPT ![RunID] = hour]
          /\ UNCHANGED <<startedAt, hour, stopping>>
          /\ Claims!Refuse(RunID)
       \/ /\ Claimed \in {"over", "refused"}
          /\ UNCHANGED <<gateVars, stopping>>

CancelRefused ==
    /\ cancel = "flying"
    /\ cancel' = "failed"
    /\ UNCHANGED <<gateVars, runVars, request, call>>

\* The run writes its next frame, the last one with its end; or it ends early
\* (a restart), which leaves no result; or its output is evicted.
RunWrites ==
    /\ Claimed = "running"
    /\ spooled' = spooled + 1
    /\ IF spooled' = Frames
       THEN /\ ClaimTo("over")
            /\ UNCHANGED <<startedAt, refusedAt, hour>>
            /\ Claims!End(RunID)
       ELSE UNCHANGED gateVars
    /\ UNCHANGED <<runStarts, stopping, kept, request, cancel, call>>

RunInterrupted ==
    /\ Claimed = "running"
    /\ ClaimTo("over")
    /\ UNCHANGED <<startedAt, refusedAt, hour>>
    /\ Claims!End(RunID)
    /\ kept' = FALSE
    /\ UNCHANGED <<runStarts, stopping, spooled, request, cancel, call>>

OutputEvicted ==
    /\ Claimed = "over" /\ kept
    /\ kept' = FALSE
    /\ UNCHANGED <<gateVars, runStarts, stopping, spooled, request, cancel, call>>

ClaimForgotten ==
    /\ ClaimTo("free")
    /\ UNCHANGED <<startedAt, refusedAt, hour>>
    /\ Claims!Forget(RunID)
    /\ UNCHANGED <<runVars, request, cancel, call>>

(***************************************************************************)
(* Client.Exec, follow and cancelRun.                                      *)
(***************************************************************************)

Goes(where) == call' = [call EXCEPT !.pc = where]
Gateway == <<gateVars, runVars>>

\* start(): one more request with the same run ID.
SendRequest ==
    /\ call.pc = "start"
    /\ call.attempt < MaxAttempts
    /\ request' = [request EXCEPT ![call.attempt + 1] =
                     [state |-> "flying", expires |-> hour + ProofLifetime]]
    /\ call' = [call EXCEPT !.pc = "starting", !.attempt = @ + 1, !.since = hour]
    /\ UNCHANGED <<Gateway, cancel>>

\* The run frame arrives: from now on the run is attached to, not started.
RunFrame ==
    /\ call.pc = "starting"
    /\ request[call.attempt].state = "joined"
    /\ call' = [call EXCEPT !.pc = "reading", !.started = TRUE]
    /\ UNCHANGED <<Gateway, request, cancel>>

StartRefused ==
    /\ call.pc = "starting"
    /\ request[call.attempt].state = "refused"
    /\ Goes("refused")
    /\ UNCHANGED <<Gateway, request, cancel>>

\* A complete frame is consumed, the last one as the result.
ReadFrame ==
    /\ call.pc = "reading"
    /\ call.offset < spooled
    /\ call' = [call EXCEPT !.offset = @ + 1,
                            !.delivered = Append(@, <<runStarts, call.offset + 1>>),
                            !.pc = IF call.offset + 1 = Frames THEN "result" ELSE @]
    /\ UNCHANGED <<Gateway, request, cancel>>

\* The patience window starts with the first break, and again with every
\* break after progress.
Patience(c) ==
    IF c.deadline = -1 \/ c.offset # c.mark THEN hour + ReattachTimeout ELSE c.deadline

\* For comparison, the cut frame counted in.
ConsumedCut(c) == IF c.offset < spooled THEN c.offset + 1 ELSE c.offset

\* What a broken stream leaves consumed: a frame cut short is not.
Consumed(c) == c.offset

\* The request gets no answer, the stream ends without a result, or breaks
\* anywhere in a frame.
Breaks ==
    /\ call.pc \in {"starting", "reading", "attaching"}
    /\ call' = [call EXCEPT !.pc = "broken",
                            !.offset = IF call.pc = "reading" THEN Consumed(call) ELSE @,
                            !.deadline = Patience(call), !.mark = call.offset]
    /\ UNCHANGED <<Gateway, request, cancel>>

GiveUp ==
    /\ call.pc = "broken"
    /\ hour > call.deadline
    /\ Goes("lost")
    /\ UNCHANGED <<Gateway, request, cancel>>

Retry ==
    /\ call.pc = "broken"
    /\ hour <= call.deadline
    /\ Goes(IF call.started THEN "attaching" ELSE "start")
    /\ UNCHANGED <<Gateway, request, cancel>>

\* POST /exec/attach with the offset: the run's frames from there, or refused
\* when the gateway no longer has the run or its output.
Attach ==
    /\ call.pc = "attaching"
    /\ Goes(IF Claimed \in {"running", "over"} /\ kept THEN "reading" ELSE "refused")
    /\ UNCHANGED <<Gateway, request, cancel>>

\* A cancel is sent whatever the call knows of the run.
CancelNeeded(c) == TRUE

\* The caller's context ends.
ContextEnds ==
    /\ call.pc \in {"start", "starting", "reading", "broken", "attaching"}
    /\ IF CancelNeeded(call)
       THEN cancel' = "flying" /\ Goes("cancelling")
       ELSE Goes("cancelled") /\ UNCHANGED cancel
    /\ UNCHANGED <<Gateway, request>>

\* The cancel is answered, or not in time: then it may still arrive.
CancelAnswered ==
    /\ call.pc = "cancelling"
    /\ \/ cancel = "done" /\ Goes("cancelled")
       \/ Goes("unsure")
    /\ UNCHANGED <<Gateway, request, cancel>>

\* A call that has decided to repeat its request does so at once.
HourPasses ==
    /\ hour < LastHour
    /\ call.pc # "start"
    /\ call.pc = "starting" => hour < call.since + AttemptTime
    /\ hour' = hour + 1
    /\ UNCHANGED <<claim, startedAt, refusedAt, runVars, request, cancel, call>>

ExecInit ==
    /\ Claims!Init
    /\ runStarts = 0 /\ stopping = FALSE /\ spooled = 0 /\ kept = TRUE
    /\ request = [n \in Attempts |-> Unsent]
    /\ cancel = "unsent"
    /\ call = [pc |-> "start", attempt |-> 0, started |-> FALSE, offset |-> 0,
               mark |-> 0, deadline |-> -1, since |-> 0, delivered |-> <<>>]

ExecNext ==
    \/ \E n \in Attempts : RequestArrives(n)
    \/ CancelArrives \/ CancelRefused
    \/ RunWrites \/ RunInterrupted \/ OutputEvicted \/ ClaimForgotten
    \/ SendRequest \/ RunFrame \/ StartRefused \/ ReadFrame \/ Breaks \/ GiveUp
    \/ Retry \/ Attach \/ ContextEnds \/ CancelAnswered
    \/ HourPasses

ExecSpec == ExecInit /\ [][ExecNext]_callVars

(***************************************************************************)
(* Properties.                                                             *)
(***************************************************************************)

\* However its requests are lost, repeated and delayed, one call starts its
\* command once: the last request it can still send and the last moment that
\* can arrive lie inside the window of the first one's claim (client.go, Exec:
\* "which joins the run rather than starting it twice").
ExecStartsOnce == runStarts <= 1

\* What is delivered is the run's stream from its first frame on, without gap
\* or repetition and of one start of the command, and a result is reported
\* only with all of it (client.go, follow; exec.go, ExecStream.Offset).
OutputExact ==
    /\ call.delivered = [i \in 1..Len(call.delivered) |-> <<call.delivered[1][1], i>>]
    /\ call.pc = "result" => Len(call.delivered) = Frames

\* Once a call has returned as cancelled its command does not run on, also when
\* one of its requests arrives only then (client.go, cancelRun).
CancelHolds == call.pc = "cancelled" => Claimed # "running" \/ stopping

\* What a call says of its command is true, however its requests are lost,
\* repeated and delayed: one start, its own output whole, and no run left
\* behind by a cancel (client.go, Exec, follow and cancelRun).
CallTruthful == ExecStartsOnce /\ OutputExact /\ CancelHolds
=============================================================================
