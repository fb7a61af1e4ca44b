# TLA+ models and proofs for AgentSSH

AgentSSH lets a coding agent run commands on hosts over SSH under a policy, with
approvals by a human, an audit log, and an optional gateway that runs the
commands on behalf of enrolled devices. This directory holds TLA+ models of the
parts of it that are hard to test, TLC configurations that check them on small
instances, and proofs, checked by TLAPS, for every value of the constants.

`PROJECT.json` lists components, runs, mutants, the source lines of every
definition, findings, hazards and theorems. Paths below are relative to `src/`.

1. [The system](#1-the-system)
2. [Modules and how they correspond to the code](#2-modules-and-how-they-correspond-to-the-code)
3. [Runs: what is checked](#3-runs-what-is-checked)
4. [Fairness](#4-fairness)
5. [Proofs](#5-proofs)
6. [Where the code and its documents disagree](#6-where-the-code-and-its-documents-disagree)
7. [Not modelled](#7-not-modelled)
8. [Plan](#8-plan)

## 1. The system

### Gateway (`internal/gateway`, `cmd/agentssh-gateway`)

A device posts a run under an ID of its own choice and reads the run's frames
from a spool, at an offset, as often as it has to. The run goes on without the
connection.

| Component | State | Operations | Hard behaviour | What makes it correct |
|---|---|---|---|---|
| Run store, `runstore.go` | disk: one record per claimed ID, one spool per attempt; memory: live runs, slots, cached counts, sweep times | lookup, start, attach, cancel, finish, endRun, sweep, reclaim, evict, recount | handlers race between critical sections; restart between two durable steps; failed record writes; repeats and cancels out of order | an ID's command starts once while a repeat can arrive; an early cancel holds; slots and counts are exact; a live run is never touched; the disk is bounded |
| Spool and stream, `exec.go`, `runs.go` | a run's frames, its size, reserves, error, wake channel; each connection's offset | data, response, finish; snapshot, copy, wait | output competes with mandatory frames for one cap; wake-ups between snapshot and wait; a failing disk | mandatory frames always fit; a finished spool ends with its final frame; loss of output is told; no stream hangs or ends early |
| Standing, `standing.go`, `gateway.go` | per pass: cached answers about devices and identities | request check, pass over the live runs, `run.stop` | the check and the publication are apart; reads fail; the stop races the end | a stop is justified; a pass stops everything lost; a lost run ends |
| Activation and revocation, `activation.go`, `revocation.go` | a window per device, its end-recorded flag, device status | activate, deactivate, revoke, request check, sweep | an activation is audited outside a transaction; each call uses the clock it began with; calls die in the middle | no window's end is forgotten; a restriction is never undone by an activation that was under way |
| Security audit outbox, `security_audit.go` | outbox rows, their mark, the log | enqueue in the transaction, append unless there, mark, repair sweep | append and mark are two steps; several publishers | each event reaches the log, once |
| OAuth server and tokens, `oauth.go`, `tokens.go`, `web_oauth.go` | clients, codes, grants, token hashes | authorize, exchange, refresh, revoke | two exchanges of one code; reuse of a refresh token; revocation during an exchange or an upload | one exchange per code or refresh token; reuse ends the grant; what is revoked gets and runs nothing more |
| Operators and sign-in, `operators.go`, `web.go` | operators, their authenticator key and last step, web sessions; in memory a limiter | password, code, enrolment, use, logout, add, revoke | two sign-ins with one code; two tabs enrolling; a revocation between two statements | a code signs in once; the key kept is the one that was shown |
| Device plans, `approvals.go` | per device a mutex; manifests and requests in its directory | submit, status, decide by plan ID | devices choose IDs; scans of other devices' directories take no lock; runs create requests beside a submission | an ID belongs to one device; a decision is not applied to another device's plan; only runs can stop a plan part way |
| MCP, device API, pages | none of their own | call the above | | |

### Approval (`internal/approval`, `internal/runner`, `internal/policy`)

| Component | State | Operations | Hard behaviour | What makes it correct |
|---|---|---|---|---|
| Requests, `request.go`, `adjudicate.go`, `plan.go` | one file per pending request, per response and per plan | append (joins an equal one), list, reap, decide one or a plan | processes meet only in files; reading and publishing a decision are apart; reaping takes two removals | a decided request stays decided; a grant is never without its audit record |
| Grants, `session_store.go`, `authorize.go` | a session file with once and session grants, and the run that claimed each | preview, claim, settle, end of session, expiry | runs of equal commands at the same time; death between claim and settlement | a once grant is spent at most once, and not lost unless spent |
| Runner, `runner.go`, `plan.go` | the targets of a call | preflight, block, authorize, execute, settle | a group of targets that stops half way | the above, from the other side |
| Policy, `policy.go`, `store.go`, and its writers in `main.go`, `adjudicate.go`, `controlplane/config.go` | rules, presets, overrides with their order | decide, add, edit, remove, stamp, host grant, push | read, derive and store are apart; the overrides have no order in memory | an edit keeps what others saved; a host grant lifts no more than it was asked to |

### Control plane and clients

| Component | State | Operations | Hard behaviour | What makes it correct |
|---|---|---|---|---|
| Control plane, `controlplane` | devices, identities, configuration versions, consumed nonces | verify and consume a signed request, prune, push, revoke, disable | a proof delivered twice, before and after pruning; revocation between look-up and use | a request is admitted once, and none of a revoked device |
| Managed server, `remoteserver` | a log of signatures | serve the bundle, sign | status read and used apart | as above |
| Managed device, `remoteclient/session.go` | a cached bundle that its processes share without a lock | open (cache, ask, store) | a late answer with an older bundle | no session goes back to an older configuration |
| Enrollment and guard, `enroll.go`, `guard.go`, `enrollment_store.go`, `cmd/agentssh/remote.go` | tokens; the home's marker, key and cached bundle | create, redeem, enroll, leave, open, watch | files written and removed one after another by processes that die; commands that read them meanwhile; a request delivered twice | a home that says it is a device has its key; no session uses another device's bundle; only a revocation stops a command |
| Followed run, `remoteclient/client.go` | the call: attempt, frames consumed, deadline | start, repeat, attach, cancel | lost answers, late requests, a cancel that overtakes its run | the command starts once, its output is whole, a cancelled one does not run on |

### Local parts

| Component | State | Operations | Hard behaviour | What makes it correct |
|---|---|---|---|---|
| Plan execution, `plan_run.go`, `execution_workflow.go` | a saved execution and its lock | run, resume, look | death between any two of: save, pin, submit, start | a step's command starts once; nothing is called unknown that is not |
| Payload store, `payload/store.go` | contents, metadata, pins | put, pin, unpin, remove, collect | death inside an operation; collection beside pins | a payload is kept while a pin needs it, and no longer |
| Connection pool, `executor/native.go` | entries, their connection and counts | get, dial, release, keep-alive, depool, close | a shared connection dies, or is closed, under its sessions | no connection leaks, no waiter is stuck, counts are exact |
| Audit log, `audit/record.go` | a file of chained records | append, append unless there, repair | repair replaces the file that others hold open | what was acknowledged is in the log or its backup; the chain holds |
| Terminal, `tui` | copies of inventory, policy and request list, cursors, open dialogs | keys; messages of finished commands | messages arrive late; other commands change the files | an edit lands on what was on the screen and keeps other edits |

Output filter, secrets, configuration and utilities keep no shared state.

### Interactions

A device's request passes `requireActive` (standing, which asks activation and
the control plane's identities), then `execAs`, which asks the run store for the
ID and starts the run. The run executes the ordinary CLI, whose runner asks the
policy and the approval store, which writes requests that the Web UI, the terminal
and the CLI list and decide. The run's frames go to its spool and from there to every
connection, one of which the device's client follows. serve's ticker sweeps activations, the outbox, and the standing of
live runs. Every decision goes to the audit log. A plan execution reads its
payloads from the payload store and runs its steps through the same runner,
whose executor takes its connections from the pool.

## 2. Modules and how they correspond to the code

| Module | Models | An action is |
|---|---|---|
| `RunClaims` | the abstract promise about a run ID: free, running, over or refused, and when a claim may be forgotten | a change of claims |
| `RunStore` | `runstore.go`, and the handlers in `exec.go`, `runs.go` that enter it; refines `RunClaims` | one critical section of `s.mu`, or one durable step |
| `RunSpool` | one run's spool and the connections on it | one critical section of the run's mutex, or one step of a reader |
| `ExecClient` | `client.go` following one run, against a gateway that is `RunClaims` | one send, arrival, frame, loss or decision of the client |
| `Activation` | windows, revocation, and their outbox | one transaction, one read with its clock, one locked append |
| `RunStanding` | request check, publication, passes, end of a run | one read of the store, one transaction, one critical section |
| `TokenGrants` | the OAuth grants, codes and tokens, and the admission of access tokens | one read of a row, one transaction, one answer |
| `OperatorSignIn` | operators, web sessions, the limiter | one statement, one use of the limiter |
| `Approval` | requests, decisions, grants and the runs that use them | one locked update, one exclusive creation, one read, one append |
| `DevicePlans` | the plans of several devices, from submission to decision | one directory scanned, one file created |
| `Policy` | the policy as a value: decisions and edits (no state) | |
| `PolicyWriters` | the processes that change a policy.yaml or a gateway's configuration | one read, one store |
| `ManagedDevice` | signed requests, control plane, managed server, the device's cache | one transaction, one delivery, one file access |
| `Enrollment` | a home that becomes a device, works as one and leaves | one transaction, one delivery, one file written, removed or read |
| `PayloadStore` | the payload store and what a death inside it leaves | one locked operation |
| `PlanRun` (extends `PayloadStore`) | a saved execution with its processes | what lies between two saves, pins or commands |
| `ConnectionPool` | the pool for one target | one section of the pool's mutex, one event of the network |
| `AuditChain` | the log file, appenders, one repair | one file operation under its lock |
| `HostsScreen`, `PolicyPane`, `ApprovalsPane` | three tabs of the terminal with the files under them | one handler of the event loop, one message sent, one edit from outside |
| `MCRunStore`, `MCRuns`, `MCGateway`, `MCApproval`, `MCProcesses`, `MCScreens` | instances for TLC | |
| `RunStoreProofs`, `RunSpoolProofs`, `ActivationProofs`, `ApprovalProofs`, `AccessProofs`, `PlanRunProofs`, `ProcessProofs`, `ScreenProofs` | proofs | |

Operators keep the names of the code's functions where there is one
(`Reclaimable`, `Evictions`, `AppendUnless`, `CommitActivation`, `EndSession`).
Each module also has a few operators that no action uses, named for what they
change (`RemoveSpoolsForgotten`, `UsableByAll`): plausible bugs, one for each property,
that show the property depends on the code. `PROJECT.json` pairs them under `mutants`.

**Composition.** Where components meet in state, one module holds that state: `PlanRun`
takes its steps on the payload store's variables; `ExecClient` is checked against
`RunClaims`, which `RunStore` is proved to implement, so that what it shows of a
call holds with the real store; `Activation` has the outbox in its transactions. The MC
modules `MCRuns`, `MCGateway`, `MCApproval`, `MCProcesses` and `MCScreens` do something
else: they put components that share no state side by side in one run. A behaviour chooses a
part at the start and takes only its steps; the others rest. The states of
such a run are those of its parts together, not their product.

### RunStore

`rec` and `spool` are the files; `live` is `s.runs`; `running`, `counted`,
`count`, `devSweep`, `nextSweep` are the fields of the store; `handler` is where
each HTTP handler is between its critical sections (`Lookup`, sweep, start).
`startedAt` and `tombAt` are history. A record write either happens or leaves
the record as it was (`RecordWritesFail`); a crash keeps the files and empties
the memory. `CrashInStart` and `CrashInEvict` are the points inside a critical
section where a crash leaves something else on disk; an eviction whose record
rewrite fails leaves the same files as `CrashInEvict`. Spool nonces are a small
set because a nonce is used by one attempt at a time. `SweepAll` visits all
devices; the code visits those with a directory, and the others have nothing to
sweep. Order among records of the same age is left open.

### RunSpool

A frame is a kind and a size. The cap, the reserves and all frame sizes are
constants, and the assumption on them is what `minimalResponse` and the encoding
of an exit code establish. A spool write may fail once, which breaks the run
(`err`). A connection takes a snapshot of size, end and wake channel under the
mutex and then copies or waits without it, as `streamRun` does; a device opens
at any frame boundary. The runner returns fewer responses than targets only when the context
of the run ended while it was at one of them (`Outcome`), and the exit code is then merged from
those it came to, 0 included: that such a result passes for a whole one is the finding
`GroupStopped`, and `LossTold` says what holds of a success beside it.

### ExecClient

A request to start that was sent may arrive until its proof expires; its answer
is lost with its connection, so the client repeats it (`follow`), and the repeat
may arrive first. `delivered` is what the caller has seen, frame by frame. The end of the
caller's context becomes a cancel request, which may be lost too; the client then says
so. `AttemptTime`, how long an attempt without an answer lasts, is an assumption
about the transport. A client that is refused as busy does not cancel an earlier
attempt that is still on its way; it tells its caller so, and the property
speaks of calls that returned as cancelled.

### Activation

A call reads the clock at its start and keeps it; `Fail` ends a call anywhere.
The published log is a bag, so that duplicates show. Left out: the dedupe of
records written before events had IDs. A deactivation with an early clock may
close a window whose expiry was collected already; the log then holds both facts.

### RunStanding

One pass has a snapshot of live runs, its own clock and its cached answers.
`doomed` and `missed` record what the pass could know when it began and which
runs an error hid from it. Windows are simplified to what a reader of them sees;
how they change is `Activation`. A device's own cancel is in `RunStore` and `RunSpool`.

### TokenGrants

`grant`, `token` and `outbox` are the tables; a row's place is never reused, as
IDs are random. A call keeps the row it read, its clock and the end of the
window it found, and reads everything else where the code does: the grant when
it decides (`Check`), the device and its window (`Standing`), the grant and the
row again in the transaction (`Issuable`). Every exchange prunes rows past their
expiry by its own clock. `held` are the tokens that an answer has handed out;
only those are presented, by anyone and as often as they like. A request for the
MCP endpoint is admitted before and after its body. `redeemed`, `caught` and
`late` are history. The reads of a device's status and of its window are one step
(no window opens after a revocation). Left out: registration and pruning of
clients; requests with the wrong client, redirect or verifier, which are refused
without effect; device tokens; the audit of ordinary refusals; publication of
the outbox, which is in `Activation`.

### OperatorSignIn

A unit of time is one step of the codes. A code is the key it was made from and
its step, so codes of two keys are never equal. `visit` is one request at a time of each
browser, statement by statement; the password check holds one of
`passwordChecks`, and the limiter counts attempts under way with the failed ones
that still count. `OtherPage` is any other page of a live session, which refreshes its
idle timer. A restart of the gateway empties the limiter, which is in memory. The
look-up of a session and the refresh of its timer are one step, as are the look-up of
an operator and the limiter's `begin`. A sign-in that races
`RevokeOperator` may insert a session row, and every later look-up refuses it; a
handler that is past `withSession` completes. Left out: origin checks and form tokens.

### Approval

A key is what a grant is bound to: session, host, exact command and stdin. A run
is a call over a set of keys, all denied by default: commands that policy allows
need no approval and commands it denies by a hard rule cannot get one. Creation of a
request and the reaping that precedes it are one action, since both are under
the same lock. `RefuseStdin` (the stdin of the run is not what was granted) is a
choice at the claim. The order of the targets in a group is left open. Host scope is in
`PolicyWriters`, plans in `DevicePlans` and `ApprovalsPane`; task scope acts as
session scope. Left out: the repair of old session files; polling with Wait.

### DevicePlans

Each device has a directory; a submission holds its device's mutex from the
count on, scans the directories of the others one at a time, then creates its requests one by
one and the manifest last. `GrayZoneRun` is a run of the same device that creates a
request meanwhile. A decision without a device looks through the directories one at a
time (`findDevice`) and is then applied. Verdicts and scopes are in `Approval`. The scan
holds no lock: two devices may take one ID at the same moment, and look-ups of
that ID are refused as ambiguous from then on; `IdHeldOnce` therefore speaks of IDs
held when the scan passed. A plan that the cap stops part way leaves its first requests behind,
as the comment in `handlePlanSubmit` says.

### Policy, PolicyWriters and PolicyPane

A rule is an action, a priority, the set of commands its pattern matches, and the
group it was stamped from. Overrides are keyed by a host or by a group, and have in
memory only the order they were read in (`order`), as in the code. `Authorize` has the tiers of
`authorize.go`; a device's own policy is laid over the gateway's. `PolicyWriters` has
both kinds of store: policy.yaml, where the last writer wins and only the grant's effect on
what it read is checked, and the gateway's configuration, whose version is compared. `applyHostGrant`
does nothing, and reports success, if a rule with the same pattern exists, also one that
denies. Decisions of whole plans never have host scope.
`PolicyPane` is the screen over policy.yaml: reading and writing the file in a
handler is one step, and notices of a change may arrive after another change.

### ManagedDevice

Device and server share one clock that does not go back. A request is named by its
proof; the network delivers it any number of times. `ConsumeTime` is the transaction's
own clock, read under the write lock. An identity that is disabled between the check and
the signature still signs. Sessions of one home share the cache without a lock;
in the run one process opens at a time, and what two of them can do is in section 6.
Enrollment, leaving and the revocation guard are in `Enrollment`.

### Enrollment

`token` and `device` are the rows of `enroll_tokens` and `devices`; `posted` holds every
enrollment request ever sent, which is delivered any number of times, and `reply` the one
answer its sender may receive. `home` is the directory `remote`: marker, device key, cached bundle. `desk` is the
process of an operator who enrolls (probe, request, answer, key file, marker file)
or leaves (marker, then the rest in any order), and `OperatorFails` lets it die or fail
anywhere. `command` is another process of the home: it reads the marker, the key and the
cache one after another, as `NewClient` and `Open` do, may be served or use its cached bundle,
stores what it was served over whatever the directory holds by then, and runs under the
guard. A bundle is named by its device; its version, expiry and the nonces are in
`ManagedDevice`. Left out: the mode of a control plane, and the pinned bundle key.


### PayloadStore and PlanRun

Every writing operation of the payload store holds one lock, so it is one step; the `Dies`
actions are its write order cut short. A snapshot is synced with its directory, and so is the data of a payload by
the `Put` that writes it; metadata, pins, removals and the files of plans are not. `unsynced` says which files may therefore be
older after a loss of power: `MachineCrash` stops every process and puts back the `durable` snapshot, and
`Boot` chooses for each unsynced file any content it had since it was last synced (`PowerLoss`; for an expiry and for a plan
any it could have had: `MayHold`, `MayBe`). A plan may so become undecided again, or its manifest be
`gone`, at which a resumption ends (`ConsultGone`). `struck` are the payloads that lost or regained their data or the execution's pin this way. Objects are contents of size one. The last
`Put` of a content decides how long it is kept; orphan data, torn metadata and temporary files are never
collected. In `PlanRun` a process works on its own copy of the snapshot and may
die between any two steps. There is one execution; whether the approval store authorizes a
step is a free choice; plan IDs are recycled, to stay finite. `refused` exempts from
`InputsKept` an execution that was found denied, which gives its pins up. What one sees in the
model and not in the documents: pins of an execution that could not be saved, or that ends
unknown, stay; a death after `failed_continued` was saved leaves a failed
execution that cannot be resumed; a submission whose audit record fails releases the
pins of the plan it belongs to; the liveness probe takes the lock for a moment,
so a resume beside it may be told that the execution is owned. The journal of events is left out.

### ConnectionPool

A connection is named by its entry, since an entry is dialled once. The network may
kill a connection at any time; the keep-alive sees it later. A session may be cancelled while
it dials, waits or runs: a cancelled command, a probe that hangs or a session that cannot
be opened in time closes the shared connection under the others, and a waiter is handed the
dialer's error, its cancelled context included. The branch for a closed pool in `dialEntry` cannot be reached.

### AuditChain

A record carries the name of the record it was chained to. A write may be torn by a
death (`WriteCut`); a log with a torn line refuses appends and repairs alike. A repair reads the log
twice, backs it up and renames a new file over it, without the lock, while appenders may hold the old file open. It
harms none of them because it goes on only over a log that does not verify, and to such a log nothing is appended.
Two repairs at a time could lose an acknowledged record
together with the first one's backup; the model has one repair at a time. Left out: a record whose line lacks only
its newline, which reads well until the next append joins it. The event ID of a
record is not part of its hash.

### HostsScreen and ApprovalsPane

Hosts are numbers in the order of their names; a host is its tag, its connection data and
its detected system. Probes, discovery and notices are messages that arrive in any order. A handler that changes the
inventory reads it again in one step (`HandlerReads`) and writes it in another, and no other key or message is handled between; but other
commands may write between, as long as opening the store of secrets or a check takes, and what they saved there is overwritten, since there is no lock
(`addHost`, `tui/hosts.go:1103-1151`). A host whose password cannot be stored is taken back over another reading (`UndoReads`, `TakeBack`). The commands write back what they read when they began, which for
`inventory discover` is before its probes, and undo what was saved meanwhile. A notice that comes late may show an older inventory. Left out: the
stored password, which stays when a host is deleted, and the rules of a host: the command
clears them before it writes the inventory, the screen after. In the
approvals tab lists arrive late, and `choices()` is computed from the disk each time it is drawn or
used (`Menu`); a decision of a whole plan is one step with a failing prefix. Requests
that a refused or interrupted submission left behind have a plan ID and no manifest; a collapsed row of them cannot be
decided. Left out: the preview of payloads and the pins a decision releases.

## 3. Runs: what is checked

Every bound on what the program does not bound itself is a constant marked
"bound" in its module.

| Run | Question | Bounds and why they are enough |
|---|---|---|
| `RunStoreRaces` | do slots, counts, live runs and the quota survive interleaved handlers? | 2 IDs, 2 handlers, one slot, two records, a quota of one byte and runs of up to two: every limit is met by two runs, so that refusal, reclamation and eviction all happen. One restart and three ticks put each record past each age of one tick. One device: devices share no record, slot or count |
| `RunStoreAges` | are claims and tombstones kept long enough, is `RunClaims` implemented, does every run end? | all ages of 1 or 2 ticks against a clock of 4, one record allowed, so that each of deletion, reclamation and eviction is the first to act in some behaviour |
| `Runs` | do mandatory frames always fit, is loss told, do streams end complete, does a lost run end? is the end of every window remembered and published once (`EventsKept`), does a restriction win? | spool: a cap of 9 against reserves of 2 and 1, so that up to four targets are admitted; chunks and responses that fit, that fit only stripped and that fit only as a minimum; one connection, since connections do not see each other. Standing: one run, one store error, four clock values, which let a window be opened, closed and opened again during a pass. Activation: two processes and the sweep on one device, windows of two lengths, five clock readings, one failure at any step |
| `Gateway` | is a token exchanged once, reuse punished, a revocation held against what is under way? is a pass right? does a code sign in once? | tokens: one grant, a code and two exchanges, two calls, four clock values with lifetimes of one and two, so that tokens expire and are pruned under a waiting call; one call dies. Standing: two runs that share a device and an identity, so that cached answers are used; one store error. Sign-in: one operator, one address, two browsers, two sessions and two keys, one password check at a time, two failures to the limit; three time steps, within which the password stage, the idle and the whole lifetime of a session end; entered codes are of the current step |
| `Approval` | are once grants spent once and kept, decisions final, grants audited? do plan IDs stay apart? | stores: two runs and two calls on two keys, two requests of which a plan may have made the first, one pending request allowed, times of one tick, one failure. Plans: two devices, one ID that both want, two submissions, a cap of two that a plan of two and a run's request exceed, one operator |
| `Processes` | see the properties of `PlanRun`, `ConnectionPool`, `AuditChain`, `ManagedDevice`, `Enrollment`, `ExecClient`, `PolicyWriters` | plan: two processes on one execution of a check that may fail and go on and a step with a payload; one payload, retention of none or one tick, one death of a process or loss of power, after which everything can be resumed and collected. Pool: three sessions, so that one waits while another loses the connection they share, and two dials. Log: three appenders, two of one fact, one repair, one alteration. Device: two requests and two handlers, so that each request is also delivered twice, two pushes, three clock values with every lifetime of one or two. Enrollment: two tokens, keys and device IDs, so that a home is enrolled, left half way and enrolled as another device; one operator and one command, which may store and read again what is stale by then. Call: three attempts, three frames, seven hours, which the claim outlives or not. Writers: two writers, two hosts in one group, two commands, five policies to begin with |
| `Screens` | do edits land on what was shown and keep what others wrote? | hosts: two names of two machines, one in the inventory and tested and one that discovery finds; one edit from outside, which may fall before, between and after a handler's reading and writing, two openings of the overlay, so that verdicts of the first arrive in the second; no tags, so that the commands add, remove and import hosts and an update changes nothing. Policy: a host and the group that carries it, one rule per list, one edit from outside, one notice under way. Approvals: a plan of two and a request of its own, one list under way |
| `HostsDelete`, `PolicyRemove`, `ApprovalsEnter`, `PlanObserved`, `GroupStopped` | does the code do what the document or comment says? No: see section 6 | the smallest instance that shows it; `HostsDelete` has tags, and three hosts of which two are names of one machine |

The largest of the passing runs have 1.5 to 2.6 million distinct states (`Gateway`,
`Processes`, `Approval`, `Screens`).

Some deadlock checks are off (`CHECK_DEADLOCK FALSE`) where the bounded clock,
the finished run or the exhausted calls really leave nothing to do.
Symmetry is used for safety only; no liveness run declares it. Where parts share a run,
they take their names from the same symmetric set.

The safety properties in words are the comments above their definitions. The
ones that took the most modelling:

- `OutputLossJustified`: a refused or joining request costs no other run its output.
- `ClaimRemembered` and `CallTruthful`: the two ends of one promise. However
  requests are lost, repeated and delayed, the command starts once and the caller's output is whole.
- `NeverRefused`, `StreamComplete`, `EventsKept`, `WindowJustified`.
- `StandingEnforced`: a pass stops what it could know to be lost, whatever the store
  refuses about other runs, and nothing else.
- `SecondFactorHolds`: with two browsers between any two statements.
- `StartedOnce` and `PinsWhileNeeded`: with deaths between any two saves, pins and commands, and losses of power.
- `PoolAccounted`, `WritesKeepEdits`.
- `LogSound`: the log stays a chain and loses no reported record, while
  repairs rename files under its appenders.
- `NothingOld`: nothing old is accepted by a control plane, nor by a device.
- `HomeIsOneDevice`: what a token makes, what the files of a home say
  together, and what a command that reads them one by one works with.
- `SavedDecidesAlike`: the policy on the screen and the one on disk decide alike,
  although the file has an order that the memory has not.

## 4. Fairness

- `RunStore`: time passes; timers fire; a cancelled command ends (the runner is
  killed after its grace period); the deferred `endRun` follows. Nothing makes a
  command end by itself; `SlotReleased` needs the timeout.
- `RunSpool` (in `Runs`): the execution goroutine goes on once its command is over, which
  the run's timeout assures (`Outcome`, `Response`, `FinishResult`), and a connection's
  goroutine moves while it can (`Reading`). Nothing makes a device connect,
  stay or leave.
- `RunStanding` (in `Runs`): passes go on for ever, a cancelled command returns, and the
  goroutine that finishes a run goes on. A command nobody cancels may run on.
  `MCRuns` states the fairness of each part for the steps it takes in a behaviour that is about it.
- `Activation` (in `Runs`): `serve` runs its sweep again and again, and time passes. No
  operator has to do anything. Failures are bounded: a log that stays broken is
  never caught up with.
- The other modules have no fairness: they promise nothing about
  humans, clients, networks and agents. That no waiter of the connection pool is stuck
  is stated as a safety property (`NoStuckWaiter`: whoever waits, waits for a dial in progress).

## 5. Proofs

All theorems hold for every value of the constants that satisfies the named
assumptions: for the run store `LimitsAssumption`, `TimesAssumption`,
`NamesAssumption` and `FiniteAssumption` (limits and ages are naturals, a sweep
is due after a while, a sentinel is no request, devices, IDs and nonces are finite); for the spool
`SizesAssumption` (sizes are positive, minimal responses and final frames fit
their reserves); for `TokenGrants`, `Activation` and `Approval` a `BoundsAssumption` each (bounds and
lifetimes are naturals, some positive; sentinels are no grant, device or process) and for `Approval` also
`NamesAssumption` (the empty claim names no process); for `PlanRun` `StoreAssumption` (times are naturals, finitely many objects),
`PlanAssumption` (inputs of steps are objects) and `NamesAssumption` (an execution and its plans are
told apart by the prefixes of their IDs); for `ConnectionPool` `PoolAssumption` (finitely many calls, and no entry
is the absence of one); for `RunStanding` `LengthsAssumption` (window lengths are naturals); for `OperatorSignIn`
`SignInAssumption` (lifetimes and the limit of attempts are naturals, a code is accepted near its step); for
`AuditChain` `ChainAssumption`, for `ManagedDevice` `DeviceAssumption` and for `Enrollment`
`EnrollAssumption` (nobody, no proof and no device are none of them; a repair does not write the original file;
lifetimes are naturals); for `DevicePlans` `PlansAssumption` (devices are
numbers, in the order of `deviceIDs`, no device is none of them, finitely many requests, a cap of at least one); for `ExecClient` `CallAssumption` (an attempt, the patience window and a proof's life fit into
the hour that a claim lasts, `runstore.go:97`, and a proof into a tombstone's life). Three theorems have an assumption of their own, one repair, one session or one operator
at a time, which is said where they are. Nothing else bounds the number of
devices, runs, calls, requests, processes or steps. TLC evaluates the assumptions in every run.

**Run store** (`RunStoreProofs`). `IInv` is type correctness, `SlotsMatchLive`,
`RecordsBounded`, `CountMatchesDisk`, `LiveRunIntact` and `AllGuarded`. The
strengthening is needed twice. A cached count falls by the number of records
reclaimed, so that it stays a natural number only because it equals the number
of records on disk, and the limit must hold of the records even while no count is
cached (`RecordsBounded`). And that a claim is remembered does not follow from
the recent claims alone: a step needs what each state of a record says about
when the command was started or refused (`Guarded`), recent or not. Each way the store changes records is shown once, as a
lemma about `DeleteRecs`, `EvictRecs`, `SweptRecs`, to keep every record that is live or
too young (`Keeps`); each action then has a lemma of its own. Cardinalities come
from the library's theorems on finite sets. `OutputLossJustified`, an action property, follows
from `IInv` action by action: an admission deletes only records past their window, and only a start
or an end of a run of the device, or a crash within one of them, evicts.

**Quota** (end of `RunStoreProofs`). `QuotaHolds` bounds a sum over files that no
single step computes. Of an arbitrary finite set, the sum `Total` is an unfolding of
the fold in `FiniteSetsExt`; that it is the sum is proved by induction over the parts of the
set (`PartsInduction`), which is an argument about a least counterexample,
since the library's induction rules cannot be cited with an operator. The lemmas `TotalRemove`, `TotalLe`,
`TotalSum`, `TotalBound`, `TotalZeros` and `TotalImage` follow. The invariant
`QInv` adds two facts to `IInv`. `FilesValid`: a file that does not exist weighs nothing, none outgrows
`RunMaxBytes`, and a finished record that still has output names its file. `HeldFits`: the stored output of a device, with a full spool
for each slot in use, fits the quota and a spool for every slot. It holds
when a run starts since the loop of `makeRoomLocked` left room for one spool (`EvictionsFit`), when a run ends since the loop
left none over the quota, and across a restart since what becomes stored output then was in
a slot before. `FilesWeigh` goes from stored records to every file on the disk.

**Refinement** (`RunStoreProofs`, before the quota). `StoreImplementsClaims` proves
`Spec => Claims!Spec` under the mapping `Phase`: a record's absence is "free", a
cancelled record is "refused", others are "running" while live and "over" after.
A critical section may forget several IDs and claim another, which is one step
of `RunClaims`. `IInv` supplies that a deleted record is older than the window.
`ExecClient` uses the same `RunClaims` from the other side.

**Spool** (`RunSpoolProofs`). `IInv` adds to `CapHolds`, `EndsWithFinal`, `LossTold`, `StreamComplete` and
`NoMissedWake` four facts: `Progress` (which
responses are still owed at each place of the execution), `LastFrame` (frames
end where the spool ends, and the final one is last), `LossKnown` (whatever was
dropped is known to `truncated` or the exit code) and `Snapshots` (what a
connection remembers was true of the spool and is so still if the run is
over). `CapHolds` is not inductive without `Progress`, and `NeverRefused` follows from
`CapHolds`: a minimal response fits because its reserve is part of `Owed`. The arithmetic of
`MaxRunTargets`, an integer division, is the lemma `TargetsFit`.

**Token grants** (`AccessProofs`, from `BoundsAssumption`: the bounds and
lifetimes are naturals, and the sentinels are no grant and no device). `TokensInv` is
type correctness, `RowsValid` (a row has a made grant, and access tokens are never
marked used), `Exchanged` (an exchanged row is marked or deleted, and a place not
yet taken is untouched), `Recorded` (a revocation has its fact, and what was
caught is revoked) and `CallsValid` (what a waiting call may still rely on). `RedeemedOnce`
needs `Exchanged`, since a deleted row no longer says that it was used, and
therefore that places are never taken again. `UploadStands` needs `CallsValid`: what
is revoked during the upload is still revoked at the second admission. That each call survives the
others' steps is one lemma, `StillValid`: rows, grants and devices only lose their
standing (`OnlyLoses`).

**Activation** (`ActivationProofs`). `EventsKept` is inductive only with what each
call carries from its clock reading to its transaction (`CallsValid`), and with
the fact that no window comes back: the clock readings of activations are distinct
(`InstantsDistinct`), and what happens to a window in its row only shortens it. `ReadStands`
then says of a call that waited for the audit log what it needs at its commit: if the row still has the window
it read, with the end it read, nothing restricted the device meanwhile but a revocation, and the
transaction checks for that. `WindowsAreJustified` is that step; with the check of the
end left out it would be false (`CommitUnchecked`). An ended window is not forgotten since whoever overwrites or
collects it puts the fact into the outbox in the same transaction (`OpenedValid`, `ClosedCollected`).

**Approval** (`ApprovalProofs`). `OnceIsOnce` is about the claim in a grant, the place of
the run that made it and the number of exits, three files that no step writes together. `HolderValid`
says what a run that holds a claim knows: nobody else holds a claim of the same decision, and
whether the command ran shows in the run's place. `GrantValid` is its converse for the grant: an unclaimed grant was never
spent, and a claimed one belongs to its holder or to a run that gave it up, which
never comes back to the target (`GaveUp`). `GrantsDistinct` (a decision leaves one grant) makes
claiming a grant claim its decision. The place of a new grant in its list, `End`, needs that the list is bounded, again by the least element.
`GrantsAreAudited` is part of `GrantsValid`; `OnceGrantsAreKept` and `DecisionsStay` are action properties
shown from the same invariant.

**Standing** (`AccessProofs`). A pass judges runs by a snapshot, a clock read before it and answers
that runs share, while operators change the store and runs are published and end. `StopJustified` needs that every
answer is true of every run still to be judged by it (`AnswersTrue`): a window
that had ended by the older clock has ended by now, so that all live runs of the device lost it when it was
read, and what a run lost it remembers while it lives; runs published later are not in the snapshot. `PassStopsTheLost` needs
the converse (`DoomFound`): what was lost for good before the snapshot is seen by every later reading, and no
answer of this pass can say otherwise, since answers go with their pass. Operators, time and the runs' own steps leave all of it alone by one
lemma (`OutsideKeepsPass`).

**Plan execution** (`PlanRunProofs`). Neither `StartedOnce` nor `PinsWhileNeeded` says anything of the
process that makes the difference, so `Core` says what the snapshot on disk tells (`Sound`: a step it calls not started
was never sent, and the payloads of its steps to come are pinned) and what the owner relies on at each
place (`Placed`: its copy has the steps and pins of the snapshot; in `Sending` one step is under way, the snapshot
already says so, and the place tells whether the command left). That there is one owner (`OneOwner`) comes from the lock, and
before there is a snapshot to lock from the new ID in its name. Most steps, of the payload store and of other plans, are `Tame`: they start nothing
and take no pin of the execution, and `TameSound` and `TamePlaced` carry the invariant over them at once. A death may leave the
snapshot behind the owner's copy at every save; the proof needs that a save of "running" is durable before the
command. `IInv` adds to `Core` only the type of `unsynced`: a loss of power leaves a store of the right type (`BootStore`) in which every payload whose
data or pin of the execution changed is `struck`, and no process runs, so that what `Core` says of the snapshot and of the other
payloads stands (`BootKeeps`). The first step to be run is a least element again.

**Sign-in** (`AccessProofs`). `SecondFactorHolds` relates what browsers were shown, what they sent and what was kept,
by way of rows that any visit may replace between two statements of another. `SignInInv` therefore says of
the operator's row that every accepted code is of a step it has recorded (`AcceptedRecorded`), which only grows; of a session
that its pending key, once shown, is the one every page showed; and of each place of a visit what it has looked up and may still rely on.

**Connection pool** (`ProcessProofs`). `NoLeak` is not inductive: an entry that left the pool with its
connection open must also be marked `closeWhenIdle` and have sessions in flight (`EntryValid`), and
that some session will come to the last release needs the exact count, `InFlightExact`. `NoStuckWaiter` needs that an entry in the phase
"dialing" that nobody announced has its dialer (`DialersExist`), of which there is one (`OneDialer`); Close
takes the entry from under the dialer but announces it. Changes that move no session (evictions,
depooling, the peer, the keep-alive, Close) are `PoolGentle`, and a session that keeps what it holds moves by
`GentleMove`; taking, sharing and giving back a connection count the sessions with the library's theorems on finite sets.

**Audit log** (`ProcessProofs`). `ChainUnbroken` must hold of every file, since any repair's file may become the log, and
of what each repair is about to write (`ChainInv`). A writer's file is as it was read (`WritersHold`): the lock keeps other
appends away, and a repair renames its own file, which no append has open before (`RepairsOver`). Truncating
at the count of sound records, altering a record and appending are a lemma each. `AcknowledgedStay` is for one repair:
the log it found broken stays broken and is written to no more (`WritersElsewhere`), so that the backup has all that was reported. With a
second repair it is false (section 2, `AuditChain`).

**Requests of a device** (`ProcessProofs`). An admitted proof is in the nonces or has expired by the clock of now
(`AdmittedRemembered`). That is inductive since pruning and admission read one clock under one lock, and a request is found by its proof
(`RequestsApart`); `NoReplay` is the step that admits. `NeverBack` is for sessions that open one after another: the cache that was read is
then the cache there is, and no session had a newer version (`RollbackInv`). Two at a time do go back (section 6).

**Enrollment** (`ProcessProofs`). `EnrollInv` says nothing of the files of the home. A registered device has spent its token
(`TokensSpent`), keeps its key, and is once inactive for ever (`DevicesKept`); an answer names the device that has the key (`AnswersOwn`); and a
command has, at each place, the bundle of its own device (`CommandOwn`), whatever the files became since it read them. `TokensMakeOne` and
`SessionsOwn` follow for any number of operators. `EnrolledWhole` needs one operator at a time (`HomeInv`: from the
first write to the last the home is no device); with two it is false, as section 6 says.

**Call of a remote client** (`ProcessProofs`, from `CallAssumption`). The clock stands while a call is about to repeat its request, so the
first one leaves at once and the last within its patience window (`LastSend`, `Timely`); no request arrives later than a proof's life after that
(`RequestsTimely`). The claim of the first start lasts longer, so no arrival starts the run again
(`StartsOnce`). A cancel that arrived has stopped the run, or its refusal outlives the requests sent before it (`CancelRemembered`), and
what was delivered is the first part of the one run's frames (`Delivered`). `CallTruthful` follows for any windows with that order,
any number of frames and of attempts.

**Plans of devices** (`ApprovalProofs`, from `PlansAssumption`). The scans hold no lock, so the invariant follows each ID from
the first step of a scan: a device that held it then and holds it still is yet to be looked at (`RivalsAhead`), or was found
(`HeldFound`). What `CreatePlan` reaps is held no more, which is the one step that touches scans of others. For the cap, what a submission has
left and what waits on its device fit together (`PlansFit`), since the mutex admits one submission of a device (`OneCreates`), its own
requests take one line each, decisions only lower the count, and a run that publishes a request leaves a mark. A submission that is stopped
found the cap reached with a line left, so it has the mark.

**Writers of a policy** (`ProcessProofs`, from no assumption). `WritesKeepEdits` says two things of a store. That it replaces
what its writer read, in a gateway's configuration, is `EditsWhatItReplaces`, which is proved: while the revision is the one a
writer read, the policy is the one it read (`ReadAsStored`), since each change of it, pushes and the writer's own included, takes the next
revision. The other half is below.

**Hosts screen** (`ScreenProofs`, from no assumption). A handler acts on the file it read, so while nobody wrote since (`Unraced`) most steps change no host but their
own whatever the list showed: what the handler read is then still what the file holds. What an import adds is the exception, it goes by verdicts that arrive late; `VerdictsOfNow` holds since a verdict
that is not of the overlay's opening is dropped and each opening starts with none. `HostsInv` is that, what a handler has read, and the shape of the overlay.

**Approvals tab** (`ScreenProofs`, from no assumption). `PaneInv` says that while a menu is open the row under the cursor is the one the menu was
opened for, and that a menu for one request never stands on a collapsed plan, whose row stands for all its members (`OnTarget`). It is
disturbed by every list that arrives: `Resync` moves the cursor to the target or closes the menu.

**Only model-checked.** Liveness (`SlotReleased`, `StreamsEnd`, `EndsPublished`,
`LostRunsEnd`): temporal reasoning with ENABLED is beyond the prover. The second half of `WritesKeepEdits` (a grant lifts only a
default denial) and `SavedDecidesAlike`: both compare the first match in lists that are filtered, flattened and sorted, which takes
induction over these lists, and of `SelectSeq` the prover knows nothing. The properties of section 6 are violated.

## 6. Where the code and its documents disagree

With a run:

1. `HostsDelete`: the comment on `startDelete` (`tui/hosts.go:688-690`) says that the
   host under the cursor is the host whose page is open. An inline edit may take from the
   host what the filter matches; the list narrows under the cursor, and the
   confirmation then deletes the next host.
2. `PolicyRemove`: `README.md:220-221` says that `j/k` selects a row and `r` removes it. The file is read
   again and the rule at the row's number removed (`policy_section.go:640-651`), whichever it is by then. Edits and
   the host's pane do the same.
3. `ApprovalsEnter`: the verdict menu (`approvals_section.go:33-37`) has its choices computed anew when
   Enter is pressed. When the plan's members on disk have changed, the highlighted index means another choice;
   in the run "task" was highlighted and the plan is denied.
4. `PlanObserved`: `execution_workflow.go:599` and `plans.md:68-69` reserve "unknown" for interruptions. A look at an
   execution reads its snapshot before its lock, and tells one that stopped in good order in between to be unknown.
5. `GroupStopped`: `exec.go:243` and `remote-control.md:204-205` say that a partial result never passes for a complete one.
   The runner stops a group when its context has ended (`runner.go:218-221`), by a device's cancel or the timeout of the run, with no error and with the exit code of the
   targets it came to. When those succeeded, the result frame says exit code 0 and not truncated, and the responses of the other targets are missing.

Met while modelling, without a run:

- The comment on the quota (`runstore.go:56-58`) bounds a device's disk use by the quota and the
  concurrent runs; output of runs that a restart interrupted is not weighed until the sweep deletes them.
  `QuotaHolds` states what does hold.
- `docs/architecture/gateway-mode.md:408-411` says that a stopped run ends with an error frame naming the
  reason; a stop that arrives after `execute` asked for one does not.
- `request.go:263-265` says that the first publisher of a decision wins. A request older than the reaping
  age is reaped as soon as it is decided, and a second decision that read it before succeeds as well.
- `oauth.go:793-795` says that a token which another request used first was reused. The update also finds
  no row when an exchange for another grant has pruned the token, by its later clock, since this request
  read it; the grant of a token that nobody used is then revoked.
- The comment on `idempotencyWindow` (`runstore.go:93-97`) promises it for every
  started run; a run that a restart interrupted is deleted after retention plus
  execution timeout, which may be configured to be less. `ClaimRemembered` uses
  the smaller of the two.
- `remote/exec.go:166-168` promises one response frame per target before a result
  frame; a group run that stops early has fewer (the behaviour of `GroupStopped`).
- `README.md:183-185` says that retained payloads are removable only when no active execution or plan pin
  references them. A snapshot and the data of payloads are synced before the execution goes on, pins and metadata are not
  (`payload/store.go:513-530`): after a loss of power an execution may be resumable and its payloads unpinned,
  so that they can be removed or collected. `PinsWhileNeeded` exempts the payloads whose files changed so (`struck`).
- No document says what becomes of two changes of the inventory at the same time. All commands, the handlers of the screen
  included, read it and write it back without a lock, and what another saved in between is lost
  (in `tui/hosts.go:1103-1151` while the store of secrets is opened); policy.yaml is no different. `OthersEditsKept` is
  about what was saved before a handler's reading.
- `gateway-mode.md:361-363` says that access tokens are issued only while the
  device is active; `issueTokens` does not read the device's standing again in
  its transaction, so a device revoked or deactivated since `grantStanding` still
  gets one last pair. Its use is refused while the device stays so.
- `README.md:612` and `docs/DESIGN.md:49` say that a repair removes a broken tail of the log. The tail that
  a death in the middle of a write leaves does not parse, and `TruncateBroken` fails on it as every append does.
- `docs/architecture/remote-control.md:614` excludes going back to an older configuration. A session compares
  with the cache it read at its start; two processes of one home with three requests under way can store the older bundle last.
- `enroll.go:74` says that failures never activate partial state. `Enroll` asks whether the home is enrolled
  before its requests and not again before it writes: with two operators at one home, TLC finds that the second
  writes its key beside the first one's marker. If it then dies, or the two write in the order key, key, marker, marker
  with the first marker last, the home says it is a device whose key it does not have, and every request is refused until
  it is left and enrolled again. `Processes` has one operator.
- `guard.go:18-20` says of a command whose device was revoked that it was cancelled. The guard's cancellation and
  the end of the command race (`GuardCancels` in the place `ended`): a command that has completed is then told
  with exit code -1 as cancelled.
- `docs/plans/client-gateway-mode.md:45-46` has a signed status request check the mode again before the
  enrollment is committed; `Enroll` sends none.

## 7. Not modelled

See the `not_modelled` components in `PROJECT.json`: views
that write nothing, flag parsing, QR codes, secrets, output filtering, configuration and other pure
transformations, which keep no state that actors share. Of modelled components the
sections above say what is left out. Beyond them:

- SSH, SQLite transactions, and the file system's locks, exclusive creation and rename are
  taken to do what they promise.
- Approval requests that a client polls for (Wait, Status, run_wait), task patterns, and the
  templates of plans: they read and compute.
- Registration of OAuth clients, device tokens and the administration commands of the
  control plane: single statements on rows nobody else changes.
- Wording, layout and encodings, except where a property is about them (the order in which
  overrides are written in `Policy`, what a hash covers in `AuditChain`).

## 8. Plan

Done, in this order: run store and its abstract specification, spool and
streams, activation and outbox, standing, approval, OAuth grants and tokens; then the client of a
run, signed requests and cached configuration, the policy and its writers, saved plans and
payloads, the connection pool, the audit log, operators' sign-in, device plans, the screens, and the enrollment of a home.

Proofs to come: the second half of `WritesKeepEdits`, for which `Policy` would have to say by the places of rules, and not by
filtered lists, which rule decides.
