--------------------------- MODULE ConnectionPool ---------------------------
(***************************************************************************)
(* The pool of SSH connections of internal/executor/native.go, for one     *)
(* pool key (one resolved target).  Sessions that run commands on the      *)
(* target share one connection: the first dials it, those that come        *)
(* meanwhile wait for the dial, and a keep-alive, a cancelled command, a   *)
(* session that cannot be opened in time or the executor's own Close take  *)
(* it away under the others.                                               *)
(*                                                                         *)
(* A pool entry is created by one dial and holds at most one connection,   *)
(* so a connection is named by its entry.  What runs under the pool's      *)
(* mutex is one step; the closing of a connection that follows the unlock  *)
(* is part of it, since nothing is read in between.  The network decides   *)
(* whether a dial, a channel or a command succeeds.                        *)
(***************************************************************************)
EXTENDS Naturals, FiniteSets

CONSTANTS
    Sessions,   \* calls of NativeExecutor.Run
    Entries,    \* pool entries, one for each dial (a bound on the dials)
    NoEntry

ASSUME PoolAssumption == IsFiniteSet(Sessions) /\ NoEntry \notin Entries

VARIABLES
    pooled,     \* the entry at the key in nativeClientPool.entries, or NoEntry
    poolClosed, \* nativeClientPool.closed
    entry,      \* the fields of every nativePoolEntry
    conn,       \* the connection of every entry: "none", "open", "dead" (the
                \* peer is gone, not closed here) or "closed"
    keepAlive,  \* the entries whose keep-alive goroutine runs
    session     \* where every call is, what it holds and its own connection

poolVars == <<pooled, poolClosed, entry, conn, keepAlive, session>>

FreshEntry == [phase |-> "free", ready |-> FALSE, inFlight |-> 0,
               closeWhenIdle |-> FALSE, forceClosed |-> FALSE]

FreshSession == [pc |-> "get", at |-> NoEntry, own |-> "none",
                 retried |-> FALSE, next |-> "done"]

(***************************************************************************)
(* The pool's sections, as the entries and connections they leave.         *)
(***************************************************************************)

\* The connection is closed and its entry will not be closed again.
ForceClose(e) ==
    /\ entry' = [entry EXCEPT ![e].closeWhenIdle = TRUE, ![e].forceClosed = TRUE]
    /\ conn' = [conn EXCEPT ![e] = "closed"]

Unpool(e) == pooled' = IF pooled = e THEN NoEntry ELSE pooled

evictNow(e) ==
    IF entry[e].phase = "up" /\ ~ entry[e].forceClosed
    THEN Unpool(e) /\ ForceClose(e)
    ELSE UNCHANGED <<pooled, entry, conn>>

\* The close waits for the sessions in flight, the caller's own included.
depoolWhenIdle(e) ==
    IF entry[e].phase = "up" /\ ~ entry[e].forceClosed
    THEN /\ Unpool(e)
         /\ IF entry[e].inFlight = 0
            THEN ForceClose(e)
            ELSE /\ entry' = [entry EXCEPT ![e].closeWhenIdle = TRUE]
                 /\ UNCHANGED conn
    ELSE UNCHANGED <<pooled, entry, conn>>

release(e) ==
    LET left == entry[e].inFlight - 1
        last == left = 0 /\ entry[e].closeWhenIdle /\ ~ entry[e].forceClosed IN
    /\ entry' = [entry EXCEPT ![e].inFlight = left,
                              ![e].forceClosed = @ \/ last]
    /\ conn' = IF last THEN [conn EXCEPT ![e] = "closed"] ELSE conn
    /\ UNCHANGED pooled

isDead(e) == pooled # e \/ entry[e].forceClosed

(***************************************************************************)
(* nativeClientPool.get and dialEntry.                                     *)
(***************************************************************************)

SessionAt(s, where) == session' = [session EXCEPT ![s].pc = where]

\* A call asks the pool for a connection: it fails on a closed pool, creates
\* the entry it will dial, shares a connection, or waits for another's dial.
Get(s) ==
    /\ session[s].pc = "get"
    /\ \/ /\ poolClosed
          /\ SessionAt(s, "ended")
          /\ UNCHANGED <<pooled, entry>>
       \/ /\ ~ poolClosed /\ pooled = NoEntry
          /\ \E e \in Entries :
               /\ entry[e].phase = "free"
               /\ pooled' = e
               /\ entry' = [entry EXCEPT ![e].phase = "dialing"]
               /\ session' = [session EXCEPT ![s].pc = "dial", ![s].at = e]
       \/ /\ ~ poolClosed /\ pooled # NoEntry
          /\ IF entry[pooled].phase = "up"
             THEN /\ entry' = [entry EXCEPT ![pooled].inFlight = @ + 1]
                  /\ session' = [session EXCEPT ![s].pc = "open", ![s].at = pooled]
             ELSE /\ session' = [session EXCEPT ![s].pc = "wait", ![s].at = pooled]
                  /\ UNCHANGED entry
          /\ UNCHANGED pooled
    /\ UNCHANGED <<poolClosed, conn, keepAlive>>

\* For comparison, a failed dial that only removes its entry.
DialFailsSilently(s) ==
    LET e == session[s].at IN
    /\ session[s].pc = "dial"
    /\ SessionAt(s, "ended")
    /\ Unpool(e)
    /\ UNCHANGED <<poolClosed, entry, conn, keepAlive>>

\* The dial failed, or its caller's context ended: every waiter is told.
DialFails(s) ==
    LET e == session[s].at IN
    /\ session[s].pc = "dial"
    /\ SessionAt(s, "ended")
    /\ IF pooled = e
       THEN /\ pooled' = NoEntry
            /\ entry' = [entry EXCEPT ![e].phase = "failed", ![e].ready = TRUE]
       ELSE UNCHANGED <<pooled, entry>>
    /\ UNCHANGED <<poolClosed, conn, keepAlive>>

\* The dial succeeded.  An entry the pool has given up meanwhile gets no
\* connection: the new one is closed at once.
Published(e) == pooled = e

DialSucceeds(s) ==
    LET e == session[s].at IN
    /\ session[s].pc = "dial"
    /\ IF Published(e)
       THEN /\ entry' = [entry EXCEPT ![e].phase = "up", ![e].ready = TRUE,
                                      ![e].inFlight = 1]
            /\ conn' = [conn EXCEPT ![e] = "open"]
            /\ keepAlive' = keepAlive \union {e}
            /\ SessionAt(s, "open")
       ELSE /\ conn' = [conn EXCEPT ![e] = "closed"]
            /\ SessionAt(s, "ended")
            /\ UNCHANGED <<entry, keepAlive>>
    /\ UNCHANGED <<pooled, poolClosed>>

\* A waiter whose entry became ready: it fails with the dial's error, or asks
\* again.  A waiter whose context ends just fails.
Wake(s) ==
    LET e == session[s].at IN
    /\ session[s].pc = "wait"
    /\ \/ entry[e].ready /\ entry[e].phase # "failed" /\ SessionAt(s, "get")
       \/ entry[e].ready /\ entry[e].phase = "failed" /\ SessionAt(s, "ended")
       \/ SessionAt(s, "ended")
    /\ UNCHANGED <<pooled, poolClosed, entry, conn, keepAlive>>

(***************************************************************************)
(* runSession on a shared connection.                                      *)
(***************************************************************************)

Open(e) == conn[e] = "open"

SessionOpens(s) ==
    /\ session[s].pc = "open"
    /\ Open(session[s].at)
    /\ SessionAt(s, "run")
    /\ UNCHANGED <<pooled, poolClosed, entry, conn, keepAlive>>

\* Give the connection back and go on to "next".
Then(s, next) ==
    session' = [session EXCEPT ![s].pc = "release", ![s].next = next]

\* The host refuses one more session: the call gives its place back and dials
\* a connection of its own; the second time round it only fails.
HostIsFull(s) ==
    /\ session[s].pc = "open"
    /\ Open(session[s].at)
    /\ Then(s, IF session[s].retried THEN "ended" ELSE "own")
    /\ UNCHANGED <<pooled, poolClosed, entry, conn, keepAlive>>

\* No session within the connect timeout (or the caller's context ended): the
\* shared connection is closed for everyone, and the call asks the pool again.
OpenTimesOut(s) ==
    /\ session[s].pc = "open"
    /\ evictNow(session[s].at)
    /\ Then(s, IF session[s].retried THEN "ended" ELSE "get")
    /\ UNCHANGED <<poolClosed, keepAlive>>

\* The connection turns out broken, or was given up meanwhile.
OpenFails(s) ==
    LET e == session[s].at IN
    /\ session[s].pc = "open"
    /\ ~ Open(e) \/ isDead(e)
    /\ IF session[s].retried
       THEN Then(s, "ended") /\ UNCHANGED <<pooled, entry, conn>>
       ELSE Then(s, "get") /\ evictNow(e)
    /\ UNCHANGED <<poolClosed, keepAlive>>

\* The host answers with another error, which is returned.
OpenRefused(s) ==
    /\ session[s].pc = "open"
    /\ Open(session[s].at) /\ ~ isDead(session[s].at)
    /\ Then(s, "ended")
    /\ UNCHANGED <<pooled, poolClosed, entry, conn, keepAlive>>

\* The deferred or explicit release; a retry is a second and last attempt.
Release(s) ==
    /\ session[s].pc = "release"
    /\ release(session[s].at)
    /\ session' = [session EXCEPT ![s].pc = session[s].next, ![s].at = NoEntry,
                                  ![s].retried = @ \/ session[s].next = "get"]
    /\ UNCHANGED <<poolClosed, keepAlive>>

\* The command ends with a status, or without one on an open connection.
\* Unless the target's system is known it is probed on the same connection,
\* which a probe that hangs closes.
CommandEnds(s) ==
    LET e == session[s].at IN
    /\ session[s].pc = "run"
    /\ Open(e)
    /\ \/ UNCHANGED <<pooled, entry, conn>>
       \/ evictNow(e)
    /\ Then(s, "ended")
    /\ UNCHANGED <<poolClosed, keepAlive>>

\* The connection breaks under the command, which is not repeated.  Only some
\* of the errors a lost connection causes are recognised as one.
CommandBreaks(s) ==
    /\ session[s].pc = "run"
    /\ ~ Open(session[s].at)
    /\ \/ depoolWhenIdle(session[s].at)
       \/ UNCHANGED <<pooled, entry, conn>>
    /\ Then(s, "ended")
    /\ UNCHANGED <<poolClosed, keepAlive>>

\* The caller gives up: after a bounded signal the connection is closed, also
\* under the other sessions.
CommandCancelled(s) ==
    /\ session[s].pc = "run"
    /\ evictNow(session[s].at)
    /\ Then(s, "ended")
    /\ UNCHANGED <<poolClosed, keepAlive>>

\* The connection of its own a call dials when the host is full: it fails, or
\* serves this call and is closed with it.
OwnConnection(s) ==
    /\ \/ session[s].pc = "own" /\ session' = [session EXCEPT ![s].pc = "ended"]
       \/ session[s].pc = "own"
          /\ session' = [session EXCEPT ![s].pc = "ownRun", ![s].own = "open"]
       \/ session[s].pc = "ownRun"
          /\ session' = [session EXCEPT ![s].pc = "ended", ![s].own = "closed"]
    /\ UNCHANGED <<pooled, poolClosed, entry, conn, keepAlive>>

(***************************************************************************)
(* The keep-alive, the peer and the executor's Close.                      *)
(***************************************************************************)

\* A keep-alive failed or was not answered in time.  It may find its entry
\* given up already, and closes nothing twice.
KeepAliveFails(e) ==
    /\ e \in keepAlive
    /\ evictNow(e)
    /\ keepAlive' = keepAlive \ {e}
    /\ UNCHANGED <<poolClosed, session>>

\* The entry was stopped: by the step that closed it, or by Close.
KeepAliveStops(e) ==
    /\ e \in keepAlive
    /\ conn[e] = "closed"
    /\ keepAlive' = keepAlive \ {e}
    /\ UNCHANGED <<pooled, poolClosed, entry, conn, session>>

\* The peer goes away.
PeerGone(e) ==
    /\ Open(e)
    /\ conn' = [conn EXCEPT ![e] = "dead"]
    /\ UNCHANGED <<pooled, poolClosed, entry, keepAlive, session>>

\* nativeClientPool.Close: waiters of a dial in progress are woken, its dialer
\* finds its entry gone; depooled connections are left to their last session.
ClosePool ==
    /\ ~ poolClosed
    /\ poolClosed' = TRUE
    /\ pooled' = NoEntry
    /\ IF pooled = NoEntry
       THEN UNCHANGED <<entry, conn>>
       ELSE IF entry[pooled].phase = "dialing"
       THEN /\ entry' = [entry EXCEPT ![pooled].ready = TRUE]
            /\ UNCHANGED conn
       ELSE /\ conn' = [conn EXCEPT ![pooled] = "closed"]
            /\ UNCHANGED entry
    /\ UNCHANGED <<keepAlive, session>>

PoolInit ==
    /\ pooled = NoEntry
    /\ poolClosed = FALSE
    /\ entry = [e \in Entries |-> FreshEntry]
    /\ conn = [e \in Entries |-> "none"]
    /\ keepAlive = {}
    /\ session = [s \in Sessions |-> FreshSession]

PoolNext ==
    \/ \E s \in Sessions :
         \/ Get(s) \/ DialFails(s) \/ DialSucceeds(s) \/ Wake(s)
         \/ SessionOpens(s) \/ HostIsFull(s) \/ OpenTimesOut(s) \/ OpenFails(s)
         \/ OpenRefused(s) \/ Release(s)
         \/ CommandEnds(s) \/ CommandBreaks(s) \/ CommandCancelled(s)
         \/ OwnConnection(s)
    \/ \E e \in Entries : KeepAliveFails(e) \/ KeepAliveStops(e) \/ PeerGone(e)
    \/ ClosePool

PoolSpec == PoolInit /\ [][PoolNext]_poolVars

(***************************************************************************)
(* Properties.                                                             *)
(***************************************************************************)

Holding == {"open", "run", "release"}
Holders(e) == {s \in Sessions : session[s].at = e /\ session[s].pc \in Holding}

\* A connection that is not closed is in the pool or in use by a session, and
\* a session's own connection ends with it: dials that finish after Close or
\* after their entry was replaced, evictions, depooling and the last release
\* in whatever order lose none (native.go, get to Close).
NoLeak ==
    /\ \A e \in Entries : conn[e] \in {"open", "dead"} =>
         pooled = e \/ Holders(e) # {}
    /\ \A s \in Sessions : session[s].own = "open" => session[s].pc = "ownRun"

\* A session waits only on a dial that someone still carries out or whose end
\* was announced: no failure, replacement or Close leaves a waiter behind
\* (native.go, dialEntry and Close).
NoStuckWaiter ==
    \A s \in Sessions : session[s].pc = "wait" =>
        \/ entry[session[s].at].ready
        \/ \E t \in Sessions : session[t].pc = "dial" /\ session[t].at = session[s].at

\* The count of sessions in flight is the number of sessions that hold the
\* entry, whatever order they were released and the entry was given up in.
InFlightExact == \A e \in Entries : entry[e].inFlight = Cardinality(Holders(e))

\* Every connection, waiter and count of the pool has its session: whatever
\* keep-alives, failed dials, depooling and Close do to a shared connection
\* (native.go, get, dialEntry, release, depool and Close).
PoolAccounted == NoLeak /\ NoStuckWaiter /\ InFlightExact
=============================================================================
