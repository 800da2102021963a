----------------------------- MODULE QuicServer -----------------------------
(***************************************************************************)
(* DiagServer::run of tatami_ssh_quic (diag/server.rs): one thread that    *)
(* owns the core and the socket, and a sink thread behind a bounded        *)
(* channel.  They share the channel, the failed flag, the error slot and   *)
(* the stop flag.  What the run thread does between two accesses to these  *)
(* is one step, except for the loops over the attempts, which have one     *)
(* step per attempt.  Time is abstract: run_for may elapse at any check, a *)
(* grace period ends once and for all, a report is due or not due.         *)
(***************************************************************************)
EXTENDS QuicServerCore

CONSTANTS
    PendingRecords,   \* DiagServerConfig::pending_records
    ConnectionLimits  \* the values of DiagServerConfig::max_connections considered

ASSUME RunConfig == /\ PendingRecords \in Nat \ {0}
                    /\ ConnectionLimits \subseteq Nat \ {0}

VARIABLES
    pc,              \* where run is
    keys,            \* the attempts a loop over them has still to visit
    droppedReported, recordsDropped, reason, error,
    summary,         \* the summary queued as Stopped
    limit,           \* max_connections of this run
    stop, graceOver,
    chan,            \* the channel to the sink thread
    sink,            \* where the sink thread is
    sinkFailed, sinkError,
    log              \* history: every event that was queued

locals == <<droppedReported, recordsDropped, reason, error, summary>>
emitVars == <<chan, log, recordsDropped>>
sinkVars == <<sink, sinkFailed, sinkError>>
vars == <<coreVars, pc, keys, locals, stop, limit, graceOver, chan, log, sinkVars>>

StopReason == {"RunDurationElapsed", "ConnectionLimitReached",
               "StopRequested", "SinkFailed", "SocketFailed"}

Started        == [kind |-> "Started"]
Connection(id) == [kind |-> "Connection", id |-> id]
Overload       == [kind |-> "Overload", droppedSinceLast |-> stats.dropped - droppedReported,
                   totalDropped |-> stats.dropped]
Stopped        == [kind |-> "Stopped", summary |-> summary]
NoSummary      == [recordsDropped |-> -1]

Goto(from, to) == pc = from /\ pc' = to

\* emit: queue the event or count it.
Emit(event) ==
    IF Len(chan) < PendingRecords
    THEN chan' = Append(chan, event) /\ log' = Append(log, event) /\ UNCHANGED recordsDropped
    ELSE recordsDropped' = recordsDropped + 1 /\ UNCHANGED <<chan, log>>

----------------------------------------------------------------------------
(* The loop of run.                                                        *)

Start ==
    /\ Goto("Start", "Check")
    /\ Emit(Started)
    /\ UNCHANGED <<coreVars, keys, droppedReported, reason, error, summary, stop, limit,
                   graceOver, sinkVars>>

\* Leave the loop and stop accepting.
Break(why) == /\ pc' = "Grace"
              /\ reason' = why
              /\ StopAccepting

LimitReached == stats.accepted + stats.dropped >= limit

\* The stop conditions in their order.  run_for elapses at any time.
CheckStop ==
    /\ pc = "Check"
    /\ \/ stop /\ Break("StopRequested")
       \/ ~stop /\ sinkFailed /\ Break("SinkFailed")
       \/ ~stop /\ ~sinkFailed /\ Break("RunDurationElapsed")
       \/ ~stop /\ ~sinkFailed /\ LimitReached /\ Break("ConnectionLimitReached")
       \/ /\ ~stop /\ ~sinkFailed /\ ~LimitReached
          /\ pc' = IF stats.dropped > droppedReported THEN "Report" ELSE "Receive"
          /\ UNCHANGED <<coreVars, reason>>
    /\ UNCHANGED <<keys, droppedReported, error, summary, stop, limit, graceOver, emitVars,
                   sinkVars>>

\* An overload report is due at once the first time, then once per interval.
Report ==
    /\ Goto("Report", "Receive")
    /\ \/ Emit(Overload) /\ droppedReported' = stats.dropped
       \/ droppedReported > 0 /\ UNCHANGED <<emitVars, droppedReported>>
    /\ UNCHANGED <<coreVars, keys, reason, error, summary, stop, limit, graceOver, sinkVars>>

\* step: a datagram, or none within the wait.  One that concerns no
\* connection and starts none changes nothing here.
Receive ==
    /\ Goto("Receive", "Timeouts")
    /\ \/ HandleIncoming
       \/ \E k \in Keys : ConnectionEvent(k)
       \/ UNCHANGED coreVars
    /\ keys' = DOMAIN attempts'
    /\ UNCHANGED <<locals, stop, limit, graceOver, chan, log, sinkVars>>

HandleTimeouts(k) ==
    /\ pc = "Timeouts"
    /\ k \in keys
    /\ Timeout(k)
    /\ keys' = keys \ {k}
    /\ UNCHANGED <<pc, locals, stop, limit, graceOver, chan, log, sinkVars>>

AfterDrain == IF accepting THEN "Check" ELSE "Grace"

StepOk ==
    /\ pc = "Timeouts" /\ keys = {}
    /\ pc' = IF pending = <<>> THEN AfterDrain ELSE "Drain"
    /\ UNCHANGED <<coreVars, keys, locals, stop, limit, graceOver, chan, log, sinkVars>>

\* What the step decided before its last send failed is forgotten.
FaultyStepErr ==
    /\ pc = "Receive" \/ (pc = "Timeouts" /\ keys = {})
    /\ pending' = <<>>
    /\ accepting' = FALSE
    /\ IF accepting
       THEN pc' = "Grace" /\ reason' = "SocketFailed" /\ error' = "socket"
       ELSE pc' = "Shutdown" /\ UNCHANGED <<reason, error>>
    /\ UNCHANGED <<attempts, stats, slot, abandoned, recorded, keys, droppedReported,
                   summary, stop, limit, graceOver, emitVars, sinkVars>>

\* The socket fails before anything was received or after everything was
\* handled.  In the loop of run this is fatal, in the grace period it ends
\* it; what was decided stays pending.
StepErr ==
    /\ pc = "Receive" \/ (pc = "Timeouts" /\ keys = {})
    /\ IF accepting
       THEN Break("SocketFailed") /\ error' = "socket"
       ELSE pc' = "Shutdown" /\ UNCHANGED <<coreVars, reason, error>>
    /\ UNCHANGED <<keys, droppedReported, summary, stop, limit, graceOver, emitVars, sinkVars>>

Drain ==
    /\ pc \in {"Drain", "DrainLast"}
    /\ DrainOne
    /\ Emit(Connection(Head(pending).id))
    /\ pc' = IF Len(pending) > 1 THEN pc
             ELSE IF pc = "Drain" THEN AfterDrain ELSE "LastReport"
    /\ UNCHANGED <<keys, droppedReported, reason, error, summary, stop, limit, graceOver,
                   sinkVars>>

----------------------------------------------------------------------------
(* Winding down.                                                           *)

Immediate == reason \in {"SinkFailed", "SocketFailed"}

GraceGoesOn == ~Immediate /\ Undecided # {} /\ ~graceOver

Grace ==
    /\ pc = "Grace"
    /\ pc' = IF GraceGoesOn THEN "Receive" ELSE "Shutdown"
    /\ UNCHANGED <<coreVars, keys, locals, stop, limit, graceOver, chan, log, sinkVars>>

Shutdown ==
    /\ Goto("Shutdown", "Closing")
    /\ keys' = DOMAIN attempts
    /\ UNCHANGED <<coreVars, locals, stop, limit, graceOver, chan, log, sinkVars>>

CloseOne(k) ==
    /\ pc = "Closing"
    /\ k \in keys
    /\ ShutdownOne(k)
    /\ keys' = keys \ {k}
    /\ UNCHANGED <<pc, locals, stop, limit, graceOver, chan, log, sinkVars>>

ClosedAll ==
    /\ Goto("Closing", IF pending = <<>> THEN "LastReport" ELSE "DrainLast")
    /\ keys = {}
    /\ UNCHANGED <<coreVars, keys, locals, stop, limit, graceOver, chan, log, sinkVars>>

LastReport ==
    /\ Goto("LastReport", "ReadError")
    /\ IF stats.dropped > droppedReported THEN Emit(Overload) ELSE UNCHANGED emitVars
    /\ UNCHANGED <<coreVars, keys, droppedReported, reason, error, summary, stop, limit,
                   graceOver, sinkVars>>

\* Under the lock of the error slot.
ReadError ==
    /\ Goto("ReadError", "QueueStopped")
    /\ error' = IF reason = "SinkFailed" THEN sinkError ELSE error
    /\ summary' = [stats |-> stats, recordsDropped |-> recordsDropped,
                   abandoned |-> abandoned, reason |-> reason, error |-> error']
    /\ UNCHANGED <<coreVars, keys, droppedReported, reason, stop, limit, graceOver, emitVars,
                   sinkVars>>

\* A full channel is tried again until a grace period is over.
QueueStopped ==
    /\ Goto("QueueStopped", "AwaitSink")
    /\ Emit(Stopped)
    /\ UNCHANGED <<coreVars, keys, droppedReported, reason, error, summary, stop, limit,
                   graceOver, sinkVars>>

\* The sink thread is done or one more grace period is over.
Return ==
    /\ Goto("AwaitSink", "Returned")
    /\ UNCHANGED <<coreVars, keys, locals, stop, limit, graceOver, chan, log, sinkVars>>

Run == \/ Start \/ CheckStop \/ Report \/ Receive
       \/ \E k \in Keys : HandleTimeouts(k) \/ CloseOne(k)
       \/ StepOk \/ StepErr \/ Drain
       \/ Grace \/ Shutdown \/ ClosedAll \/ LastReport \/ ReadError
       \/ QueueStopped \/ Return

----------------------------------------------------------------------------
(* The sink thread.  Its sink is arbitrary: a call may fail and may never  *)
(* return.                                                                 *)

Take ==
    /\ sink = "Idle"
    /\ chan # <<>>
    /\ chan' = Tail(chan)
    /\ sink' = IF sinkFailed THEN "Idle" ELSE "Calling"
    /\ UNCHANGED <<coreVars, pc, keys, locals, stop, limit, graceOver, log, sinkFailed, sinkError>>

SinkReturns ==
    /\ sink = "Calling"
    /\ \/ sink' = "Idle" /\ UNCHANGED sinkFailed
       \/ sink' = "Failing" /\ sinkFailed' = TRUE
    /\ UNCHANGED <<coreVars, pc, keys, locals, stop, limit, graceOver, chan, log, sinkError>>

StoreError ==
    /\ sink = "Failing"
    /\ sink' = "Idle"
    /\ sinkError' = "sink"
    /\ UNCHANGED <<coreVars, pc, keys, locals, stop, limit, graceOver, chan, log, sinkFailed>>

SinkDone ==
    /\ sink = "Idle"
    /\ chan = <<>>
    /\ pc \in {"AwaitSink", "Returned"}
    /\ sink' = "Done"
    /\ UNCHANGED <<coreVars, pc, keys, locals, stop, limit, graceOver, chan, log, sinkFailed,
                   sinkError>>

\* Between these places of run nothing shared is touched: a step of another
\* thread that falls there has the same effect just before or after.
Local == {"Receive", "Timeouts", "Grace", "Shutdown", "Closing"}

SinkStep == pc \notin Local /\ (Take \/ SinkReturns \/ StoreError \/ SinkDone)

----------------------------------------------------------------------------
(* The rest of the process and the clock.                                  *)

\* StopHandle::stop, while the flag is still read
RequestStop ==
    /\ ~stop /\ accepting /\ pc \notin Local
    /\ stop' = TRUE
    /\ UNCHANGED <<coreVars, pc, keys, locals, limit, graceOver, chan, log, sinkVars>>

\* grace_end, which is set when the run winds down
GraceElapses ==
    /\ ~accepting /\ ~graceOver
    /\ graceOver' = TRUE
    /\ UNCHANGED <<coreVars, pc, keys, locals, stop, limit, chan, log, sinkVars>>

DeadlineElapses(k) ==
    /\ DeadlinePasses(k)
    /\ UNCHANGED <<pc, keys, locals, stop, limit, graceOver, chan, log, sinkVars>>

Init ==
    /\ CoreInit
    /\ pc = "Start"
    /\ keys = {}
    /\ droppedReported = 0 /\ recordsDropped = 0
    /\ reason = "None" /\ error = "None"
    /\ summary = NoSummary
    /\ limit \in ConnectionLimits
    /\ stop = FALSE /\ graceOver = FALSE
    /\ chan = <<>> /\ log = <<>>
    /\ sink = "Idle" /\ sinkFailed = FALSE /\ sinkError = "None"

Next == \/ Run \/ SinkStep \/ RequestStop \/ GraceElapses
        \/ \E k \in Keys : DeadlineElapses(k)

\* run is an ordinary thread with bounded waits, and the clock advances.
\* Nothing is asked of the sink or of the network.
Spec == /\ Init /\ [][Next]_vars
        /\ WF_vars(Run) /\ WF_vars(GraceElapses)
        /\ \A k \in Keys : WF_vars(DeadlineElapses(k))

----------------------------------------------------------------------------
(* Properties.                                                             *)

RecordsOf(id) == Cardinality({i \in DOMAIN log : log[i].kind = "Connection" /\ log[i].id = id})

Overloads == {k \in DOMAIN log : log[k].kind = "Overload"}

\* The overload records before the k-th record report n in total.
Reported(k, n) ==
    IF \E j \in Overloads : j < k
    THEN \E j \in Overloads : /\ j < k /\ log[j].totalDropped = n
                             /\ \A i \in Overloads : i < k => i <= j
    ELSE n = 0

\* The Stopped record is the last one, is the summary run returns, and
\* accounts for the run: each attempt that was accepted has one outcome in
\* the counters and at most one Connection record; every record that is
\* missing was counted as dropped, so that with none dropped every attempt
\* is there, and every overload record counts from the one before it, up to
\* the total of the summary.
StoppedAccounts ==
    \A i \in DOMAIN log : log[i].kind = "Stopped" =>
        LET s == log[i].summary
            n == s.stats
            seen == {id \in Ids : RecordsOf(id) = 1}
        IN /\ i = Len(log)
           /\ recordsDropped = s.recordsDropped
           /\ n.accepted = n.completed + n.failed + n.timedOut + s.abandoned
           /\ \A id \in Ids : RecordsOf(id) <= IF id <= n.accepted THEN 1 ELSE 0
           /\ Cardinality(seen) + s.recordsDropped >= n.accepted
           /\ s.recordsDropped = 0 =>
                 /\ \A k \in Overloads :
                       Reported(k, log[k].totalDropped - log[k].droppedSinceLast)
                 /\ Reported(i, n.dropped)

\* run returns once a stop condition holds, whatever the sink and the
\* network do.
RunReturns ==
    stop \/ sinkFailed \/ reason # "None" ~> pc = "Returned"

\* Every handshake that was accepted is decided in the end, by its deadline
\* or by the shutdown at the latest.
EveryHandshakeDecided ==
    \A id \in Ids : stats.accepted >= id ~> recorded[id] = 1

\* No handshake and no run is left without an end, however the sink, the
\* network and the clock behave.
RunSettles == RunReturns /\ EveryHandshakeDecided
=============================================================================
