----------------------------- MODULE Listener -----------------------------
(***************************************************************************)
(* Listener::run of tatami_ssh_tcp (io/listener.rs): an accept loop, one   *)
(* detached worker thread per admitted connection, and a sink thread that  *)
(* receives records through a bounded channel.  The threads share four     *)
(* things: the stop flag, the active count, the records_dropped counter    *)
(* and the channel.                                                        *)
(*                                                                         *)
(* Every step is one atomic operation on something shared, with the local  *)
(* work up to the next one.  Time is abstract: run_for may elapse at any   *)
(* moment once and for all, a grace period may end before or after         *)
(* whatever it waits for, and an overload report is due or not due.  What  *)
(* a worker does with its connection (drive) is one step here; it ends by  *)
(* the connection's own deadline.  The sink is arbitrary: a call may fail, *)
(* and may never return.  A sink that panics is left out.                  *)
(***************************************************************************)
EXTENDS Integers, Sequences, FiniteSets

CONSTANTS
    Configs,         \* ListenerConfig: max_concurrent and max_connections
    PendingRecords,  \* ListenerConfig::pending_records
    MaxArrivals      \* bound: connections that arrive

\* ListenerConfig::validate
ASSUME ListenerConfig ==
    /\ Configs \subseteq [max_concurrent : Nat \ {0}, max_connections : Nat]
    /\ PendingRecords \in Nat \ {0}
    /\ MaxArrivals \in Nat

VARIABLES
    pc,                \* where run is
    accepted, dropped, droppedReported, reason, error,
    workersAbandoned,
    summary,           \* the summary queued as Stopped
    finalDropped,      \* records_dropped of the summary returned
    stop, active, recordsDropped, chan,
    config,            \* the configuration of this run
    elapsed,           \* run_for has elapsed
    workers,           \* how many workers are at each place
    sink,              \* where the sink thread is
    sinkFailed, sinkError,
    taken,             \* history: the events received from the channel
    attempts           \* history: how many events anyone tried to queue

locals == <<accepted, dropped, droppedReported, reason, error,
            workersAbandoned, summary, finalDropped>>
shared == <<stop, active, recordsDropped, chan>>
sinkVars == <<sink, sinkFailed, sinkError, taken>>
vars == <<pc, locals, shared, config, elapsed, workers, sinkVars, attempts>>

----------------------------------------------------------------------------
StopReason == {"RunDurationElapsed", "ConnectionLimitReached",
               "StopRequested", "SinkFailed", "AcceptFailed"}
Error == {"None", "accept", "sink"}

Places == {"Observing", "Counting", "Releasing", "Exiting", "Gone"}

\* The workers that hold capacity, those that hold Shared, and all there were.
Holding  == workers["Observing"] + workers["Counting"] + workers["Releasing"]
Sharing  == Holding + workers["Exiting"]
observed == Sharing + workers["Gone"]

Started         == [kind |-> "Started"]
Observation     == [kind |-> "Observation"]
Overload        == [kind |-> "Overload", droppedSinceLast |-> dropped - droppedReported,
                    totalDropped |-> dropped]
Stopped         == [kind |-> "Stopped", summary |-> summary]
NoSummary       == [recordsDropped |-> -1]

\* Nobody holds Shared any more, and with it a sender of the channel.
Closed == /\ pc \in {"AwaitSink", "Returned"}
          /\ Sharing = 0

Goto(from, to) == pc = from /\ pc' = to

----------------------------------------------------------------------------
(* The channel: try_send either queues or reports Full.  Disconnected      *)
(* needs a sink thread that is gone before its senders.                    *)

CanSend == Len(chan) < PendingRecords
Send(event) == /\ chan' = Append(chan, event)
               /\ attempts' = attempts + 1

\* try_emit as the accept loop calls it.  Nobody reads records_dropped but
\* the accept loop itself, so for it the two steps are one.
TryEmit(event) ==
    \/ CanSend /\ Send(event) /\ UNCHANGED recordsDropped
    \/ /\ ~CanSend
       /\ attempts' = attempts + 1
       /\ recordsDropped' = recordsDropped + 1
       /\ UNCHANGED chan

----------------------------------------------------------------------------
(* The accept loop.                                                        *)

SendStarted ==
    /\ Goto("Start", "CheckStop")
    /\ CanSend
    /\ Send(Started)
    /\ UNCHANGED <<locals, stop, active, recordsDropped, config, elapsed, workers, sinkVars>>

Break(why) == /\ pc' = "Stopping"
              /\ reason' = why

CheckStop ==
    /\ pc = "CheckStop"
    /\ IF stop
       THEN Break("StopRequested")
       ELSE pc' = "CheckSink" /\ UNCHANGED reason
    /\ UNCHANGED <<accepted, dropped, droppedReported, error, workersAbandoned,
                   summary, finalDropped, shared, config, elapsed, workers, sinkVars, attempts>>

LimitReached == accepted >= config.max_connections

\* The limits are local to run, or the clock.
CheckSink ==
    /\ pc = "CheckSink"
    /\ \/ sinkFailed /\ Break("SinkFailed")
       \/ ~sinkFailed /\ elapsed /\ Break("RunDurationElapsed")
       \/ /\ ~sinkFailed /\ ~elapsed /\ LimitReached
          /\ Break("ConnectionLimitReached")
       \/ /\ ~sinkFailed /\ ~elapsed /\ ~LimitReached
          /\ pc' = IF dropped > droppedReported THEN "Report" ELSE "Accept"
          /\ UNCHANGED reason
    /\ UNCHANGED <<accepted, dropped, droppedReported, error, workersAbandoned,
                   summary, finalDropped, shared, config, elapsed, workers, sinkVars, attempts>>

\* What was reported is not remembered.
FaultyReport ==
    /\ Goto("Report", "Accept")
    /\ TryEmit(Overload)
    /\ UNCHANGED <<locals, stop, active, config, elapsed, workers, sinkVars>>

\* An overload report is due at once the first time (last_overload_report is
\* None exactly while nothing was reported), then once per interval.
Report ==
    /\ Goto("Report", "Accept")
    /\ TryEmit(Overload)
    /\ droppedReported' = dropped
    /\ UNCHANGED <<accepted, dropped, reason, error, workersAbandoned, summary,
                   finalDropped, stop, active, config, elapsed, workers, sinkVars>>

NoReport ==
    /\ Goto("Report", "Accept")
    /\ droppedReported > 0
    /\ UNCHANGED <<locals, shared, config, elapsed, workers, sinkVars, attempts>>

\* accept succeeds and capacity is acquired (fetch_update).
Admit ==
    /\ Goto("Accept", "CheckStop")
    /\ accepted < MaxArrivals
    /\ active < config.max_concurrent
    /\ accepted' = accepted + 1
    /\ active' = active + 1
    /\ workers' = [workers EXCEPT !["Observing"] = @ + 1]
    /\ UNCHANGED <<dropped, droppedReported, reason, error, workersAbandoned, summary,
                   finalDropped, stop, recordsDropped, chan, config, elapsed, sinkVars, attempts>>

\* accept succeeds at capacity: the connection is closed without a worker.
DropAtCapacity ==
    /\ Goto("Accept", "CheckStop")
    /\ accepted < MaxArrivals
    /\ active >= config.max_concurrent
    /\ accepted' = accepted + 1
    /\ dropped' = dropped + 1
    /\ UNCHANGED <<droppedReported, reason, error, workersAbandoned, summary,
                   finalDropped, shared, config, elapsed, workers, sinkVars, attempts>>

\* WouldBlock or a transient error: sleep for a poll interval.
NobodyThere ==
    /\ Goto("Accept", "CheckStop")
    /\ UNCHANGED <<locals, shared, config, elapsed, workers, sinkVars, attempts>>

AcceptFailed ==
    /\ pc = "Accept"
    /\ Break("AcceptFailed")
    /\ error' = "accept"
    /\ UNCHANGED <<accepted, dropped, droppedReported, workersAbandoned, summary,
                   finalDropped, shared, config, elapsed, workers, sinkVars, attempts>>

----------------------------------------------------------------------------
(* Shutdown.                                                               *)

CancelOnFatal ==
    /\ Goto("Stopping", "Grace")
    /\ stop' = (stop \/ reason \in {"SinkFailed", "AcceptFailed"})
    /\ UNCHANGED <<locals, active, recordsDropped, chan, config, elapsed, workers, sinkVars, attempts>>

\* A grace period ends with the last worker or with the clock.
GraceOver ==
    /\ \/ Goto("Grace", "CancelRest")
       \/ Goto("CancelGrace", "CountAbandoned")
    /\ UNCHANGED <<locals, shared, config, elapsed, workers, sinkVars, attempts>>

CancelRest ==
    /\ Goto("CancelRest", IF active > 0 THEN "CancelGrace" ELSE "CountAbandoned")
    /\ stop' = (stop \/ active > 0)
    /\ UNCHANGED <<locals, active, recordsDropped, chan, config, elapsed, workers, sinkVars, attempts>>

CountAbandoned ==
    /\ Goto("CountAbandoned", "LastReport")
    /\ workersAbandoned' = active
    /\ UNCHANGED <<accepted, dropped, droppedReported, reason, error, summary,
                   finalDropped, shared, config, elapsed, workers, sinkVars, attempts>>

LastReport ==
    /\ Goto("LastReport", "ReadError")
    /\ IF dropped > droppedReported
       THEN TryEmit(Overload)
       ELSE UNCHANGED <<chan, recordsDropped, attempts>>
    /\ UNCHANGED <<locals, stop, active, config, elapsed, workers, sinkVars>>

\* Under the lock of the error slot.
ReadError ==
    /\ Goto("ReadError", "Summarize")
    /\ error' = IF reason = "SinkFailed" THEN sinkError ELSE error
    /\ UNCHANGED <<accepted, dropped, droppedReported, reason, workersAbandoned, summary,
                   finalDropped, shared, config, elapsed, workers, sinkVars, attempts>>

Summarize ==
    /\ Goto("Summarize", "QueueStopped")
    /\ summary' = [accepted |-> accepted, observed |-> observed,
                   droppedAtCapacity |-> dropped, recordsDropped |-> recordsDropped,
                   workersAbandoned |-> workersAbandoned, reason |-> reason,
                   error |-> error]
    /\ UNCHANGED <<accepted, dropped, droppedReported, reason, error, workersAbandoned,
                   finalDropped, shared, config, elapsed, workers, sinkVars, attempts>>

QueueStopped ==
    /\ Goto("QueueStopped", "ReadDropped")
    /\ CanSend
    /\ Send(Stopped)
    /\ UNCHANGED <<locals, stop, active, recordsDropped, config, elapsed, workers, sinkVars>>

\* A blocking send of the summary.
FaultyGiveUp == FALSE /\ UNCHANGED vars

\* The channel stayed full for a grace period.
GiveUp ==
    /\ Goto("QueueStopped", "ReadDropped")
    /\ ~CanSend
    /\ attempts' = attempts + 1
    /\ recordsDropped' = recordsDropped + 1
    /\ UNCHANGED <<locals, stop, active, chan, config, elapsed, workers, sinkVars>>

\* The last load of records_dropped, then drop(shared).
ReadDropped ==
    /\ Goto("ReadDropped", "AwaitSink")
    /\ finalDropped' = recordsDropped
    /\ UNCHANGED <<accepted, dropped, droppedReported, reason, error, workersAbandoned,
                   summary, shared, config, elapsed, workers, sinkVars, attempts>>

\* The sink thread is done or one more grace period is over.
Return ==
    /\ Goto("AwaitSink", "Returned")
    /\ UNCHANGED <<locals, shared, config, elapsed, workers, sinkVars, attempts>>

Run == \/ SendStarted \/ CheckStop \/ CheckSink \/ Report \/ NoReport
       \/ Admit \/ DropAtCapacity \/ NobodyThere \/ AcceptFailed
       \/ CancelOnFatal \/ GraceOver \/ CancelRest \/ CountAbandoned \/ LastReport
       \/ ReadError \/ Summarize \/ QueueStopped \/ GiveUp \/ ReadDropped \/ Return

----------------------------------------------------------------------------
(* A worker: observe, queue the record, release capacity, exit.  Workers   *)
(* are alike, so that only how many are at each place is kept.             *)

Move(from, to) ==
    /\ workers[from] > 0
    /\ workers' = [workers EXCEPT ![from] = @ - 1, ![to] = @ + 1]

QueueRecord ==
    /\ \/ Move("Observing", "Releasing") /\ CanSend /\ Send(Observation)
       \/ /\ Move("Observing", "Counting") /\ ~CanSend
          /\ attempts' = attempts + 1
          /\ UNCHANGED chan
    /\ UNCHANGED <<pc, locals, stop, active, recordsDropped, config, elapsed, sinkVars>>

CountDrop ==
    /\ Move("Counting", "Releasing")
    /\ recordsDropped' = recordsDropped + 1
    /\ UNCHANGED <<pc, locals, stop, active, chan, config, elapsed, sinkVars, attempts>>

\* Capacity is released before the record is queued.
FaultyRelease ==
    \/ /\ Move("Observing", "Exiting")
       /\ active' = active - 1
       /\ UNCHANGED <<pc, locals, stop, recordsDropped, chan, config, elapsed, sinkVars, attempts>>
    \/ /\ Move("Exiting", "Gone")
       /\ TryEmit(Observation)
       /\ UNCHANGED <<pc, locals, stop, active, config, elapsed, sinkVars>>

Release ==
    /\ Move("Releasing", "Exiting")
    /\ active' = active - 1
    /\ UNCHANGED <<pc, locals, stop, recordsDropped, chan, config, elapsed, sinkVars, attempts>>

\* The thread drops its Arc<Shared>.
Exit ==
    /\ Move("Exiting", "Gone")
    /\ UNCHANGED <<pc, locals, shared, config, elapsed, sinkVars, attempts>>

Work == QueueRecord \/ CountDrop \/ Release \/ Exit

----------------------------------------------------------------------------
(* The sink thread.                                                        *)

Receive ==
    /\ sink = "Idle"
    /\ chan # <<>>
    /\ chan' = Tail(chan)
    /\ taken' = Append(taken, Head(chan))
    /\ sink' = IF sinkFailed THEN "Idle" ELSE "Calling"
    /\ UNCHANGED <<pc, locals, stop, active, recordsDropped, config, elapsed, workers,
                   sinkFailed, sinkError, attempts>>

SinkOk ==
    /\ sink = "Calling"
    /\ sink' = "Idle"
    /\ UNCHANGED <<pc, locals, shared, config, elapsed, workers, sinkFailed, sinkError,
                   taken, attempts>>

SinkErr ==
    /\ sink = "Calling"
    /\ sink' = "Failing"
    /\ sinkFailed' = TRUE
    /\ UNCHANGED <<pc, locals, shared, config, elapsed, workers, sinkError, taken, attempts>>

StoreError ==
    /\ sink = "Failing"
    /\ sink' = "Idle"
    /\ sinkError' = "sink"
    /\ UNCHANGED <<pc, locals, shared, config, elapsed, workers, sinkFailed, taken, attempts>>

SinkDone ==
    /\ sink = "Idle"
    /\ chan = <<>>
    /\ Closed
    /\ sink' = "Done"
    /\ UNCHANGED <<pc, locals, shared, config, elapsed, workers, sinkFailed, sinkError,
                   taken, attempts>>

SinkStep == Receive \/ SinkOk \/ SinkErr \/ StoreError \/ SinkDone

----------------------------------------------------------------------------
(* The rest of the process and the clock.                                  *)

\* StopHandle::stop, while run still reads the flag
RequestStop ==
    /\ ~stop /\ reason = "None"
    /\ stop' = TRUE
    /\ UNCHANGED <<pc, locals, active, recordsDropped, chan, config, elapsed, workers,
                   sinkVars, attempts>>

\* Likewise for the deadline of run_for
RunForElapses ==
    /\ ~elapsed /\ reason = "None"
    /\ elapsed' = TRUE
    /\ UNCHANGED <<pc, locals, shared, config, workers, sinkVars, attempts>>

Init ==
    /\ pc = "Start"
    /\ accepted = 0 /\ dropped = 0 /\ droppedReported = 0
    /\ reason = "None" /\ error = "None"
    /\ workersAbandoned = 0
    /\ summary = NoSummary
    /\ finalDropped = 0
    /\ stop = FALSE
    /\ active = 0
    /\ recordsDropped = 0
    /\ chan = <<>>
    /\ config \in Configs
    /\ elapsed = FALSE
    /\ workers = [p \in Places |-> 0]
    /\ sink = "Idle"
    /\ sinkFailed = FALSE
    /\ sinkError = "None"
    /\ taken = <<>>
    /\ attempts = 0

Next == \/ Run
        \/ Work
        \/ SinkStep
        \/ RequestStop
        \/ RunForElapses

Spec == Init /\ [][Next]_vars

\* run is an ordinary thread and all its waits are bounded; a worker's are
\* bounded by its connection deadline.  Nothing is asked of the sink.
FairSpec == /\ Spec /\ WF_vars(Run) /\ WF_vars(QueueRecord) /\ WF_vars(CountDrop)
            /\ WF_vars(Release) /\ WF_vars(Exit)

----------------------------------------------------------------------------
(* Properties.                                                             *)

log == taken \o chan

\* Types, and run's counters stay within what was accepted.
TypeOK ==
    /\ pc \in {"Start", "CheckStop", "CheckSink", "Report", "Accept",
               "Stopping", "Grace", "CancelRest", "CancelGrace", "CountAbandoned",
               "LastReport", "ReadError", "Summarize", "QueueStopped",
               "ReadDropped", "AwaitSink", "Returned"}
    /\ accepted \in Nat /\ dropped \in 0..accepted
    /\ droppedReported \in 0..dropped
    /\ reason \in StopReason \cup {"None"}
    /\ error \in Error /\ sinkError \in Error
    /\ workersAbandoned \in Nat /\ finalDropped \in Nat
    /\ {stop, elapsed, sinkFailed} \subseteq BOOLEAN
    /\ active \in Nat /\ recordsDropped \in Nat /\ attempts \in Nat
    /\ Len(chan) <= PendingRecords
    /\ workers \in [Places -> Nat]
    /\ sink \in {"Idle", "Calling", "Failing", "Done"}

\* active counts exactly the workers that have not released their capacity,
\* never more than max_concurrent, and every accepted connection, at most
\* max_connections of them, had a worker or was counted as dropped.
CapacityHeld ==
    /\ active = Holding
    /\ active <= config.max_concurrent
    /\ accepted = observed + dropped
    /\ accepted <= config.max_connections

\* "counted, not silently lost" (server.rs): at every moment an event that
\* anyone tried to queue is in the channel, went to the sink thread, was
\* counted in records_dropped or is about to be.
NothingLostSilently ==
    attempts = Len(log) + recordsDropped + workers["Counting"]

\* When no worker was abandoned, Stopped is the last event, its summary
\* accounts for every event that was queued or dropped before it, and run
\* returns the same count.  This rests on a worker releasing its capacity
\* only after its record is queued or counted.
StoppedAccountsForAll ==
    \A k \in DOMAIN log :
        log[k].kind = "Stopped" /\ workersAbandoned = 0 =>
            /\ k = Len(log)
            /\ attempts = k + log[k].summary.recordsDropped
            /\ pc \in {"AwaitSink", "Returned"} =>
                  finalDropped = log[k].summary.recordsDropped

\* Everything the run takes in is accounted for: capacity, connections and
\* records, at every moment and in the final summary (run, workers, try_emit).
RunAccounted ==
    TypeOK /\ CapacityHeld /\ NothingLostSilently /\ StoppedAccountsForAll

Overloads == {k \in DOMAIN log : log[k].kind = "Overload"}

\* The overload records before the event k report n dropped connections.
Reported(k, n) ==
    IF \E j \in Overloads : j < k
    THEN \E j \in Overloads : /\ j < k /\ log[j].totalDropped = n
                             /\ \A i \in Overloads : i < k => i <= j
    ELSE n = 0

\* What the record k counts from.
Base(k) == log[k].totalDropped - log[k].droppedSinceLast

\* The overload records that do not count from the one before them.
Gaps == {k \in Overloads : ~Reported(k, Base(k))}

\* A report that meets a full channel is lost, never repeated and never lost
\* silently: no connection dropped at capacity is in two overload records,
\* and every gap in what they cover (between two of them, or before the
\* summary) is paid for by a record of its own in records_dropped.  In a run
\* that dropped no record they cover every such connection exactly once.
OverloadExact ==
    /\ \A j, k \in Overloads : j < k => log[j].totalDropped <= Base(k)
    /\ Cardinality(Gaps)
          + (IF summary # NoSummary /\ ~Reported(Len(log) + 1, dropped) THEN 1 ELSE 0)
       <= recordsDropped

\* run returns once any stop condition holds, even if the sink never returns
\* from a call and workers had to be abandoned ("never wait on a wedged sink
\* forever").
RunReturns ==
    stop \/ sinkFailed \/ elapsed \/ LimitReached
        ~> pc = "Returned"

\* If the sink's calls return, the sink thread drains the channel and ends
\* once run has returned, the records of abandoned workers included.
SinkDrains ==
    WF_vars(SinkStep) => (pc = "Returned" ~> sink = "Done" /\ chan = <<>>)

\* A run that must stop does stop, and its sink thread is not left behind.
Terminates == RunReturns /\ SinkDrains

\* What the test sink_failure_stops_the_run asserts: a run that stopped
\* because its sink failed reports the sink's error.
SinkFailureHasError ==
    pc = "Returned" /\ reason = "SinkFailed" => error = "sink"

============================================================================
