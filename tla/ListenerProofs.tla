--------------------------- MODULE ListenerProofs ---------------------------
(***************************************************************************)
(* Proofs about Listener::run, its workers and its sink thread, for every  *)
(* capacity, every bound of the channel, any number of connections and     *)
(* every interleaving of the threads.                                      *)
(***************************************************************************)
EXTENDS Listener, SequenceTheorems, FiniteSetTheorems, TLAPS

Summaries == [accepted : Nat, observed : Nat, droppedAtCapacity : Nat, recordsDropped : Nat,
              workersAbandoned : Nat, reason : StopReason \cup {"None"}, error : Error]
Events == {Started, Observation}
          \cup [kind : {"Overload"}, droppedSinceLast : Int, totalDropped : Nat]
          \cup [kind : {"Stopped"}, summary : Summaries]

\* Where run is, by what it has behind it: the count of abandoned workers,
\* the last overload report, the summary.
Counted     == {"LastReport", "ReadError", "Summarize", "QueueStopped", "ReadDropped",
                "AwaitSink", "Returned"}
LastReported == Counted \ {"LastReport"}
Summarized  == LastReported \ {"ReadError", "Summarize"}

TypeInv ==
    /\ TypeOK
    /\ chan \in Seq(Events) /\ taken \in Seq(Events)
    /\ config \in Configs
    /\ summary \in Summaries \cup {NoSummary}

\* The limit is looked at once per turn of the loop.
BelowLimit == pc \in {"Report", "Accept"} => accepted < config.max_connections

\* If no worker was abandoned, none is left that could queue a record.
NoneAbandoned == pc \in Counted /\ workersAbandoned = 0 => active = 0

SummaryInv ==
    /\ pc \in Summarized <=> summary # NoSummary
    /\ pc = "QueueStopped" /\ workersAbandoned = 0 => summary.recordsDropped = recordsDropped

StoppedInv ==
    \A k \in DOMAIN log : log[k].kind = "Stopped" =>
        /\ pc \in {"ReadDropped", "AwaitSink", "Returned"}
        /\ log[k].summary = summary
        /\ workersAbandoned = 0 =>
              /\ k = Len(log)
              /\ recordsDropped = summary.recordsDropped
              /\ pc # "ReadDropped" => finalDropped = recordsDropped

\* What the overload records, sent or lost, cover.
Covered == IF pc \in LastReported THEN dropped ELSE droppedReported

\* The last overload record that was queued does not reach that far.
Pending == IF Reported(Len(log) + 1, Covered) THEN 0 ELSE 1

OverloadInv ==
    /\ \A k \in Overloads : log[k].totalDropped <= Covered
    /\ \A j, k \in Overloads : j < k => log[j].totalDropped <= Base(k)
    /\ Cardinality(Gaps) + Pending <= recordsDropped

ListenerInv == /\ TypeInv /\ CapacityHeld /\ BelowLimit /\ NothingLostSilently
               /\ NoneAbandoned /\ SummaryInv /\ StoppedInv /\ OverloadInv

----------------------------------------------------------------------------
(* The log: the events that were taken from the channel and those in it.   *)

LEMMA EventShape ==
    /\ Started \in Events /\ Started.kind = "Started"
    /\ Observation \in Events /\ Observation.kind = "Observation"
  BY DEF Events, Started, Observation

LEMMA LogTyped ==
    ASSUME TypeInv
    PROVE  /\ log \in Seq(Events) /\ Len(log) \in Nat /\ DOMAIN log = 1..Len(log)
           /\ Len(log) = Len(taken) + Len(chan)
<1>1. chan \in Seq(Events) /\ taken \in Seq(Events)
  BY DEF TypeInv
<1>2. log \in Seq(Events) /\ Len(log) = Len(taken) + Len(chan)
  BY <1>1, ConcatProperties DEF log
<1>3. QED
  BY <1>2, LenProperties

LEMMA LogSend ==
    ASSUME TypeInv, NEW e \in Events, chan' = Append(chan, e), taken' = taken
    PROVE  /\ log' = Append(log, e) /\ Len(log') = Len(log) + 1
           /\ DOMAIN log' = 1..(Len(log) + 1) /\ log'[Len(log) + 1] = e
           /\ \A k \in DOMAIN log : log'[k] = log[k]
           /\ chan' \in Seq(Events) /\ taken' \in Seq(Events)
           /\ Len(chan') = Len(chan) + 1
<1>1. chan \in Seq(Events) /\ taken \in Seq(Events) /\ <<e>> \in Seq(Events)
  BY DEF TypeInv
<1>2. log \in Seq(Events) /\ Len(log) \in Nat /\ DOMAIN log = 1..Len(log)
  BY LogTyped
<1>3. chan' = chan \o <<e>>
  BY <1>1, AppendIsConcat
<1>4. taken \o (chan \o <<e>>) = (taken \o chan) \o <<e>>
  BY <1>1, ConcatAssociative
<1>5. log' = log \o <<e>>
  BY <1>3, <1>4 DEF log
<1>6. log' = Append(log, e)
  BY <1>2, <1>5, AppendIsConcat
<1>7. /\ Append(log, e) \in Seq(Events) /\ Len(Append(log, e)) = Len(log) + 1
      /\ \A i \in 1..Len(log) : Append(log, e)[i] = log[i]
      /\ Append(log, e)[Len(log) + 1] = e
  BY <1>2, AppendProperties
<1>8. Append(chan, e) \in Seq(Events) /\ Len(Append(chan, e)) = Len(chan) + 1
  BY <1>1, AppendProperties
<1>9. DOMAIN log' = 1..Len(log')
  BY <1>6, <1>7, LenProperties
<1>10. QED
  BY <1>1, <1>2, <1>6, <1>7, <1>8, <1>9

LEMMA LogReceive ==
    ASSUME TypeInv, chan # <<>>, chan' = Tail(chan), taken' = Append(taken, Head(chan))
    PROVE  /\ log' = log /\ chan' \in Seq(Events) /\ taken' \in Seq(Events)
           /\ Len(chan') = Len(chan) - 1
<1>1. chan \in Seq(Events) /\ taken \in Seq(Events)
  BY DEF TypeInv
<1>2. Head(chan) \in Events /\ Tail(chan) \in Seq(Events) /\ Len(Tail(chan)) = Len(chan) - 1
      /\ chan = <<Head(chan)>> \o Tail(chan)
  BY <1>1, HeadTailProperties
<1>3. taken' = taken \o <<Head(chan)>>
  BY <1>1, <1>2, AppendIsConcat
<1>4. (taken \o <<Head(chan)>>) \o Tail(chan) = taken \o (<<Head(chan)>> \o Tail(chan))
  BY <1>1, <1>2, ConcatAssociative
<1>5. QED
  BY <1>1, <1>2, <1>3, <1>4, AppendProperties DEF log

\* Numbers the overload records are about.
LEMMA OverloadTyped ==
    ASSUME TypeInv
    PROVE  /\ Covered \in Nat /\ recordsDropped \in Nat
           /\ \A k \in Overloads : /\ k \in 1..Len(log) /\ k \in Nat
                                   /\ log[k].totalDropped \in Nat /\ Base(k) \in Int
           /\ IsFiniteSet(Gaps) /\ Cardinality(Gaps) \in Nat
           /\ Pending \in {0, 1}
<1>1. Covered \in Nat /\ recordsDropped \in Nat
  BY DEF TypeInv, TypeOK, Covered
<1>2. log \in Seq(Events) /\ Len(log) \in Nat /\ DOMAIN log = 1..Len(log)
  BY LogTyped
<1>3. ASSUME NEW k \in Overloads
      PROVE  /\ k \in 1..Len(log) /\ k \in Nat
             /\ log[k].totalDropped \in Nat /\ Base(k) \in Int
  <2>1. k \in 1..Len(log) /\ log[k] \in Events /\ log[k].kind = "Overload"
    BY <1>2, <1>3 DEF Overloads
  <2>2. log[k] \in [kind : {"Overload"}, droppedSinceLast : Int, totalDropped : Nat]
    BY <2>1 DEF Events, Started, Observation
  <2>3. QED
    BY <1>2, <2>1, <2>2 DEF Base
<1>4. IsFiniteSet(Gaps) /\ Cardinality(Gaps) \in Nat
  <2>1. Gaps \subseteq 1..Len(log)
    BY <1>3 DEF Gaps
  <2>2. IsFiniteSet(1..Len(log))
    BY <1>2, FS_Interval
  <2>3. QED
    BY <2>1, <2>2, FS_Subset, FS_CardinalityType
<1>5. QED
  BY <1>1, <1>3, <1>4 DEF Pending

\* The overload records, when the log stays: either they cover as much as
\* before, or a report was lost and counted.
LEMMA OverloadKept ==
    ASSUME TypeInv, OverloadInv, log' = log,
           \/ recordsDropped' = recordsDropped /\ Covered' = Covered
           \/ recordsDropped' = recordsDropped + 1 /\ Covered' \in Nat /\ Covered <= Covered'
    PROVE  OverloadInv'
<1>1. Overloads' = Overloads
  BY DEF Overloads
<1>2. \A k : Base(k)' = Base(k)
  BY DEF Base
<1>3. Gaps' = Gaps
  BY <1>1, <1>2 DEF Gaps, Reported
<1>4. /\ Covered \in Nat /\ recordsDropped \in Nat /\ Cardinality(Gaps) \in Nat
      /\ Pending \in {0, 1} /\ \A k \in Overloads : log[k].totalDropped \in Nat
  BY OverloadTyped
<1>5. Covered' \in Nat /\ Pending' \in {0, 1}
  BY <1>4 DEF Pending
<1>6. Covered' = Covered => Pending' = Pending
  BY <1>1 DEF Pending, Reported
<1>7. Cardinality(Gaps') + Pending' <= recordsDropped'
  BY <1>3, <1>4, <1>5, <1>6 DEF OverloadInv
<1>8. \A k \in Overloads' : log'[k].totalDropped <= Covered'
  BY <1>1, <1>4, <1>5 DEF OverloadInv
<1>9. QED
  BY <1>1, <1>2, <1>7, <1>8 DEF OverloadInv

\* A record that was queued stays what it was when another event follows.
LEMMA OverloadGrows ==
    ASSUME TypeInv, NEW e \in Events, chan' = Append(chan, e), taken' = taken
    PROVE  /\ Len(log) \in Nat /\ Len(log') = Len(log) + 1
           /\ log'[Len(log) + 1] = e
           /\ Overloads' = IF e.kind = "Overload" THEN Overloads \cup {Len(log) + 1}
                                                 ELSE Overloads
           /\ \A k \in Overloads : /\ k \in Nat /\ k <= Len(log) /\ log'[k] = log[k]
                                   /\ Base(k)' = Base(k)
           /\ \A k \in 1..(Len(log) + 1), n \in Int : Reported(k, n)' <=> Reported(k, n)
<1>1. /\ Len(log) \in Nat /\ DOMAIN log = 1..Len(log) /\ Len(log') = Len(log) + 1
      /\ DOMAIN log' = 1..(Len(log) + 1) /\ log'[Len(log) + 1] = e
      /\ \A k \in DOMAIN log : log'[k] = log[k]
  BY LogTyped, LogSend
<1>2. Overloads' = IF e.kind = "Overload" THEN Overloads \cup {Len(log) + 1} ELSE Overloads
  BY <1>1 DEF Overloads
<1>3. \A k \in Overloads : /\ k \in Nat /\ k <= Len(log) /\ log'[k] = log[k]
                           /\ Base(k)' = Base(k)
  BY <1>1 DEF Overloads, Base
<1>4. ASSUME NEW k \in 1..(Len(log) + 1), NEW n \in Int
      PROVE  Reported(k, n)' <=> Reported(k, n)
  <2>1. \A j : j \in Overloads' /\ j < k <=> j \in Overloads /\ j < k
    BY <1>1, <1>2, <1>3
  <2>2. \A j \in Overloads : log'[j].totalDropped = log[j].totalDropped
    BY <1>3
  <2>3. QED
    BY <2>1, <2>2 DEF Reported
<1>5. QED
  BY <1>1, <1>2, <1>3, <1>4

\* When an event of another kind is queued.
LEMMA OverloadOther ==
    ASSUME TypeInv, OverloadInv, NEW e \in Events, chan' = Append(chan, e), taken' = taken,
           e.kind # "Overload", recordsDropped' = recordsDropped, Covered' = Covered
    PROVE  OverloadInv'
<1>1. /\ Len(log) \in Nat /\ Len(log') = Len(log) + 1 /\ Overloads' = Overloads
      /\ \A k \in Overloads : /\ k \in Nat /\ k <= Len(log) /\ log'[k] = log[k]
                              /\ Base(k)' = Base(k)
      /\ \A k \in 1..(Len(log) + 1), n \in Int : Reported(k, n)' <=> Reported(k, n)
  BY OverloadGrows
<1>2. Covered \in Nat /\ \A k \in Overloads : Base(k) \in Int /\ k \in 1..(Len(log) + 1)
  BY <1>1, OverloadTyped
<1>3. Gaps' = Gaps
  BY <1>1, <1>2 DEF Gaps
<1>4. Pending' = Pending
  <2>1. \A j \in Overloads : /\ j < Len(log) + 1 /\ j < Len(log') + 1
                             /\ log'[j].totalDropped = log[j].totalDropped
    BY <1>1
  <2>2. Reported(Len(log) + 1, Covered)' <=> Reported(Len(log) + 1, Covered)
    BY <1>1, <2>1 DEF Reported
  <2>3. QED
    BY <2>2 DEF Pending
<1>5. QED
  BY <1>1, <1>3, <1>4 DEF OverloadInv

\* When an overload record is queued that counts from what was covered.
LEMMA OverloadSent ==
    ASSUME TypeInv, OverloadInv, NEW e \in Events, chan' = Append(chan, e), taken' = taken,
           e.kind = "Overload", e.totalDropped - e.droppedSinceLast = Covered,
           recordsDropped' = recordsDropped, Covered' = e.totalDropped,
           Covered' \in Nat, Covered <= Covered'
    PROVE  OverloadInv'
<1>0. PICK m \in Nat : m = Len(log) + 1
  BY LogTyped
<1>1. /\ Len(log) \in Nat /\ Len(log') = m /\ log'[m] = e
      /\ Overloads' = Overloads \cup {m}
      /\ \A k \in Overloads : /\ k \in Nat /\ k <= Len(log) /\ log'[k] = log[k]
                              /\ Base(k)' = Base(k)
      /\ \A k \in 1..m, n \in Int : Reported(k, n)' <=> Reported(k, n)
  BY <1>0, OverloadGrows
<1>2. /\ Covered \in Nat /\ recordsDropped \in Nat
      /\ \A k \in Overloads : /\ Base(k) \in Int /\ k \in 1..m /\ k < m
                              /\ log[k].totalDropped \in Nat
      /\ IsFiniteSet(Gaps) /\ Cardinality(Gaps) \in Nat
  BY <1>0, <1>1, OverloadTyped
<1>3. Base(m)' = Covered
  BY <1>1 DEF Base
<1>4. \A k \in Overloads' : log'[k].totalDropped <= Covered'
  BY <1>1, <1>2 DEF OverloadInv
<1>5. \A j, k \in Overloads' : j < k => log'[j].totalDropped <= Base(k)'
  <2> SUFFICES ASSUME NEW j \in Overloads', NEW k \in Overloads', j < k
               PROVE  log'[j].totalDropped <= Base(k)'
    OBVIOUS
  <2>1. j \in Overloads
    BY <1>1, <1>2
  <2>2. CASE k \in Overloads
    BY <1>1, <2>1, <2>2 DEF OverloadInv
  <2>3. CASE k = m
    BY <1>1, <1>3, <2>1, <2>3 DEF OverloadInv
  <2>4. QED
    BY <1>1, <2>2, <2>3
<1>6. Pending' = 0
  <2>1. m \in Overloads' /\ m < Len(log') + 1 /\ \A j \in Overloads' : j <= m
    BY <1>1, <1>2
  <2>2. log'[m].totalDropped = Covered'
    BY <1>1
  <2>3. Reported(Len(log) + 1, Covered)'
    BY <2>1, <2>2 DEF Reported
  <2>4. QED
    BY <2>3 DEF Pending
<1>7. Gaps' = IF Reported(m, Covered) THEN Gaps ELSE Gaps \cup {m}
  <2>1. \A k \in Overloads : Reported(k, Base(k))' <=> Reported(k, Base(k))
    BY <1>1, <1>2
  <2>2. Reported(m, Base(m))' <=> Reported(m, Covered)
    <3>1. m \in 1..m /\ Base(m)' \in Int
      BY <1>0, <1>1, <1>2, <1>3
    <3>2. Reported(m, Base(m))' <=> Reported(m, Base(m)')
      BY <1>1, <3>1
    <3>3. QED
      BY <1>3, <3>2
  <2>3. QED
    BY <1>1, <1>2, <2>1, <2>2 DEF Gaps
<1>8. Cardinality(Gaps') <= Cardinality(Gaps) + Pending
  <2>1. CASE Reported(m, Covered)
    BY <1>0, <1>2, <1>7, <2>1 DEF Pending
  <2>2. CASE ~Reported(m, Covered)
    <3>1. m \notin Gaps
      BY <1>2 DEF Gaps
    <3>2. Cardinality(Gaps \cup {m}) = Cardinality(Gaps) + 1
      BY <1>2, <3>1, FS_AddElement
    <3>3. QED
      BY <1>0, <1>2, <1>7, <2>2, <3>2 DEF Pending
  <2>3. QED
    BY <2>1, <2>2
<1>9. Cardinality(Gaps') + Pending' <= recordsDropped'
  <2>1. Cardinality(Gaps') \in Nat
    BY <1>2, <1>7, FS_AddElement, FS_CardinalityType
  <2>2. QED
    BY <1>2, <1>6, <1>8, <2>1, OverloadTyped DEF OverloadInv
<1>10. QED
  BY <1>4, <1>5, <1>9 DEF OverloadInv

----------------------------------------------------------------------------
(* Steps that queue nothing and move no worker.                            *)

LEMMA TypeFields ==
    ASSUME TypeInv
    PROVE  /\ accepted \in Nat /\ dropped \in Nat /\ droppedReported \in Nat
           /\ dropped <= accepted /\ droppedReported <= dropped
           /\ active \in Nat /\ recordsDropped \in Nat /\ attempts \in Nat
           /\ workersAbandoned \in Nat /\ finalDropped \in Nat
           /\ stop \in BOOLEAN /\ elapsed \in BOOLEAN /\ sinkFailed \in BOOLEAN
           /\ \A p \in Places : workers[p] \in Nat
           /\ workers["Observing"] \in Nat /\ workers["Counting"] \in Nat
           /\ workers["Releasing"] \in Nat /\ workers["Exiting"] \in Nat
           /\ workers["Gone"] \in Nat
           /\ config.max_concurrent \in Nat /\ config.max_connections \in Nat
  BY ListenerConfig DEF TypeInv, TypeOK, Places

\* StoppedInv, when the log and what it is compared with stay.
LEMMA StoppedKept ==
    ASSUME StoppedInv, log' = log, summary' = summary, recordsDropped' = recordsDropped,
           finalDropped' = finalDropped,
           pc \in Summarized => /\ workersAbandoned' = workersAbandoned
                                /\ pc' = pc \/ (pc = "AwaitSink" /\ pc' = "Returned")
    PROVE  StoppedInv'
  BY DEF StoppedInv, Summarized, LastReported, Counted

\* A worker moves from one place to another.
LEMMA MoveShape ==
    ASSUME workers \in [Places -> Nat], NEW from \in Places, NEW to \in Places, from # to,
           workers[from] > 0,
           workers' = [workers EXCEPT ![from] = @ - 1, ![to] = @ + 1]
    PROVE  /\ workers' \in [Places -> Nat]
           /\ workers'[from] = workers[from] - 1 /\ workers'[to] = workers[to] + 1
           /\ \A p \in Places \ {from, to} : workers'[p] = workers[p]
<1>1. workers[from] - 1 \in Nat /\ workers[to] + 1 \in Nat
  OBVIOUS
<1>2. QED
  BY <1>1

LEMMA QuietPreserves ==
    ASSUME ListenerInv, TypeOK',
           accepted' = accepted, dropped' = dropped, droppedReported' = droppedReported,
           summary' = summary, finalDropped' = finalDropped, active' = active,
           recordsDropped' = recordsDropped, chan' = chan, taken' = taken,
           config' = config, workers' = workers, attempts' = attempts,
           pc' \in {"Report", "Accept"} => accepted < config.max_connections,
           pc' \in Counted /\ workersAbandoned' = 0 => active = 0,
           pc' \in LastReported <=> pc \in LastReported,
           pc' \in Summarized <=> pc \in Summarized,
           pc' = "QueueStopped" => pc = "QueueStopped" /\ workersAbandoned' = workersAbandoned,
           pc \in Summarized => /\ workersAbandoned' = workersAbandoned
                                /\ pc' = pc \/ (pc = "AwaitSink" /\ pc' = "Returned")
    PROVE  ListenerInv'
<1>1. log' = log
  BY DEF log
<1>2. TypeInv' /\ CapacityHeld' /\ BelowLimit' /\ NoneAbandoned'
  BY DEF ListenerInv, TypeInv, CapacityHeld, BelowLimit, NoneAbandoned, observed, Sharing, Holding,
         NoSummary
<1>3. NothingLostSilently'
  BY <1>1 DEF ListenerInv, NothingLostSilently
<1>4. SummaryInv'
  BY DEF ListenerInv, SummaryInv, NoSummary
<1>5. StoppedInv'
  BY <1>1, StoppedKept DEF ListenerInv
<1>6. OverloadInv'
  BY <1>1, OverloadKept DEF ListenerInv, Covered
<1>7. QED
  BY <1>2, <1>3, <1>4, <1>5, <1>6 DEF ListenerInv

LEMMA CheckStopPreserves ==
    ASSUME ListenerInv, CheckStop
    PROVE  ListenerInv'
<1>1. TypeOK'
  BY DEF ListenerInv, TypeInv, TypeOK, CheckStop, Break, StopReason, shared, sinkVars
<1>2. QED
  BY <1>1, QuietPreserves DEF CheckStop, Break, shared, sinkVars, Counted, LastReported, Summarized

LEMMA CheckSinkPreserves ==
    ASSUME ListenerInv, CheckSink
    PROVE  ListenerInv'
<1>1. /\ pc = "CheckSink" /\ pc' \in {"Stopping", "Report", "Accept"}
      /\ reason' \in StopReason \cup {"None"}
      /\ pc' # "Stopping" => ~LimitReached
      /\ accepted' = accepted /\ dropped' = dropped /\ droppedReported' = droppedReported
      /\ error' = error /\ workersAbandoned' = workersAbandoned
      /\ summary' = summary /\ finalDropped' = finalDropped /\ active' = active
      /\ stop' = stop
      /\ recordsDropped' = recordsDropped /\ chan' = chan /\ taken' = taken
      /\ config' = config /\ workers' = workers /\ attempts' = attempts /\ elapsed' = elapsed
      /\ sink' = sink /\ sinkFailed' = sinkFailed /\ sinkError' = sinkError
  BY DEF CheckSink, Break, StopReason, shared, sinkVars, ListenerInv, TypeInv, TypeOK
<1>2. TypeOK'
  BY <1>1 DEF ListenerInv, TypeInv, TypeOK
<1>3. pc' \in {"Report", "Accept"} => accepted < config.max_connections
  BY <1>1, TypeFields DEF LimitReached, ListenerInv
<1>4. QED
  BY <1>1, <1>2, <1>3, QuietPreserves DEF Counted, LastReported, Summarized

LEMMA LoopPreserves ==
    ASSUME ListenerInv, NoReport \/ NobodyThere \/ AcceptFailed
    PROVE  ListenerInv'
<1>1. /\ pc \in {"Report", "Accept"} /\ pc' \in {"Accept", "CheckStop", "Stopping"}
      /\ reason' \in StopReason \cup {"None"} /\ error' \in Error
      /\ accepted' = accepted /\ dropped' = dropped /\ droppedReported' = droppedReported
      /\ workersAbandoned' = workersAbandoned
      /\ summary' = summary /\ finalDropped' = finalDropped /\ active' = active
      /\ stop' = stop
      /\ recordsDropped' = recordsDropped /\ chan' = chan /\ taken' = taken
      /\ config' = config /\ workers' = workers /\ attempts' = attempts /\ elapsed' = elapsed
      /\ sink' = sink /\ sinkFailed' = sinkFailed /\ sinkError' = sinkError
  BY DEF NoReport, NobodyThere, AcceptFailed, Goto, Break, StopReason, Error, locals, shared,
         sinkVars, ListenerInv, TypeInv, TypeOK
<1>2. TypeOK'
  BY <1>1 DEF ListenerInv, TypeInv, TypeOK
<1>3. accepted < config.max_connections
  BY <1>1 DEF ListenerInv, BelowLimit
<1>4. QED
  BY <1>1, <1>2, <1>3, QuietPreserves DEF Counted, LastReported, Summarized

LEMMA StoppingPreserves ==
    ASSUME ListenerInv, CancelOnFatal \/ GraceOver \/ CancelRest
    PROVE  ListenerInv'
<1>1. /\ pc \in {"Stopping", "Grace", "CancelGrace", "CancelRest"}
      /\ pc' \in {"Grace", "CancelRest", "CancelGrace", "CountAbandoned"}
      /\ reason' = reason /\ error' = error /\ stop' \in BOOLEAN
      /\ accepted' = accepted /\ dropped' = dropped /\ droppedReported' = droppedReported
      /\ workersAbandoned' = workersAbandoned
      /\ summary' = summary /\ finalDropped' = finalDropped /\ active' = active
      /\ recordsDropped' = recordsDropped /\ chan' = chan /\ taken' = taken
      /\ config' = config /\ workers' = workers /\ attempts' = attempts /\ elapsed' = elapsed
      /\ sink' = sink /\ sinkFailed' = sinkFailed /\ sinkError' = sinkError
  BY DEF CancelOnFatal, GraceOver, CancelRest, Goto, locals, shared, sinkVars, ListenerInv,
         TypeInv, TypeOK
<1>2. TypeOK'
  BY <1>1 DEF ListenerInv, TypeInv, TypeOK
<1>3. QED
  BY <1>1, <1>2, QuietPreserves DEF Counted, LastReported, Summarized

LEMMA CountAbandonedPreserves ==
    ASSUME ListenerInv, CountAbandoned
    PROVE  ListenerInv'
<1>1. /\ pc = "CountAbandoned" /\ pc' = "LastReport" /\ workersAbandoned' = active
      /\ reason' = reason /\ error' = error /\ stop' = stop
      /\ accepted' = accepted /\ dropped' = dropped /\ droppedReported' = droppedReported
      /\ summary' = summary /\ finalDropped' = finalDropped /\ active' = active
      /\ recordsDropped' = recordsDropped /\ chan' = chan /\ taken' = taken
      /\ config' = config /\ workers' = workers /\ attempts' = attempts /\ elapsed' = elapsed
      /\ sink' = sink /\ sinkFailed' = sinkFailed /\ sinkError' = sinkError
  BY DEF CountAbandoned, Goto, shared, sinkVars
<1>2. TypeOK'
  BY <1>1 DEF ListenerInv, TypeInv, TypeOK
<1>3. QED
  BY <1>1, <1>2, QuietPreserves DEF Counted, LastReported, Summarized

LEMMA ReadErrorPreserves ==
    ASSUME ListenerInv, ReadError \/ Return
    PROVE  ListenerInv'
<1>1. /\ (pc = "ReadError" /\ pc' = "Summarize") \/ (pc = "AwaitSink" /\ pc' = "Returned")
      /\ workersAbandoned' = workersAbandoned
      /\ reason' = reason /\ error' \in Error /\ stop' = stop
      /\ accepted' = accepted /\ dropped' = dropped /\ droppedReported' = droppedReported
      /\ summary' = summary /\ finalDropped' = finalDropped /\ active' = active
      /\ recordsDropped' = recordsDropped /\ chan' = chan /\ taken' = taken
      /\ config' = config /\ workers' = workers /\ attempts' = attempts /\ elapsed' = elapsed
      /\ sink' = sink /\ sinkFailed' = sinkFailed /\ sinkError' = sinkError
  BY DEF ReadError, Return, Goto, locals, shared, sinkVars, ListenerInv, TypeInv, TypeOK
<1>2. TypeOK'
  BY <1>1 DEF ListenerInv, TypeInv, TypeOK
<1>3. workersAbandoned = 0 => active = 0
  BY <1>1 DEF ListenerInv, NoneAbandoned, Counted
<1>4. QED
  BY <1>1, <1>2, <1>3, QuietPreserves DEF Counted, LastReported, Summarized

\* The sink thread between two receives, the stop flag and the clock.
LEMMA OthersPreserve ==
    ASSUME ListenerInv, SinkOk \/ SinkErr \/ StoreError \/ SinkDone \/ RequestStop \/ RunForElapses
    PROVE  ListenerInv'
<1>1. /\ pc' = pc /\ workersAbandoned' = workersAbandoned
      /\ reason' = reason /\ error' = error /\ stop' \in BOOLEAN /\ elapsed' \in BOOLEAN
      /\ accepted' = accepted /\ dropped' = dropped /\ droppedReported' = droppedReported
      /\ summary' = summary /\ finalDropped' = finalDropped /\ active' = active
      /\ recordsDropped' = recordsDropped /\ chan' = chan /\ taken' = taken
      /\ config' = config /\ workers' = workers /\ attempts' = attempts
  BY DEF SinkOk, SinkErr, StoreError, SinkDone, RequestStop, RunForElapses, locals, shared,
         sinkVars, ListenerInv, TypeInv, TypeOK
<1>2. /\ sink' \in {"Idle", "Calling", "Failing", "Done"} /\ sinkFailed' \in BOOLEAN
      /\ sinkError' \in Error
  BY DEF SinkOk, SinkErr, StoreError, SinkDone, RequestStop, RunForElapses, locals, shared,
         sinkVars, ListenerInv, TypeInv, TypeOK, Error
<1>3. TypeOK'
  BY <1>1, <1>2 DEF ListenerInv, TypeInv, TypeOK
<1>4. /\ pc \in {"Report", "Accept"} => accepted < config.max_connections
      /\ pc \in Counted /\ workersAbandoned = 0 => active = 0
  BY DEF ListenerInv, NoneAbandoned, BelowLimit
<1>5. QED
  BY <1>1, <1>3, <1>4, QuietPreserves

\* Taking an event from the channel leaves the log as it is.
LEMMA ReceivePreserves ==
    ASSUME ListenerInv, Receive
    PROVE  ListenerInv'
<1>1. /\ chan # <<>> /\ chan' = Tail(chan) /\ taken' = Append(taken, Head(chan))
      /\ sink' \in {"Idle", "Calling"} /\ sinkFailed' = sinkFailed /\ sinkError' = sinkError
      /\ pc' = pc /\ workersAbandoned' = workersAbandoned
      /\ reason' = reason /\ error' = error /\ stop' = stop /\ elapsed' = elapsed
      /\ accepted' = accepted /\ dropped' = dropped /\ droppedReported' = droppedReported
      /\ summary' = summary /\ finalDropped' = finalDropped /\ active' = active
      /\ recordsDropped' = recordsDropped /\ config' = config /\ workers' = workers
      /\ attempts' = attempts
  BY DEF Receive, locals
<1>2. /\ log' = log /\ chan' \in Seq(Events) /\ taken' \in Seq(Events)
      /\ Len(chan') = Len(chan) - 1
  BY <1>1, LogReceive DEF ListenerInv
<1>3. Len(chan') <= PendingRecords
  <2>1. Len(chan) \in Nat /\ Len(chan) <= PendingRecords /\ PendingRecords \in Nat
    BY LenProperties, ListenerConfig DEF ListenerInv, TypeInv, TypeOK
  <2>2. QED
    BY <1>2, <2>1
<1>4. TypeInv'
  BY <1>1, <1>2, <1>3 DEF ListenerInv, TypeInv, TypeOK, NoSummary
<1>5. CapacityHeld' /\ BelowLimit' /\ NoneAbandoned'
  BY <1>1 DEF ListenerInv, CapacityHeld, BelowLimit, NoneAbandoned, observed, Sharing, Holding
<1>6. NothingLostSilently' /\ SummaryInv'
  BY <1>1, <1>2 DEF ListenerInv, NothingLostSilently, SummaryInv, NoSummary
<1>7. StoppedInv'
  BY <1>1, <1>2, StoppedKept DEF ListenerInv
<1>8. OverloadInv'
  BY <1>1, <1>2, OverloadKept DEF ListenerInv, Covered
<1>9. QED
  BY <1>4, <1>5, <1>6, <1>7, <1>8 DEF ListenerInv

----------------------------------------------------------------------------
(* Steps that admit or move workers.                                       *)

\* A step of a worker or the admission of one, with the log left as it is.
LEMMA WorkersPreserve ==
    ASSUME ListenerInv, TypeOK', CapacityHeld',
           pc' \in {pc, "CheckStop"}, pc' = pc \/ pc = "Accept", accepted' = accepted \/ pc' # pc,
           workersAbandoned' = workersAbandoned, droppedReported' = droppedReported,
           dropped' = dropped \/ pc = "Accept",
           summary' = summary, finalDropped' = finalDropped,
           active' <= active \/ pc' # pc,
           recordsDropped' = recordsDropped, chan' = chan, taken' = taken,
           config' = config, attempts' = attempts,
           workers'["Counting"] = workers["Counting"]
    PROVE  ListenerInv'
<1>1. log' = log
  BY DEF log
<1>2. TypeInv'
  BY DEF ListenerInv, TypeInv, NoSummary
<1>3. BelowLimit'
  BY DEF ListenerInv, BelowLimit
<1>4. NoneAbandoned'
  <2>1. active \in Nat /\ active' \in Nat
    BY DEF ListenerInv, TypeInv, TypeOK
  <2>2. QED
    BY <2>1 DEF ListenerInv, NoneAbandoned, Counted
<1>5. NothingLostSilently'
  BY <1>1 DEF ListenerInv, NothingLostSilently
<1>6. SummaryInv'
  BY DEF ListenerInv, SummaryInv, NoSummary, Summarized, LastReported, Counted
<1>7. StoppedInv'
  BY <1>1, StoppedKept DEF ListenerInv, Summarized, LastReported, Counted
<1>8. OverloadInv'
  <2>1. Covered' = Covered
    BY DEF Covered, LastReported, Counted
  <2>2. QED
    BY <1>1, <2>1, OverloadKept DEF ListenerInv
<1>9. QED
  BY <1>2, <1>3, <1>4, <1>5, <1>6, <1>7, <1>8 DEF ListenerInv

LEMMA AdmitPreserves ==
    ASSUME ListenerInv, Admit
    PROVE  ListenerInv'
<1>1. /\ pc = "Accept" /\ pc' = "CheckStop" /\ active < config.max_concurrent
      /\ accepted' = accepted + 1 /\ active' = active + 1
      /\ workers' = [workers EXCEPT !["Observing"] = @ + 1]
      /\ dropped' = dropped /\ droppedReported' = droppedReported /\ reason' = reason
      /\ error' = error /\ workersAbandoned' = workersAbandoned /\ summary' = summary
      /\ finalDropped' = finalDropped /\ stop' = stop /\ recordsDropped' = recordsDropped
      /\ chan' = chan /\ config' = config /\ elapsed' = elapsed /\ attempts' = attempts
      /\ sink' = sink /\ sinkFailed' = sinkFailed /\ sinkError' = sinkError /\ taken' = taken
  BY DEF Admit, Goto, sinkVars
<1>2. TypeInv /\ workers \in [Places -> Nat]
  BY DEF ListenerInv, TypeInv, TypeOK
<1>3. /\ workers' \in [Places -> Nat] /\ workers'["Observing"] = workers["Observing"] + 1
      /\ \A p \in Places \ {"Observing"} : workers'[p] = workers[p]
  BY <1>1, <1>2 DEF Places
<1>4. TypeOK'
  BY <1>1, <1>2, <1>3, TypeFields DEF TypeInv, TypeOK
<1>5. accepted < config.max_connections
  BY <1>1 DEF ListenerInv, BelowLimit
<1>6. CapacityHeld'
  <2>1. /\ workers'["Counting"] = workers["Counting"]
        /\ workers'["Releasing"] = workers["Releasing"]
        /\ workers'["Exiting"] = workers["Exiting"] /\ workers'["Gone"] = workers["Gone"]
    BY <1>3 DEF Places
  <2>2. QED
    BY <1>1, <1>2, <1>3, <1>5, <2>1, TypeFields
       DEF ListenerInv, CapacityHeld, observed, Sharing, Holding
<1>7. QED
  BY <1>1, <1>3, <1>4, <1>6, WorkersPreserve DEF Places

LEMMA DropAtCapacityPreserves ==
    ASSUME ListenerInv, DropAtCapacity
    PROVE  ListenerInv'
<1>1. /\ pc = "Accept" /\ pc' = "CheckStop"
      /\ accepted' = accepted + 1 /\ dropped' = dropped + 1 /\ active' = active
      /\ workers' = workers /\ droppedReported' = droppedReported /\ reason' = reason
      /\ error' = error /\ workersAbandoned' = workersAbandoned /\ summary' = summary
      /\ finalDropped' = finalDropped /\ stop' = stop /\ recordsDropped' = recordsDropped
      /\ chan' = chan /\ config' = config /\ elapsed' = elapsed /\ attempts' = attempts
      /\ sink' = sink /\ sinkFailed' = sinkFailed /\ sinkError' = sinkError /\ taken' = taken
  BY DEF DropAtCapacity, Goto, shared, sinkVars
<1>2. TypeInv
  BY DEF ListenerInv
<1>3. TypeOK'
  BY <1>1, <1>2, TypeFields DEF TypeInv, TypeOK
<1>4. accepted < config.max_connections
  BY <1>1 DEF ListenerInv, BelowLimit
<1>5. CapacityHeld'
  BY <1>1, <1>2, <1>4, TypeFields DEF ListenerInv, CapacityHeld, observed, Sharing, Holding
<1>6. QED
  BY <1>1, <1>3, <1>5, WorkersPreserve

LEMMA ReleasePreserves ==
    ASSUME ListenerInv, Release
    PROVE  ListenerInv'
<1>1. /\ workers["Releasing"] > 0
      /\ workers' = [workers EXCEPT !["Releasing"] = @ - 1, !["Exiting"] = @ + 1]
      /\ active' = active - 1 /\ pc' = pc /\ accepted' = accepted /\ dropped' = dropped
      /\ droppedReported' = droppedReported /\ reason' = reason
      /\ error' = error /\ workersAbandoned' = workersAbandoned /\ summary' = summary
      /\ finalDropped' = finalDropped /\ stop' = stop /\ recordsDropped' = recordsDropped
      /\ chan' = chan /\ config' = config /\ elapsed' = elapsed /\ attempts' = attempts
      /\ sink' = sink /\ sinkFailed' = sinkFailed /\ sinkError' = sinkError /\ taken' = taken
  BY DEF Release, Move, locals, sinkVars
<1>2. TypeInv /\ workers \in [Places -> Nat]
  BY DEF ListenerInv, TypeInv, TypeOK
<1>3. /\ workers' \in [Places -> Nat]
      /\ workers'["Releasing"] = workers["Releasing"] - 1
      /\ workers'["Exiting"] = workers["Exiting"] + 1
      /\ workers'["Observing"] = workers["Observing"]
      /\ workers'["Counting"] = workers["Counting"] /\ workers'["Gone"] = workers["Gone"]
  BY <1>1, <1>2, TypeFields DEF Places
<1>4. CapacityHeld' /\ active' \in Nat
  <2>1. /\ active = workers["Observing"] + workers["Counting"] + workers["Releasing"]
        /\ active <= config.max_concurrent /\ accepted <= config.max_connections
        /\ accepted = workers["Observing"] + workers["Counting"] + workers["Releasing"]
                       + workers["Exiting"] + workers["Gone"] + dropped
    BY DEF ListenerInv, CapacityHeld, observed, Sharing, Holding
  <2>2. active' = workers'["Observing"] + workers'["Counting"] + workers'["Releasing"]
        /\ active' \in Nat /\ active' <= config.max_concurrent
    BY <1>1, <1>2, <1>3, <2>1, TypeFields
  <2>3. accepted = workers'["Observing"] + workers'["Counting"] + workers'["Releasing"]
                   + workers'["Exiting"] + workers'["Gone"] + dropped
    BY <1>2, <1>3, <2>1, TypeFields
  <2>4. QED
    BY <1>1, <2>1, <2>2, <2>3 DEF CapacityHeld, observed, Sharing, Holding
<1>5. TypeOK'
  BY <1>1, <1>3, <1>4 DEF ListenerInv, TypeInv, TypeOK
<1>6. active' <= active
  BY <1>1, <1>2, TypeFields
<1>7. QED
  BY <1>1, <1>3, <1>4, <1>5, <1>6, WorkersPreserve

LEMMA ExitPreserves ==
    ASSUME ListenerInv, Exit
    PROVE  ListenerInv'
<1>1. /\ workers["Exiting"] > 0
      /\ workers' = [workers EXCEPT !["Exiting"] = @ - 1, !["Gone"] = @ + 1]
      /\ active' = active /\ pc' = pc /\ accepted' = accepted /\ dropped' = dropped
      /\ droppedReported' = droppedReported /\ reason' = reason
      /\ error' = error /\ workersAbandoned' = workersAbandoned /\ summary' = summary
      /\ finalDropped' = finalDropped /\ stop' = stop /\ recordsDropped' = recordsDropped
      /\ chan' = chan /\ config' = config /\ elapsed' = elapsed /\ attempts' = attempts
      /\ sink' = sink /\ sinkFailed' = sinkFailed /\ sinkError' = sinkError /\ taken' = taken
  BY DEF Exit, Move, locals, shared, sinkVars
<1>2. TypeInv /\ workers \in [Places -> Nat]
  BY DEF ListenerInv, TypeInv, TypeOK
<1>3. /\ workers' \in [Places -> Nat]
      /\ workers'["Exiting"] = workers["Exiting"] - 1
      /\ workers'["Gone"] = workers["Gone"] + 1
      /\ workers'["Observing"] = workers["Observing"]
      /\ workers'["Counting"] = workers["Counting"]
      /\ workers'["Releasing"] = workers["Releasing"]
  BY <1>1, <1>2, TypeFields DEF Places
<1>4. CapacityHeld'
  BY <1>1, <1>2, <1>3, TypeFields DEF ListenerInv, CapacityHeld, observed, Sharing, Holding
<1>5. TypeOK'
  BY <1>1, <1>3 DEF ListenerInv, TypeInv, TypeOK
<1>6. active' <= active
  BY <1>1, <1>2, TypeFields
<1>7. QED
  BY <1>1, <1>3, <1>4, <1>5, <1>6, WorkersPreserve

----------------------------------------------------------------------------
(* The summary.                                                            *)

LEMMA SummarizePreserves ==
    ASSUME ListenerInv, Summarize
    PROVE  ListenerInv'
<1> DEFINE s == [accepted |-> accepted, observed |-> observed,
                 droppedAtCapacity |-> dropped, recordsDropped |-> recordsDropped,
                 workersAbandoned |-> workersAbandoned, reason |-> reason, error |-> error]
<1>1. /\ pc = "Summarize" /\ pc' = "QueueStopped" /\ summary' = s
      /\ active' = active /\ accepted' = accepted /\ dropped' = dropped
      /\ droppedReported' = droppedReported /\ reason' = reason /\ workers' = workers
      /\ error' = error /\ workersAbandoned' = workersAbandoned
      /\ finalDropped' = finalDropped /\ stop' = stop /\ recordsDropped' = recordsDropped
      /\ chan' = chan /\ config' = config /\ elapsed' = elapsed /\ attempts' = attempts
      /\ sink' = sink /\ sinkFailed' = sinkFailed /\ sinkError' = sinkError /\ taken' = taken
  BY DEF Summarize, Goto, shared, sinkVars
<1>2. TypeInv
  BY DEF ListenerInv
<1>3. observed \in Nat
  BY <1>2, TypeFields DEF observed, Sharing, Holding
<1>4. s \in Summaries /\ s.recordsDropped = recordsDropped
  BY <1>2, <1>3, TypeFields DEF Summaries, TypeInv, TypeOK
<1>5. s # NoSummary
  BY <1>2, <1>4, TypeFields DEF NoSummary
<1> HIDE DEF s
<1>6. log' = log
  BY <1>1 DEF log
<1>7. TypeInv'
  BY <1>1, <1>4 DEF ListenerInv, TypeInv, TypeOK
<1>8. CapacityHeld' /\ BelowLimit' /\ NoneAbandoned' /\ NothingLostSilently'
  BY <1>1, <1>6 DEF ListenerInv, CapacityHeld, BelowLimit, NoneAbandoned, NothingLostSilently,
                    observed, Sharing, Holding, Counted
<1>9. SummaryInv'
  <2>1. NoSummary' = NoSummary
    BY DEF NoSummary
  <2>2. QED
    BY <1>1, <1>4, <1>5, <2>1 DEF SummaryInv, Summarized, LastReported, Counted
<1>10. StoppedInv'
  BY <1>1, <1>6 DEF ListenerInv, StoppedInv
<1>11. OverloadInv'
  <2>1. Covered' = Covered
    BY <1>1 DEF Covered, LastReported, Counted
  <2>2. QED
    BY <1>1, <1>6, <2>1, OverloadKept DEF ListenerInv
<1>12. QED
  BY <1>7, <1>8, <1>9, <1>10, <1>11 DEF ListenerInv

LEMMA ReadDroppedPreserves ==
    ASSUME ListenerInv, ReadDropped
    PROVE  ListenerInv'
<1>1. /\ pc = "ReadDropped" /\ pc' = "AwaitSink" /\ finalDropped' = recordsDropped
      /\ active' = active /\ accepted' = accepted /\ dropped' = dropped /\ summary' = summary
      /\ droppedReported' = droppedReported /\ reason' = reason /\ workers' = workers
      /\ error' = error /\ workersAbandoned' = workersAbandoned
      /\ stop' = stop /\ recordsDropped' = recordsDropped
      /\ chan' = chan /\ config' = config /\ elapsed' = elapsed /\ attempts' = attempts
      /\ sink' = sink /\ sinkFailed' = sinkFailed /\ sinkError' = sinkError /\ taken' = taken
  BY DEF ReadDropped, Goto, shared, sinkVars
<1>2. log' = log
  BY <1>1 DEF log
<1>3. TypeInv'
  BY <1>1 DEF ListenerInv, TypeInv, TypeOK, NoSummary
<1>4. CapacityHeld' /\ BelowLimit' /\ NoneAbandoned' /\ NothingLostSilently'
  BY <1>1, <1>2 DEF ListenerInv, CapacityHeld, BelowLimit, NoneAbandoned, NothingLostSilently,
                    observed, Sharing, Holding, Counted
<1>5. SummaryInv'
  BY <1>1 DEF ListenerInv, SummaryInv, Summarized, LastReported, Counted, NoSummary
<1>6. StoppedInv'
  BY <1>1, <1>2 DEF ListenerInv, StoppedInv
<1>7. OverloadInv'
  <2>1. Covered' = Covered
    BY <1>1 DEF Covered, LastReported, Counted
  <2>2. QED
    BY <1>1, <1>2, <2>1, OverloadKept DEF ListenerInv
<1>8. QED
  BY <1>3, <1>4, <1>5, <1>6, <1>7 DEF ListenerInv

----------------------------------------------------------------------------
(* Steps that queue an event or count one that could not be queued.        *)

\* Whatever is queued, the books stay balanced; before the summary nothing
\* else in the invariant speaks of the log but the overload records.
LEMMA SendPreserves ==
    ASSUME ListenerInv, CanSend, NEW e \in Events, e.kind # "Stopped",
           chan' = Append(chan, e), taken' = taken, attempts' = attempts + 1,
           recordsDropped' = recordsDropped,
           workers'["Counting"] = workers["Counting"],
           pc \in Counted /\ workersAbandoned = 0 => pc = "LastReport",
           workersAbandoned' = workersAbandoned, summary' = summary,
           finalDropped' = finalDropped, config' = config,
           accepted' = accepted, active' = active,
           \/ pc' = pc \/ (pc = "Start" /\ pc' = "CheckStop")
              \/ (pc = "Report" /\ pc' = "Accept") \/ (pc = "LastReport" /\ pc' = "ReadError"),
           (Len(chan') <= PendingRecords) => TypeOK', CapacityHeld', OverloadInv'
    PROVE  ListenerInv'
<1>1. TypeInv /\ Len(chan) \in Nat /\ PendingRecords \in Nat
  BY LenProperties, ListenerConfig DEF ListenerInv, TypeInv
<1>2. /\ Len(log') = Len(log) + 1 /\ Len(log) \in Nat /\ DOMAIN log = 1..Len(log)
      /\ DOMAIN log' = 1..(Len(log) + 1) /\ log'[Len(log) + 1] = e
      /\ \A k \in DOMAIN log : log'[k] = log[k]
      /\ chan' \in Seq(Events) /\ taken' \in Seq(Events) /\ Len(chan') = Len(chan) + 1
  BY <1>1, LogSend, LogTyped
<1>3. Len(chan') <= PendingRecords
  BY <1>1, <1>2 DEF CanSend
<1>4. TypeInv'
  BY <1>2, <1>3 DEF ListenerInv, TypeInv, NoSummary
<1>5. BelowLimit' /\ NoneAbandoned'
  BY DEF ListenerInv, BelowLimit, NoneAbandoned, Counted
<1>6. NothingLostSilently'
  <2>1. attempts = Len(log) + recordsDropped + workers["Counting"]
    BY DEF ListenerInv, NothingLostSilently
  <2>2. recordsDropped \in Nat /\ workers["Counting"] \in Nat
    BY <1>1, TypeFields
  <2>3. QED
    BY <1>2, <2>1, <2>2 DEF NothingLostSilently
<1>7. SummaryInv'
  BY DEF ListenerInv, SummaryInv, NoSummary, Summarized, LastReported, Counted
<1>8. StoppedInv'
  <2> SUFFICES ASSUME NEW k \in DOMAIN log', log'[k].kind = "Stopped"
               PROVE  /\ pc' \in {"ReadDropped", "AwaitSink", "Returned"}
                      /\ log'[k].summary = summary'
                      /\ workersAbandoned' # 0
    BY DEF StoppedInv
  <2>1. k \in DOMAIN log /\ log[k].kind = "Stopped" /\ log'[k] = log[k]
    BY <1>2
  <2>2. pc \in {"ReadDropped", "AwaitSink", "Returned"} /\ log[k].summary = summary
    BY <2>1 DEF ListenerInv, StoppedInv
  <2>3. QED
    BY <2>1, <2>2 DEF Counted
<1>9. QED
  BY <1>4, <1>5, <1>6, <1>7, <1>8 DEF ListenerInv

LEMMA Balance ==
    ASSUME NEW n \in Nat, recordsDropped \in Nat, workers["Counting"] \in Nat,
           recordsDropped' \in Nat, workers'["Counting"] \in Nat,
           attempts \in Nat, attempts' \in Nat,
           attempts = n + recordsDropped + workers["Counting"],
           attempts' - recordsDropped' - workers'["Counting"]
              = attempts - recordsDropped - workers["Counting"]
    PROVE  attempts' = n + recordsDropped' + workers'["Counting"]
  OBVIOUS

LEMMA DropPreserves ==
    ASSUME ListenerInv, TypeOK', CapacityHeld', chan' = chan, taken' = taken,
           attempts' - recordsDropped' - workers'["Counting"]
              = attempts - recordsDropped - workers["Counting"],
           \/ (recordsDropped' = recordsDropped /\ Covered' = Covered)
              \/ (recordsDropped' = recordsDropped + 1 /\ Covered' \in Nat /\ Covered <= Covered'),
           pc \in Summarized /\ workersAbandoned = 0 => pc = "QueueStopped" /\ pc' # pc,
           workersAbandoned' = workersAbandoned, summary' = summary,
           finalDropped' = finalDropped, config' = config,
           accepted' = accepted, active' = active,
           \/ pc' = pc \/ (pc = "Report" /\ pc' = "Accept")
              \/ (pc = "LastReport" /\ pc' = "ReadError")
              \/ (pc = "QueueStopped" /\ pc' = "ReadDropped")
    PROVE  ListenerInv'
<1>1. TypeInv /\ log' = log
  BY DEF ListenerInv, log
<1>2. TypeInv'
  BY DEF ListenerInv, TypeInv, NoSummary
<1>3. BelowLimit' /\ NoneAbandoned'
  BY DEF ListenerInv, BelowLimit, NoneAbandoned, Counted
<1>4. NothingLostSilently'
  <2>1. attempts = Len(log) + recordsDropped + workers["Counting"]
    BY DEF ListenerInv, NothingLostSilently
  <2>2. /\ recordsDropped \in Nat /\ workers["Counting"] \in Nat /\ Len(log) \in Nat
        /\ recordsDropped' \in Nat /\ workers'["Counting"] \in Nat /\ attempts' \in Nat
        /\ attempts \in Nat
    BY <1>1, LogTyped DEF ListenerInv, TypeInv, TypeOK, Places
  <2>3. attempts' = Len(log) + recordsDropped' + workers'["Counting"]
    BY <2>1, <2>2, Balance, SMT
  <2>4. QED
    BY <1>1, <2>3 DEF NothingLostSilently
<1>5. SummaryInv'
  BY DEF ListenerInv, SummaryInv, NoSummary, Summarized, LastReported, Counted
<1>6. StoppedInv'
  BY <1>1 DEF ListenerInv, StoppedInv, Summarized, LastReported, Counted
<1>7. OverloadInv'
  BY <1>1, <1>2, OverloadKept DEF ListenerInv
<1>8. QED
  BY <1>2, <1>3, <1>4, <1>5, <1>6, <1>7 DEF ListenerInv

LEMMA SendStartedPreserves ==
    ASSUME ListenerInv, SendStarted
    PROVE  ListenerInv'
<1>1. /\ pc = "Start" /\ pc' = "CheckStop" /\ CanSend
      /\ chan' = Append(chan, Started) /\ attempts' = attempts + 1
      /\ active' = active /\ accepted' = accepted /\ dropped' = dropped /\ summary' = summary
      /\ droppedReported' = droppedReported /\ reason' = reason /\ workers' = workers
      /\ error' = error /\ workersAbandoned' = workersAbandoned
      /\ finalDropped' = finalDropped /\ stop' = stop /\ recordsDropped' = recordsDropped
      /\ config' = config /\ elapsed' = elapsed
      /\ sink' = sink /\ sinkFailed' = sinkFailed /\ sinkError' = sinkError /\ taken' = taken
  BY DEF SendStarted, Goto, Send, locals, sinkVars
<1>2. TypeInv /\ Started \in Events /\ Started.kind = "Started"
  BY EventShape DEF ListenerInv
<1>3. Len(chan') <= PendingRecords => TypeOK'
  BY <1>1, <1>2, TypeFields DEF TypeInv, TypeOK
<1>4. CapacityHeld'
  BY <1>1 DEF ListenerInv, CapacityHeld, observed, Sharing, Holding
<1>5. OverloadInv'
  <2>1. Covered' = Covered
    BY <1>1 DEF Covered, LastReported, Counted
  <2>2. QED
    BY <1>1, <1>2, <2>1, OverloadOther DEF ListenerInv
<1>6. QED
  BY <1>1, <1>2, <1>3, <1>4, <1>5, SendPreserves DEF Counted

\* The overload record counts from what was reported.
LEMMA OverloadShape ==
    ASSUME TypeInv
    PROVE  /\ Overload \in Events /\ Overload.kind = "Overload"
           /\ Overload.totalDropped - Overload.droppedSinceLast = droppedReported
           /\ Overload.totalDropped = dropped
<1>1. dropped \in Nat /\ droppedReported \in Nat
  BY TypeFields
<1>2. QED
  BY <1>1 DEF Overload, Events

LEMMA ReportPreserves ==
    ASSUME ListenerInv, Report
    PROVE  ListenerInv'
<1>1. /\ pc = "Report" /\ pc' = "Accept" /\ TryEmit(Overload) /\ droppedReported' = dropped
      /\ active' = active /\ accepted' = accepted /\ dropped' = dropped /\ summary' = summary
      /\ reason' = reason /\ workers' = workers
      /\ error' = error /\ workersAbandoned' = workersAbandoned
      /\ finalDropped' = finalDropped /\ stop' = stop
      /\ config' = config /\ elapsed' = elapsed
      /\ sink' = sink /\ sinkFailed' = sinkFailed /\ sinkError' = sinkError /\ taken' = taken
  BY DEF Report, Goto, sinkVars
<1>2. TypeInv
  BY DEF ListenerInv
<1>3. CapacityHeld'
  BY <1>1 DEF ListenerInv, CapacityHeld, observed, Sharing, Holding
<1>4. Covered = droppedReported /\ Covered' = dropped
  BY <1>1 DEF Covered, LastReported, Counted
<1>5. CASE CanSend /\ Send(Overload) /\ UNCHANGED recordsDropped
  <2>1. chan' = Append(chan, Overload) /\ attempts' = attempts + 1
        /\ recordsDropped' = recordsDropped
    BY <1>5 DEF Send
  <2>2. Len(chan') <= PendingRecords => TypeOK'
    BY <1>1, <1>2, <2>1, TypeFields DEF TypeInv, TypeOK
  <2>3. OverloadInv'
    BY <1>1, <1>2, <1>4, <2>1, TypeFields, OverloadShape, OverloadSent DEF ListenerInv
  <2>4. QED
    BY <1>1, <1>2, <1>3, <1>5, <2>1, <2>2, <2>3, OverloadShape, SendPreserves DEF Counted
<1>6. CASE /\ ~CanSend /\ attempts' = attempts + 1
           /\ recordsDropped' = recordsDropped + 1 /\ UNCHANGED chan
  <2>1. TypeOK'
    BY <1>1, <1>2, <1>6, TypeFields DEF TypeInv, TypeOK
  <2>2. attempts' - recordsDropped' - workers'["Counting"]
              = attempts - recordsDropped - workers["Counting"]
    BY <1>1, <1>2, <1>6, TypeFields
  <2>3. Covered' \in Nat /\ Covered <= Covered'
    BY <1>2, <1>4, TypeFields
  <2>4. QED
    BY <1>1, <1>3, <1>6, <2>1, <2>2, <2>3, DropPreserves DEF Summarized, LastReported, Counted
<1>7. QED
  BY <1>1, <1>5, <1>6 DEF TryEmit

LEMMA LastReportPreserves ==
    ASSUME ListenerInv, LastReport
    PROVE  ListenerInv'
<1>1. /\ pc = "LastReport" /\ pc' = "ReadError" /\ droppedReported' = droppedReported
      /\ IF dropped > droppedReported THEN TryEmit(Overload)
         ELSE UNCHANGED <<chan, recordsDropped, attempts>>
      /\ active' = active /\ accepted' = accepted /\ dropped' = dropped /\ summary' = summary
      /\ reason' = reason /\ workers' = workers
      /\ error' = error /\ workersAbandoned' = workersAbandoned
      /\ finalDropped' = finalDropped /\ stop' = stop
      /\ config' = config /\ elapsed' = elapsed
      /\ sink' = sink /\ sinkFailed' = sinkFailed /\ sinkError' = sinkError /\ taken' = taken
  BY DEF LastReport, Goto, locals, sinkVars
<1>2. TypeInv
  BY DEF ListenerInv
<1>3. CapacityHeld'
  BY <1>1 DEF ListenerInv, CapacityHeld, observed, Sharing, Holding
<1>4. Covered = droppedReported /\ Covered' = dropped
  BY <1>1 DEF Covered, LastReported, Counted
<1>5. CASE dropped > droppedReported /\ CanSend /\ Send(Overload) /\ UNCHANGED recordsDropped
  <2>1. chan' = Append(chan, Overload) /\ attempts' = attempts + 1
        /\ recordsDropped' = recordsDropped
    BY <1>5 DEF Send
  <2>2. Len(chan') <= PendingRecords => TypeOK'
    BY <1>1, <1>2, <2>1, TypeFields DEF TypeInv, TypeOK
  <2>3. OverloadInv'
    BY <1>1, <1>2, <1>4, <2>1, TypeFields, OverloadShape, OverloadSent DEF ListenerInv
  <2>4. QED
    BY <1>1, <1>2, <1>3, <1>5, <2>1, <2>2, <2>3, OverloadShape, SendPreserves
<1>6. CASE /\ dropped > droppedReported /\ ~CanSend /\ attempts' = attempts + 1
           /\ recordsDropped' = recordsDropped + 1 /\ UNCHANGED chan
  <2>1. TypeOK'
    BY <1>1, <1>2, <1>6, TypeFields DEF TypeInv, TypeOK
  <2>2. attempts' - recordsDropped' - workers'["Counting"]
              = attempts - recordsDropped - workers["Counting"]
    BY <1>1, <1>2, <1>6, TypeFields
  <2>3. Covered' \in Nat /\ Covered <= Covered'
    BY <1>2, <1>4, TypeFields
  <2>4. QED
    BY <1>1, <1>3, <1>6, <2>1, <2>2, <2>3, DropPreserves DEF Summarized, LastReported, Counted
<1>7. CASE ~(dropped > droppedReported) /\ UNCHANGED <<chan, recordsDropped, attempts>>
  <2>1. TypeOK'
    BY <1>1, <1>2, <1>7, TypeFields DEF TypeInv, TypeOK
  <2>2. attempts' - recordsDropped' - workers'["Counting"]
              = attempts - recordsDropped - workers["Counting"]
    BY <1>1, <1>7
  <2>3. recordsDropped' = recordsDropped /\ Covered' = Covered
    BY <1>2, <1>4, <1>7, TypeFields
  <2>4. QED
    BY <1>1, <1>3, <1>7, <2>1, <2>2, <2>3, DropPreserves DEF Summarized, LastReported, Counted
<1>8. QED
  BY <1>1, <1>5, <1>6, <1>7 DEF TryEmit

LEMMA QueueStoppedPreserves ==
    ASSUME ListenerInv, QueueStopped
    PROVE  ListenerInv'
<1>1. /\ pc = "QueueStopped" /\ pc' = "ReadDropped" /\ CanSend
      /\ chan' = Append(chan, Stopped) /\ attempts' = attempts + 1
      /\ active' = active /\ accepted' = accepted /\ dropped' = dropped /\ summary' = summary
      /\ droppedReported' = droppedReported /\ reason' = reason /\ workers' = workers
      /\ error' = error /\ workersAbandoned' = workersAbandoned
      /\ finalDropped' = finalDropped /\ stop' = stop /\ recordsDropped' = recordsDropped
      /\ config' = config /\ elapsed' = elapsed
      /\ sink' = sink /\ sinkFailed' = sinkFailed /\ sinkError' = sinkError /\ taken' = taken
  BY DEF QueueStopped, Goto, Send, locals, sinkVars
<1>2. TypeInv /\ summary \in Summaries
  BY <1>1 DEF ListenerInv, TypeInv, SummaryInv, Summarized, LastReported, Counted
<1>3. Stopped \in Events /\ Stopped.kind = "Stopped" /\ Stopped.summary = summary
  BY <1>2 DEF Stopped, Events
<1>4. /\ Len(log') = Len(log) + 1 /\ Len(log) \in Nat /\ DOMAIN log = 1..Len(log)
      /\ DOMAIN log' = 1..(Len(log) + 1) /\ log'[Len(log) + 1] = Stopped
      /\ \A k \in DOMAIN log : log'[k] = log[k]
      /\ chan' \in Seq(Events) /\ taken' \in Seq(Events) /\ Len(chan') = Len(chan) + 1
  BY <1>1, <1>2, <1>3, LogSend, LogTyped
<1>5. Len(chan') <= PendingRecords
  <2>1. Len(chan) \in Nat /\ PendingRecords \in Nat
    BY LenProperties, ListenerConfig DEF ListenerInv, TypeInv
  <2>2. QED
    BY <1>1, <1>4, <2>1 DEF CanSend
<1>6. TypeInv'
  BY <1>1, <1>2, <1>4, <1>5, TypeFields DEF TypeInv, TypeOK, NoSummary
<1>7. CapacityHeld' /\ BelowLimit' /\ NoneAbandoned'
  BY <1>1 DEF ListenerInv, CapacityHeld, BelowLimit, NoneAbandoned, observed, Sharing, Holding,
              Counted
<1>8. NothingLostSilently'
  <2>1. attempts = Len(log) + recordsDropped + workers["Counting"]
    BY DEF ListenerInv, NothingLostSilently
  <2>2. recordsDropped \in Nat /\ workers["Counting"] \in Nat
    BY <1>2, TypeFields
  <2>3. QED
    BY <1>1, <1>4, <2>1, <2>2 DEF NothingLostSilently
<1>9. SummaryInv'
  BY <1>1 DEF ListenerInv, SummaryInv, Summarized, LastReported, Counted, NoSummary
<1>10. StoppedInv'
  <2>1. \A k \in DOMAIN log : log[k].kind # "Stopped"
    BY <1>1 DEF ListenerInv, StoppedInv
  <2>2. workersAbandoned = 0 => recordsDropped = summary.recordsDropped
    BY <1>1 DEF ListenerInv, SummaryInv
  <2>3. \A k \in DOMAIN log' : log'[k].kind = "Stopped" => k = Len(log) + 1
    BY <1>4, <2>1
  <2>4. QED
    BY <1>1, <1>3, <1>4, <2>2, <2>3 DEF StoppedInv
<1>11. OverloadInv'
  <2>1. Covered' = Covered
    BY <1>1 DEF Covered, LastReported, Counted
  <2>2. QED
    BY <1>1, <1>2, <1>3, <2>1, OverloadOther DEF ListenerInv
<1>12. QED
  BY <1>6, <1>7, <1>8, <1>9, <1>10, <1>11 DEF ListenerInv

LEMMA GiveUpPreserves ==
    ASSUME ListenerInv, GiveUp
    PROVE  ListenerInv'
<1>1. /\ pc = "QueueStopped" /\ pc' = "ReadDropped" /\ attempts' = attempts + 1
      /\ recordsDropped' = recordsDropped + 1 /\ chan' = chan
      /\ active' = active /\ accepted' = accepted /\ dropped' = dropped /\ summary' = summary
      /\ droppedReported' = droppedReported /\ reason' = reason /\ workers' = workers
      /\ error' = error /\ workersAbandoned' = workersAbandoned
      /\ finalDropped' = finalDropped /\ stop' = stop
      /\ config' = config /\ elapsed' = elapsed
      /\ sink' = sink /\ sinkFailed' = sinkFailed /\ sinkError' = sinkError /\ taken' = taken
  BY DEF GiveUp, Goto, locals, sinkVars
<1>2. TypeInv
  BY DEF ListenerInv
<1>3. TypeOK'
  BY <1>1, <1>2, TypeFields DEF TypeInv, TypeOK
<1>4. CapacityHeld'
  BY <1>1 DEF ListenerInv, CapacityHeld, observed, Sharing, Holding
<1>5. attempts' - recordsDropped' - workers'["Counting"]
         = attempts - recordsDropped - workers["Counting"]
  BY <1>1, <1>2, TypeFields
<1>6. Covered' \in Nat /\ Covered <= Covered'
  BY <1>1, <1>2, TypeFields DEF Covered, LastReported, Counted
<1>7. QED
  BY <1>1, <1>3, <1>4, <1>5, <1>6, DropPreserves

\* A worker that still holds capacity was not waited for: then run counts it
\* as abandoned, and the summary promises nothing.
LEMMA HolderAbandoned ==
    ASSUME ListenerInv, Holding > 0
    PROVE  pc \in Counted => workersAbandoned # 0
  BY DEF ListenerInv, CapacityHeld, NoneAbandoned

LEMMA QueueRecordPreserves ==
    ASSUME ListenerInv, QueueRecord
    PROVE  ListenerInv'
<1>1. /\ pc' = pc /\ recordsDropped' = recordsDropped
      /\ active' = active /\ accepted' = accepted /\ dropped' = dropped /\ summary' = summary
      /\ droppedReported' = droppedReported /\ reason' = reason
      /\ error' = error /\ workersAbandoned' = workersAbandoned
      /\ finalDropped' = finalDropped /\ stop' = stop
      /\ config' = config /\ elapsed' = elapsed /\ attempts' = attempts + 1
      /\ sink' = sink /\ sinkFailed' = sinkFailed /\ sinkError' = sinkError /\ taken' = taken
      /\ workers["Observing"] > 0
  BY DEF QueueRecord, Move, Send, locals, sinkVars
<1>2. TypeInv /\ workers \in [Places -> Nat]
  BY DEF ListenerInv, TypeInv, TypeOK
<1>3. pc \in Counted => workersAbandoned # 0
  <2>1. Holding > 0
    BY <1>1, <1>2, TypeFields DEF Holding
  <2>2. QED
    BY <2>1, HolderAbandoned
<1>4. Covered' = Covered
  BY <1>1 DEF Covered
<1>5. /\ active = workers["Observing"] + workers["Counting"] + workers["Releasing"]
      /\ active <= config.max_concurrent /\ accepted <= config.max_connections
      /\ accepted = workers["Observing"] + workers["Counting"] + workers["Releasing"]
                     + workers["Exiting"] + workers["Gone"] + dropped
  BY DEF ListenerInv, CapacityHeld, observed, Sharing, Holding
<1>6. CASE /\ workers' = [workers EXCEPT !["Observing"] = @ - 1, !["Releasing"] = @ + 1]
           /\ CanSend /\ chan' = Append(chan, Observation)
  <2>1. /\ workers' \in [Places -> Nat]
        /\ workers'["Observing"] = workers["Observing"] - 1
        /\ workers'["Releasing"] = workers["Releasing"] + 1
        /\ workers'["Counting"] = workers["Counting"]
        /\ workers'["Exiting"] = workers["Exiting"] /\ workers'["Gone"] = workers["Gone"]
    BY <1>1, <1>2, <1>6, MoveShape DEF Places
  <2>2. Len(chan') <= PendingRecords => TypeOK'
    BY <1>1, <1>2, <2>1, TypeFields DEF TypeInv, TypeOK
  <2>3. CapacityHeld'
    <3>1. active = workers'["Observing"] + workers'["Counting"] + workers'["Releasing"]
      BY <1>2, <1>5, <2>1, TypeFields
    <3>2. accepted = workers'["Observing"] + workers'["Counting"] + workers'["Releasing"]
                     + workers'["Exiting"] + workers'["Gone"] + dropped
      BY <1>2, <1>5, <2>1, TypeFields
    <3>3. QED
      BY <1>1, <1>5, <3>1, <3>2 DEF CapacityHeld, observed, Sharing, Holding
  <2>4. OverloadInv'
    BY <1>1, <1>2, <1>4, <1>6, EventShape, OverloadOther DEF ListenerInv
  <2>5. QED
    BY <1>1, <1>3, <1>6, <2>1, <2>2, <2>3, <2>4, EventShape, SendPreserves
<1>7. CASE /\ workers' = [workers EXCEPT !["Observing"] = @ - 1, !["Counting"] = @ + 1]
           /\ chan' = chan
  <2>1. /\ workers' \in [Places -> Nat]
        /\ workers'["Observing"] = workers["Observing"] - 1
        /\ workers'["Counting"] = workers["Counting"] + 1
        /\ workers'["Releasing"] = workers["Releasing"]
        /\ workers'["Exiting"] = workers["Exiting"] /\ workers'["Gone"] = workers["Gone"]
    BY <1>1, <1>2, <1>7, TypeFields DEF Places
  <2>2. TypeOK'
    BY <1>1, <1>2, <1>7, <2>1, TypeFields DEF TypeInv, TypeOK
  <2>3. CapacityHeld'
    <3>1. active = workers'["Observing"] + workers'["Counting"] + workers'["Releasing"]
      BY <1>2, <1>5, <2>1, TypeFields
    <3>2. accepted = workers'["Observing"] + workers'["Counting"] + workers'["Releasing"]
                     + workers'["Exiting"] + workers'["Gone"] + dropped
      BY <1>2, <1>5, <2>1, TypeFields
    <3>3. QED
      BY <1>1, <1>5, <3>1, <3>2 DEF CapacityHeld, observed, Sharing, Holding
  <2>4. attempts' - recordsDropped' - workers'["Counting"]
           = attempts - recordsDropped - workers["Counting"]
    BY <1>1, <1>2, <2>1, TypeFields
  <2>5. pc \in Summarized => pc \in Counted
    BY DEF Summarized, LastReported, Counted
  <2>6. QED
    BY <1>1, <1>3, <1>4, <1>7, <2>2, <2>3, <2>4, <2>5, DropPreserves
<1>8. QED
  BY <1>6, <1>7 DEF QueueRecord, Move, Send

LEMMA CountDropPreserves ==
    ASSUME ListenerInv, CountDrop
    PROVE  ListenerInv'
<1>1. /\ pc' = pc /\ recordsDropped' = recordsDropped + 1 /\ chan' = chan
      /\ active' = active /\ accepted' = accepted /\ dropped' = dropped /\ summary' = summary
      /\ droppedReported' = droppedReported /\ reason' = reason
      /\ error' = error /\ workersAbandoned' = workersAbandoned
      /\ finalDropped' = finalDropped /\ stop' = stop
      /\ config' = config /\ elapsed' = elapsed /\ attempts' = attempts
      /\ sink' = sink /\ sinkFailed' = sinkFailed /\ sinkError' = sinkError /\ taken' = taken
      /\ workers["Counting"] > 0
      /\ workers' = [workers EXCEPT !["Counting"] = @ - 1, !["Releasing"] = @ + 1]
  BY DEF CountDrop, Move, locals, sinkVars
<1>2. TypeInv /\ workers \in [Places -> Nat]
  BY DEF ListenerInv, TypeInv, TypeOK
<1>3. pc \in Counted => workersAbandoned # 0
  <2>1. Holding > 0
    BY <1>1, <1>2, TypeFields DEF Holding
  <2>2. QED
    BY <2>1, HolderAbandoned
<1>4. /\ workers' \in [Places -> Nat]
      /\ workers'["Counting"] = workers["Counting"] - 1
      /\ workers'["Releasing"] = workers["Releasing"] + 1
      /\ workers'["Observing"] = workers["Observing"]
      /\ workers'["Exiting"] = workers["Exiting"] /\ workers'["Gone"] = workers["Gone"]
  BY <1>1, <1>2, TypeFields DEF Places
<1>5. TypeOK'
  BY <1>1, <1>2, <1>4, TypeFields DEF TypeInv, TypeOK
<1>6. CapacityHeld'
  <2>1. /\ active = workers["Observing"] + workers["Counting"] + workers["Releasing"]
        /\ active <= config.max_concurrent /\ accepted <= config.max_connections
        /\ accepted = workers["Observing"] + workers["Counting"] + workers["Releasing"]
                     + workers["Exiting"] + workers["Gone"] + dropped
    BY DEF ListenerInv, CapacityHeld, observed, Sharing, Holding
  <2>2. active = workers'["Observing"] + workers'["Counting"] + workers'["Releasing"]
    BY <1>2, <1>4, <2>1, TypeFields
  <2>3. accepted = workers'["Observing"] + workers'["Counting"] + workers'["Releasing"]
                     + workers'["Exiting"] + workers'["Gone"] + dropped
    BY <1>2, <1>4, <2>1, TypeFields
  <2>4. QED
    BY <1>1, <2>1, <2>2, <2>3 DEF CapacityHeld, observed, Sharing, Holding
<1>7. attempts' - recordsDropped' - workers'["Counting"]
         = attempts - recordsDropped - workers["Counting"]
  BY <1>1, <1>2, <1>4, TypeFields
<1>8. pc \in Summarized => pc \in Counted
  BY DEF Summarized, LastReported, Counted
<1>9. Covered' \in Nat /\ Covered <= Covered'
  BY <1>1, <1>2, TypeFields DEF Covered
<1>10. QED
  BY <1>1, <1>3, <1>5, <1>6, <1>7, <1>8, <1>9, DropPreserves

----------------------------------------------------------------------------
(* The theorems.                                                           *)

LEMMA InitInv == Init => ListenerInv
<1> SUFFICES ASSUME Init
             PROVE  ListenerInv
  OBVIOUS
<1>1. config \in Configs /\ config.max_concurrent \in Nat /\ config.max_connections \in Nat
  BY ListenerConfig DEF Init
<1>2. chan = <<>> /\ taken = <<>> /\ log = <<>> /\ Len(log) = 0 /\ DOMAIN log = {}
  BY DEF Init, log
<1>3. /\ workers \in [Places -> Nat] /\ workers["Observing"] = 0 /\ workers["Counting"] = 0
      /\ workers["Releasing"] = 0 /\ workers["Exiting"] = 0 /\ workers["Gone"] = 0
  BY DEF Init, Places
<1>4. TypeInv
  <2>1. Len(chan) = 0 /\ PendingRecords \in Nat
    BY <1>2, ListenerConfig
  <2>2. TypeOK
    <3>1. {stop, elapsed, sinkFailed} \subseteq BOOLEAN
      BY Zenon DEF Init
    <3>2. accepted \in Nat /\ dropped \in 0..accepted /\ droppedReported \in 0..dropped
      BY DEF Init
    <3>3. QED
      BY <1>3, <2>1, <3>1, <3>2 DEF Init, TypeOK, Error
  <2>3. chan \in Seq(Events) /\ taken \in Seq(Events)
    BY <1>2
  <2>4. QED
    BY <1>1, <2>2, <2>3 DEF Init, TypeInv
<1>5. CapacityHeld /\ BelowLimit /\ NoneAbandoned /\ NothingLostSilently
  BY <1>1, <1>2, <1>3 DEF Init, CapacityHeld, BelowLimit, NoneAbandoned, NothingLostSilently,
                          observed, Sharing, Holding
<1>6. SummaryInv /\ StoppedInv
  BY <1>2 DEF Init, SummaryInv, StoppedInv, Summarized, LastReported, Counted
<1>7. OverloadInv
  <2>1. Overloads = {} /\ Gaps = {} /\ Cardinality(Gaps) = 0
    BY <1>2, FS_EmptySet DEF Overloads, Gaps
  <2>2. Pending = 0
    BY <2>1 DEF Init, Pending, Reported, Covered, LastReported, Counted
  <2>3. QED
    BY <2>1, <2>2 DEF Init, OverloadInv
<1>8. QED
  BY <1>4, <1>5, <1>6, <1>7 DEF ListenerInv

LEMMA NextInv ==
    ASSUME ListenerInv, [Next]_vars
    PROVE  ListenerInv'
<1>1. CASE UNCHANGED vars
  <2>1. /\ pc' = pc /\ workersAbandoned' = workersAbandoned
        /\ reason' = reason /\ error' = error /\ stop' = stop /\ elapsed' = elapsed
        /\ accepted' = accepted /\ dropped' = dropped /\ droppedReported' = droppedReported
        /\ summary' = summary /\ finalDropped' = finalDropped /\ active' = active
        /\ recordsDropped' = recordsDropped /\ chan' = chan /\ taken' = taken
        /\ config' = config /\ workers' = workers /\ attempts' = attempts
        /\ sink' = sink /\ sinkFailed' = sinkFailed /\ sinkError' = sinkError
    BY <1>1 DEF vars, locals, shared, sinkVars
  <2>2. TypeOK'
    BY <2>1 DEF ListenerInv, TypeInv, TypeOK
  <2>3. /\ pc \in {"Report", "Accept"} => accepted < config.max_connections
        /\ pc \in Counted /\ workersAbandoned = 0 => active = 0
    BY DEF ListenerInv, NoneAbandoned, BelowLimit
  <2>4. QED
    BY <2>1, <2>2, <2>3, QuietPreserves
<1>2. CASE Run
  BY <1>2, SendStartedPreserves, CheckStopPreserves, CheckSinkPreserves, ReportPreserves,
     LoopPreserves, AdmitPreserves, DropAtCapacityPreserves, StoppingPreserves,
     CountAbandonedPreserves, LastReportPreserves, ReadErrorPreserves, SummarizePreserves,
     QueueStoppedPreserves, GiveUpPreserves, ReadDroppedPreserves DEF Run
<1>3. CASE Work
  BY <1>3, QueueRecordPreserves, CountDropPreserves, ReleasePreserves, ExitPreserves DEF Work
<1>4. CASE SinkStep \/ RequestStop \/ RunForElapses
  BY <1>4, ReceivePreserves, OthersPreserve DEF SinkStep
<1>5. QED
  BY <1>1, <1>2, <1>3, <1>4 DEF Next

\* The invariant of the run, its workers and its sink thread.
THEOREM Invariance == Spec => []ListenerInv
<1>1. ListenerInv /\ [Next]_vars => ListenerInv'
  BY NextInv
<1>2. QED
  BY <1>1, InitInv, PTL DEF Spec

LEMMA NoneCounting ==
    ASSUME ListenerInv, active = 0
    PROVE  workers["Counting"] = 0
<1>1. 0 = workers["Observing"] + workers["Counting"] + workers["Releasing"]
  BY DEF ListenerInv, CapacityHeld, Holding
<1>2. /\ workers["Observing"] \in Nat /\ workers["Counting"] \in Nat
      /\ workers["Releasing"] \in Nat
  BY TypeFields DEF ListenerInv
<1>3. QED
  BY <1>1, <1>2

LEMMA InvAccounts == ListenerInv => RunAccounted
<1> SUFFICES ASSUME ListenerInv
             PROVE  StoppedAccountsForAll
  BY DEF RunAccounted, ListenerInv, TypeInv
<1> SUFFICES ASSUME NEW k \in DOMAIN log, log[k].kind = "Stopped", workersAbandoned = 0
             PROVE  /\ k = Len(log)
                    /\ attempts = k + log[k].summary.recordsDropped
                    /\ pc \in {"AwaitSink", "Returned"} =>
                          finalDropped = log[k].summary.recordsDropped
  BY DEF StoppedAccountsForAll
<1>1. /\ pc \in {"ReadDropped", "AwaitSink", "Returned"} /\ log[k].summary = summary
      /\ k = Len(log) /\ recordsDropped = summary.recordsDropped
      /\ pc # "ReadDropped" => finalDropped = recordsDropped
  BY DEF ListenerInv, StoppedInv
<1>2. active = 0
  BY <1>1 DEF ListenerInv, NoneAbandoned, Counted
<1>3. TypeInv /\ Len(log) \in Nat
  BY LogTyped DEF ListenerInv
<1>4. workers["Counting"] = 0
  BY <1>2, NoneCounting
<1>5. attempts = Len(log) + recordsDropped
  BY <1>3, <1>4, TypeFields DEF ListenerInv, NothingLostSilently
<1>6. QED
  BY <1>1, <1>5

\* Everything Listener::run takes in is accounted for, at every moment and in
\* the summary: capacity, connections and records, whatever the workers, the
\* sink and the clock do, as long as no worker had to be abandoned.
THEOREM AccountsCorrect == Spec => []RunAccounted
  BY Invariance, InvAccounts, PTL

LEMMA InvOverload == ListenerInv => OverloadExact
<1> SUFFICES ASSUME ListenerInv
             PROVE  OverloadExact
  OBVIOUS
<1> DEFINE Missing == IF summary # NoSummary /\ ~Reported(Len(log) + 1, dropped) THEN 1 ELSE 0
<1>1. /\ \A j, k \in Overloads : j < k => log[j].totalDropped <= Base(k)
      /\ Cardinality(Gaps) + Pending <= recordsDropped
  BY DEF ListenerInv, OverloadInv
<1>2. Cardinality(Gaps) \in Nat /\ Pending \in {0, 1} /\ recordsDropped \in Nat
  BY OverloadTyped DEF ListenerInv
<1>3. summary # NoSummary => Covered = dropped
  BY DEF ListenerInv, SummaryInv, Covered, Summarized
<1>4. Missing <= Pending /\ Missing \in {0, 1}
  BY <1>3 DEF Pending
<1> HIDE DEF Missing
<1>5. Cardinality(Gaps) + Missing <= recordsDropped
  BY <1>1, <1>2, <1>4
<1>6. QED
  BY <1>1, <1>5 DEF OverloadExact, Missing

\* No connection dropped at capacity is in two overload records, and every
\* gap in what they cover was paid for by a record counted in
\* records_dropped, however full the channel was (emit_overload, try_emit).
THEOREM OverloadCorrect == Spec => []OverloadExact
  BY Invariance, InvOverload, PTL

=============================================================================
