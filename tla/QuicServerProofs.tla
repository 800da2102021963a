------------------------- MODULE QuicServerProofs -------------------------
(***************************************************************************)
(* Proofs about ServerCore (QuicServerCore) and its use by DiagServer::run *)
(* (QuicServer): every handshake attempt is decided exactly once and no    *)
(* ClientHello is attributed to another connection, and the Stopped record *)
(* accounts for all of them, for every capacity and channel bound and any  *)
(* number of connections.                                                  *)
(***************************************************************************)
EXTENDS QuicServer, FiniteSetTheorems, TLAPS

\* Two entries of the map never stand for one attempt, and no attempt has a
\* number that has not been given out.
IdsInv ==
    /\ \A j, k \in DOMAIN attempts : attempts[j].id = attempts[k].id => j = k
    /\ \A k \in DOMAIN attempts : attempts[k].id <= stats.accepted
    /\ stats.accepted <= stats.incoming
    /\ stats.incoming <= MaxIncoming

\* Between two calls the resolver's slot is empty.
SlotInv == slot = NoHello

CoreInv == CoreTypeOK /\ IdsInv /\ SlotInv /\ DecidedOnce /\ HelloBelongs

----------------------------------------------------------------------------
(* What a handler makes of an attempt.                                     *)

State == [att : Attempt, stats : Stats, pending : Seq(Observations), recorded : [Ids -> Nat]]

\* The attempt b, still or already decided, is left so.
Same(b, r) ==
    /\ r.att.id = b.id /\ r.att.offered = b.offered /\ r.att.decided = b.decided
    /\ r.att.conn = b.conn
    /\ r.stats = stats /\ r.pending = pending /\ r.recorded = recorded

\* The counter of an outcome; shutdown counts outside the stats.
Tallied(which) == IF which = "abandoned" THEN stats ELSE [stats EXCEPT ![which] = @ + 1]

\* The attempt b is decided, with one observation and one count.
Done(b, r, which) ==
    /\ ~b.decided /\ r.att.decided /\ r.att.conn = "closed"
    /\ r.att.id = b.id /\ r.att.offered = b.offered
    /\ r.att.outcome = "Completed" => b.offered # NoHello
    /\ r.stats = Tallied(which)
    /\ r.pending = Append(pending, Observation(r.att))
    /\ r.recorded = [recorded EXCEPT ![b.id] = @ + 1]

LEMMA DecideFields ==
    ASSUME NEW s \in State, NEW o \in Outcome, NEW c \in CloseReason
    PROVE  LET d == Decide(s, o, c) IN
           /\ d \in State
           /\ d.att.decided /\ d.att.id = s.att.id /\ d.att.offered = s.att.offered
           /\ d.att.conn = s.att.conn /\ d.att.outcome = o /\ d.att.close = c
           /\ d.stats = s.stats
           /\ d.pending = Append(s.pending, Observation(d.att))
           /\ d.recorded = [s.recorded EXCEPT ![s.att.id] = @ + 1]
<1> DEFINE a == [s.att EXCEPT !.decided = TRUE, !.due = FALSE, !.outcome = o, !.close = c]
<1>1. s.att \in Attempt /\ s.stats \in Stats /\ s.pending \in Seq(Observations)
      /\ s.recorded \in [Ids -> Nat]
  BY DEF State
<1>2. /\ a \in Attempt /\ a.decided /\ a.id = s.att.id /\ a.offered = s.att.offered
      /\ a.conn = s.att.conn /\ a.outcome = o /\ a.close = c
  BY <1>1 DEF Attempt
<1> HIDE DEF a
<1>3. Observation(a) \in Observations
  BY <1>2 DEF Observation, Observations, Attempt
<1>4. Decide(s, o, c) = [s EXCEPT !.att = a, !.pending = Append(@, Observation(a)),
                                  !.recorded[a.id] = @ + 1]
  BY DEF Decide, a
<1>5. [s.recorded EXCEPT ![a.id] = @ + 1] \in [Ids -> Nat]
  BY <1>1, <1>2 DEF Attempt
<1>6. Append(s.pending, Observation(a)) \in Seq(Observations)
  BY <1>1, <1>3
<1>7. /\ Decide(s, o, c).att = a /\ Decide(s, o, c).stats = s.stats
      /\ Decide(s, o, c).pending = Append(s.pending, Observation(a))
      /\ Decide(s, o, c).recorded = [s.recorded EXCEPT ![a.id] = @ + 1]
      /\ Decide(s, o, c) \in State
  BY <1>1, <1>2, <1>4, <1>5, <1>6 DEF State
<1>8. QED
  BY <1>2, <1>7

LEMMA ClosedFields ==
    ASSUME NEW s \in State
    PROVE  LET d == Closed(s) IN
           /\ d \in State /\ d.att.conn = "closed"
           /\ d.att.decided = s.att.decided /\ d.att.id = s.att.id
           /\ d.att.offered = s.att.offered /\ d.att.outcome = s.att.outcome
           /\ d.att.close = s.att.close
           /\ d.stats = s.stats /\ d.pending = s.pending /\ d.recorded = s.recorded
  BY DEF Closed, State, Attempt

LEMMA CountedStats ==
    ASSUME NEW n \in Stats, NEW which \in {"completed", "failed", "timedOut"}
    PROVE  LET m == [n EXCEPT ![which] = @ + 1] IN
           /\ m \in Stats /\ m.incoming = n.incoming /\ m.accepted = n.accepted
           /\ m.retries = n.retries /\ m.dropped = n.dropped
           /\ m.completed + m.failed + m.timedOut = n.completed + n.failed + n.timedOut + 1
<1>1. CASE which = "completed"
  BY <1>1 DEF Stats
<1>2. CASE which = "failed"
  BY <1>2 DEF Stats
<1>3. CASE which = "timedOut"
  BY <1>3 DEF Stats
<1>4. QED
  BY <1>1, <1>2, <1>3

LEMMA CountedFields ==
    ASSUME NEW s \in State, NEW which \in {"completed", "failed", "timedOut"}
    PROVE  LET d == Counted(s, which) IN
           /\ d \in State /\ d.att = s.att /\ d.pending = s.pending
           /\ d.recorded = s.recorded
           /\ d.stats = [s.stats EXCEPT ![which] = @ + 1]
<1> DEFINE n == [s.stats EXCEPT ![which] = @ + 1]
<1>1. n \in Stats
  BY CountedStats DEF State
<1>2. Counted(s, which) = [s EXCEPT !.stats = n]
  BY DEF Counted, State
<1> HIDE DEF n
<1>3. /\ [s EXCEPT !.stats = n] \in State
      /\ [s EXCEPT !.stats = n].att = s.att /\ [s EXCEPT !.stats = n].pending = s.pending
      /\ [s EXCEPT !.stats = n].recorded = s.recorded /\ [s EXCEPT !.stats = n].stats = n
  BY <1>1 DEF State
<1>4. QED
  BY <1>2, <1>3 DEF n

LEMMA HandlingFields ==
    ASSUME CoreTypeOK, NEW b \in Attempt
    PROVE  /\ Handling(b) \in State /\ Handling(b).att = b /\ Handling(b).stats = stats
           /\ Handling(b).pending = pending /\ Handling(b).recorded = recorded
           /\ Same(b, Handling(b))
  BY DEF Handling, State, CoreTypeOK, Same

\* Closing what is decided changes neither kind of result.
LEMMA CloseResult ==
    ASSUME NEW b \in Attempt, NEW r \in State, r.att.conn = "closed"
    PROVE  /\ Closed(r) \in State
           /\ Same(b, r) => Same(b, Closed(r))
           /\ \A which : Done(b, r, which) => Done(b, Closed(r), which)
           /\ Closed(r).att.decided = r.att.decided
<1>1. Observation(Closed(r).att) = Observation(r.att)
  BY ClosedFields DEF Observation
<1>2. QED
  BY <1>1, ClosedFields DEF Same, Done

\* An attempt that is handled and found over is decided and closed.
LEMMA DecideResult ==
    ASSUME CoreTypeOK, NEW b \in Attempt, ~b.decided, NEW o \in Outcome, NEW c \in CloseReason,
           NEW which \in {"completed", "failed", "timedOut"},
           o = "Completed" => b.offered # NoHello
    PROVE  LET r == Closed(Decide(Counted(Handling(b), which), o, c)) IN
           r \in State /\ Done(b, r, which) /\ r.att.decided
<1> DEFINE h == Handling(b)
           n == Counted(h, which)
           d == Decide(n, o, c)
           r == Closed(d)
<1>1. h \in State /\ h.att = b /\ h.stats = stats /\ h.pending = pending /\ h.recorded = recorded
  BY HandlingFields
<1> HIDE DEF h
<1>2. /\ n \in State /\ n.att = b /\ n.pending = pending /\ n.recorded = recorded
      /\ n.stats = [stats EXCEPT ![which] = @ + 1]
  BY <1>1, CountedFields
<1> HIDE DEF n
<1>3. /\ d \in State
      /\ d.att.decided /\ d.att.id = b.id /\ d.att.offered = b.offered
      /\ d.att.outcome = o /\ d.stats = n.stats
      /\ d.pending = Append(pending, Observation(d.att))
      /\ d.recorded = [recorded EXCEPT ![b.id] = @ + 1]
  BY <1>2, DecideFields
<1> HIDE DEF d
<1>4. /\ r \in State /\ r.att.conn = "closed" /\ r.att.decided = d.att.decided
      /\ r.att.id = d.att.id /\ r.att.offered = d.att.offered /\ r.att.outcome = d.att.outcome
      /\ r.att.close = d.att.close
      /\ r.stats = d.stats /\ r.pending = d.pending /\ r.recorded = d.recorded
  BY <1>3, ClosedFields
<1> HIDE DEF r
<1>5. Observation(r.att) = Observation(d.att)
  BY <1>4 DEF Observation
<1>6. r.stats = Tallied(which)
  BY <1>2, <1>3, <1>4 DEF Tallied
<1>7. Done(b, r, which) /\ r.att.decided
  BY <1>3, <1>4, <1>5, <1>6 DEF Done
<1>8. QED
  BY <1>4, <1>7 DEF r, d, n, h

\* The same for shutdown, which counts nothing in the stats.
LEMMA ShutdownResult ==
    ASSUME CoreTypeOK, NEW b \in Attempt, ~b.decided
    PROVE  LET r == Closed(Decide(Handling(b), "Shutdown", "LocalShutdown")) IN
           r \in State /\ Done(b, r, "abandoned")
<1> DEFINE h == Handling(b)
           d == Decide(h, "Shutdown", "LocalShutdown")
           r == Closed(d)
<1>1. h \in State /\ h.att = b /\ h.stats = stats /\ h.pending = pending /\ h.recorded = recorded
  BY HandlingFields
<1> HIDE DEF h
<1>2. /\ d \in State
      /\ d.att.decided /\ d.att.id = b.id /\ d.att.offered = b.offered
      /\ d.att.outcome = "Shutdown" /\ d.stats = stats
      /\ d.pending = Append(pending, Observation(d.att))
      /\ d.recorded = [recorded EXCEPT ![b.id] = @ + 1]
  BY <1>1, DecideFields DEF Outcome, CloseReason
<1> HIDE DEF d
<1>3. /\ r \in State /\ r.att.conn = "closed" /\ r.att.decided = d.att.decided
      /\ r.att.id = d.att.id /\ r.att.offered = d.att.offered /\ r.att.outcome = d.att.outcome
      /\ r.att.close = d.att.close
      /\ r.stats = d.stats /\ r.pending = d.pending /\ r.recorded = d.recorded
  BY <1>2, ClosedFields
<1> HIDE DEF r
<1>4. Observation(r.att) = Observation(d.att)
  BY <1>3 DEF Observation
<1>5. Done(b, r, "abandoned")
  BY <1>2, <1>3, <1>4 DEF Done, Tallied
<1>6. QED
  BY <1>3, <1>5 DEF r, d, h

\* What may have become of the attempt b after a call of the core.
Result(b, r) == r \in State /\ (Same(b, r) \/ \E which \in {"completed", "failed", "timedOut"} :
                                                  Done(b, r, which))

LEMMA DriveResult ==
    ASSUME CoreTypeOK, NEW b \in Attempt, b.decided = (b.conn = "closed"), NEW ev,
           ev.connected \in BOOLEAN, ev.lost \in BOOLEAN,
           ev.connected => b.offered # NoHello
    PROVE  /\ Result(b, Drive(Handling(b), ev))
           /\ ev.lost => Drive(Handling(b), ev).att.decided
<1> DEFINE h == Handling(b)
           c == IF ev.connected THEN OnConnected(h) ELSE h
<1>1. h \in State /\ h.att = b /\ Same(b, h)
  BY HandlingFields
<1>2. Result(b, c) /\ (c.att.decided => c.att.conn = "closed")
  <2>1. CASE ~ev.connected
    BY <1>1, <2>1 DEF Result
  <2>2. CASE ev.connected /\ b.decided
    <3>1. c = Closed(h)
      BY <1>1, <2>2 DEF OnConnected
    <3>2. QED
      BY <1>1, <2>2, <3>1, CloseResult, ClosedFields DEF Result
  <2>3. CASE ev.connected /\ ~b.decided
    <3>1. c = Closed(Decide(Counted(h, "completed"), "Completed", "LocalAfterHandshake"))
      BY <1>1, <2>3 DEF OnConnected
    <3>2. c \in State /\ Done(b, c, "completed")
      BY <2>3, <3>1, DecideResult DEF Outcome, CloseReason
    <3>3. QED
      BY <3>2 DEF Result, Done
  <2>4. QED
    BY <2>1, <2>2, <2>3
<1>3. Drive(h, ev) = IF ev.lost THEN OnLost(c) ELSE c
  BY DEF Drive
<1>4. CASE ~ev.lost
  BY <1>2, <1>3, <1>4
<1>5. CASE ev.lost /\ c.att.decided
  <2>1. OnLost(c) = Closed(c)
    BY <1>5 DEF OnLost
  <2> HIDE DEF c
  <2>2. QED
    BY <1>2, <1>3, <1>5, <2>1, CloseResult DEF Result
<1>6. CASE ev.lost /\ ~c.att.decided
  <2>1. ~b.decided /\ ~ev.connected
    <3>1. Same(b, c)
      BY <1>2, <1>6 DEF Result, Done
    <3>2. ~b.decided
      BY <1>6, <3>1 DEF Same
    <3>3. CASE ev.connected
      <4>1. c = Closed(Decide(Counted(h, "completed"), "Completed", "LocalAfterHandshake"))
        BY <1>1, <3>2, <3>3 DEF OnConnected
      <4>2. c.att.decided
        BY <3>2, <3>3, <4>1, DecideResult DEF Outcome, CloseReason
      <4>3. QED
        BY <1>6, <4>2
    <3>4. QED
      BY <3>2, <3>3
  <2>2. Drive(h, ev) = Closed(Decide(Counted(h, "failed"), "Failed", "ConnectionLost"))
    BY <1>1, <1>3, <1>6, <2>1 DEF OnLost
  <2>3. Drive(h, ev) \in State /\ Done(b, Drive(h, ev), "failed")
    BY <2>1, <2>2, DecideResult DEF Outcome, CloseReason
  <2>4. QED
    BY <2>3 DEF Result, Done
<1>7. QED
  BY <1>4, <1>5, <1>6

----------------------------------------------------------------------------
(* What a handler leaves in the map.                                       *)

LEMMA UndecidedFinite ==
    ASSUME CoreTypeOK
    PROVE  IsFiniteSet(Undecided) /\ handshaking \in Nat
<1>1. IsFiniteSet(Keys)
  BY CoreConfig, FS_Interval DEF Keys
<1>2. Undecided \subseteq Keys
  BY DEF Undecided, CoreTypeOK
<1>3. IsFiniteSet(Undecided)
  BY <1>1, <1>2, FS_Subset
<1>4. QED
  BY <1>3, FS_CardinalityType DEF handshaking

\* The attempt of the map, with the ClientHello the call may have brought.
Handled(k, b) ==
    /\ b \in Attempt /\ k \in DOMAIN attempts
    /\ b.id = attempts[k].id /\ b.conn = attempts[k].conn /\ b.decided = attempts[k].decided
    /\ b.offered \in {NoHello, b.id}

LEMMA HandledItself ==
    ASSUME CoreInv, NEW k \in DOMAIN attempts
    PROVE  Handled(k, attempts[k])
  BY DEF Handled, CoreInv, CoreTypeOK, HelloBelongs

LEMMA HandledHello ==
    ASSUME CoreInv, NEW k \in DOMAIN attempts, NEW hello \in BOOLEAN
    PROVE  LET b == AttachHello(attempts[k], Resolved(attempts[k].id, hello)) IN
           Handled(k, b) /\ (hello \/ attempts[k].offered # NoHello => b.offered # NoHello)
<1> DEFINE a == attempts[k]
<1>1. a \in Attempt /\ a.offered \in {NoHello, a.id} /\ slot = NoHello /\ a.id # NoHello
  BY CoreConfig DEF CoreInv, CoreTypeOK, HelloBelongs, SlotInv, Attempt, Ids, NoHello
<1>2. CASE hello
  <2>1. AttachHello(a, Resolved(a.id, hello)) = [a EXCEPT !.offered = a.id]
    BY <1>1, <1>2 DEF AttachHello, Resolved
  <2>2. QED
    BY <1>1, <2>1 DEF Handled, Attempt
<1>3. CASE ~hello
  <2>1. AttachHello(a, Resolved(a.id, hello)) = a
    BY <1>1, <1>3 DEF AttachHello, Resolved
  <2>2. QED
    BY <1>1, <1>3, <2>1 DEF Handled
<1>4. QED
  BY <1>2, <1>3

\* What a call of the core may do to the observations: none, or one more, of
\* an attempt whose history counts it; the count of refused attempts grows.
Grows ==
    /\ stats'.dropped >= stats.dropped
    /\ \/ pending' = pending /\ recorded' = recorded
       \/ \E o \in Observations : /\ pending' = Append(pending, o)
                                  /\ recorded' = [recorded EXCEPT ![o.id] = @ + 1]

\* An entry that is decided or left so makes at most one observation.
LEMMA CommitGrows ==
    ASSUME CoreTypeOK, NEW k, NEW b, NEW r \in State, NEW ev, Commit(k, r, ev),
           Same(b, r) \/ \E which \in {"completed", "failed", "timedOut", "abandoned"} :
                            Done(b, r, which)
    PROVE  Grows
<1>1. stats' = r.stats /\ pending' = r.pending /\ recorded' = r.recorded
  BY DEF Commit
<1>2. stats \in Stats /\ stats.dropped \in Nat
  BY DEF CoreTypeOK, Stats
<1>3. CASE Same(b, r)
  BY <1>1, <1>2, <1>3 DEF Same, Grows
<1>4. CASE \E which \in {"completed", "failed", "timedOut", "abandoned"} : Done(b, r, which)
  <2>1. PICK which \in {"completed", "failed", "timedOut", "abandoned"} : Done(b, r, which)
    BY <1>4
  <2>2. stats'.dropped = stats.dropped
    <3>1. CASE which = "abandoned"
      BY <1>1, <2>1, <3>1 DEF Done, Tallied
    <3>2. CASE which # "abandoned"
      BY <1>1, <1>2, <2>1, <3>2, CountedStats DEF Done, Tallied
    <3>3. QED
      BY <3>1, <3>2
  <2>3. r.att \in Attempt
    BY DEF State
  <2>4. Observation(r.att) \in Observations /\ Observation(r.att).id = b.id
    BY <2>1, <2>3 DEF Observation, Observations, Attempt, Done
  <2>5. pending' = Append(pending, Observation(r.att)) /\ recorded' = [recorded EXCEPT ![b.id] = @ + 1]
    BY <1>1, <2>1 DEF Done
  <2>6. QED
    <3>1. \E o \in Observations : /\ pending' = Append(pending, o)
                                 /\ recorded' = [recorded EXCEPT ![o.id] = @ + 1]
      BY <2>4, <2>5, Zenon
    <3>2. stats'.dropped >= stats.dropped
      BY <1>2, <2>2
    <3>3. QED
      BY <3>1, <3>2 DEF Grows
<1>5. QED
  BY <1>3, <1>4

\* An entry that stays as decided as it was.
LEMMA CommitSame ==
    ASSUME CoreInv, NEW k \in Keys, NEW b, Handled(k, b), NEW r \in State, Same(b, r),
           NEW ev, ev.drained \in BOOLEAN, ev.drained => b.decided, Commit(k, r, ev),
           slot' = NoHello, accepting' \in BOOLEAN, abandoned' = abandoned
    PROVE  CoreInv'
<1>1. /\ k \in DOMAIN attempts /\ r.att \in Attempt /\ r.att.id = attempts[k].id
      /\ r.att.conn = attempts[k].conn /\ r.att.decided = attempts[k].decided
      /\ r.att.offered \in {NoHello, r.att.id} /\ (ev.drained => attempts[k].decided)
  BY DEF Handled, Same, State
<1>2. stats' = stats /\ pending' = pending /\ recorded' = recorded
  BY DEF Commit, Same
<1>3. /\ DOMAIN attempts' \subseteq DOMAIN attempts
      /\ \A j \in DOMAIN attempts \ {k} : j \in DOMAIN attempts' /\ attempts'[j] = attempts[j]
      /\ k \in DOMAIN attempts' => attempts'[k] = r.att
      /\ k \notin DOMAIN attempts' => attempts[k].decided
  BY <1>1 DEF Commit
<1>4. \A j \in DOMAIN attempts' : /\ attempts'[j] \in Attempt
                                  /\ attempts'[j].id = attempts[j].id
                                  /\ attempts'[j].conn = attempts[j].conn
                                  /\ attempts'[j].decided = attempts[j].decided
                                  /\ attempts'[j].offered \in {NoHello, attempts'[j].id}
  BY <1>1, <1>3 DEF CoreInv, CoreTypeOK, HelloBelongs
<1>5. Undecided' = Undecided
  BY <1>3, <1>4 DEF Undecided
<1>6. CoreTypeOK'
  BY <1>2, <1>3, <1>4 DEF CoreInv, CoreTypeOK, Ids, NoHello
<1>7. IdsInv'
  BY <1>2, <1>3, <1>4 DEF CoreInv, IdsInv
<1>8. DecidedOnce'
  <2>1. \A id : InProgress(id)' <=> InProgress(id)
    BY <1>4, <1>5 DEF InProgress, Undecided
  <2>2. handshaking' = handshaking
    BY <1>5 DEF handshaking
  <2>3. \A id \in Ids : recorded'[id] = IF id <= stats'.accepted /\ ~InProgress(id)' THEN 1 ELSE 0
    BY <1>2, <2>1 DEF CoreInv, DecidedOnce
  <2>4. \A j \in DOMAIN attempts' : attempts'[j].decided = (attempts'[j].conn = "closed")
    BY <1>3, <1>4 DEF CoreInv, DecidedOnce
  <2>5. QED
    BY <1>2, <2>2, <2>3, <2>4 DEF CoreInv, DecidedOnce
<1>9. HelloBelongs'
  BY <1>2, <1>4 DEF CoreInv, HelloBelongs
<1>10. QED
  BY <1>6, <1>7, <1>8, <1>9 DEF CoreInv, SlotInv

LEMMA CountShift ==
    ASSUME NEW m \in Stats, NEW l \in Stats, NEW x \in Nat, NEW y \in Nat,
           NEW g \in Nat, NEW h \in Nat, h = g + 1,
           l.completed + l.failed + l.timedOut + y = m.completed + m.failed + m.timedOut + x + 1
    PROVE  l.completed + l.failed + l.timedOut + y + g
              = m.completed + m.failed + m.timedOut + x + h
  BY DEF Stats

\* An entry that is decided now.
LEMMA CommitDone ==
    ASSUME CoreInv, NEW k \in Keys, NEW b, Handled(k, b), NEW r \in State,
           NEW which \in {"completed", "failed", "timedOut", "abandoned"}, Done(b, r, which),
           NEW ev, ev.drained \in BOOLEAN, Commit(k, r, ev),
           slot' = NoHello, accepting' \in BOOLEAN,
           abandoned' = IF which = "abandoned" THEN abandoned + 1 ELSE abandoned
    PROVE  CoreInv'
<1>1. /\ k \in DOMAIN attempts /\ r.att \in Attempt /\ r.att.id = attempts[k].id
      /\ r.att.conn = "closed" /\ r.att.decided /\ ~attempts[k].decided
      /\ r.att.offered \in {NoHello, r.att.id}
      /\ r.att.outcome = "Completed" => r.att.offered # NoHello
  BY DEF Handled, Done, State
<1> DEFINE n == attempts[k].id
<1>2. n \in Ids /\ n = b.id /\ n <= stats.accepted
  BY <1>1 DEF Attempt, CoreInv, IdsInv, Handled
<1>3. /\ stats' = Tallied(which)
      /\ pending' = Append(pending, Observation(r.att))
      /\ recorded' = [recorded EXCEPT ![n] = @ + 1]
  BY <1>2 DEF Commit, Done
<1>4. /\ stats' \in Stats /\ abandoned' \in Nat
      /\ stats'.incoming = stats.incoming /\ stats'.accepted = stats.accepted
      /\ stats'.retries = stats.retries /\ stats'.dropped = stats.dropped
      /\ stats'.completed + stats'.failed + stats'.timedOut + abandoned'
            = stats.completed + stats.failed + stats.timedOut + abandoned + 1
  <2>1. stats \in Stats /\ abandoned \in Nat
    BY DEF CoreInv, CoreTypeOK
  <2>2. CASE which = "abandoned"
    BY <1>3, <2>1, <2>2 DEF Tallied, Stats
  <2>3. CASE which # "abandoned"
    <3>1. /\ stats' \in Stats /\ stats'.incoming = stats.incoming
          /\ stats'.accepted = stats.accepted
          /\ stats'.retries = stats.retries /\ stats'.dropped = stats.dropped
          /\ stats'.completed + stats'.failed + stats'.timedOut
                = stats.completed + stats.failed + stats.timedOut + 1
      BY <1>3, <2>1, <2>3, CountedStats DEF Tallied
    <3>2. QED
      BY <2>1, <2>3, <3>1 DEF Stats
  <2>4. QED
    BY <2>2, <2>3
<1>5. /\ DOMAIN attempts' \subseteq DOMAIN attempts
      /\ \A j \in DOMAIN attempts \ {k} : j \in DOMAIN attempts' /\ attempts'[j] = attempts[j]
      /\ k \in DOMAIN attempts' => attempts'[k] = r.att
  BY <1>1 DEF Commit
<1>6. \A j \in DOMAIN attempts' : /\ attempts'[j] \in Attempt
                                  /\ attempts'[j].id = attempts[j].id
                                  /\ attempts'[j].decided = (attempts'[j].conn = "closed")
                                  /\ attempts'[j].offered \in {NoHello, attempts'[j].id}
  <2>1. \A j \in DOMAIN attempts : /\ attempts[j] \in Attempt
                                   /\ attempts[j].decided = (attempts[j].conn = "closed")
                                   /\ attempts[j].offered \in {NoHello, attempts[j].id}
    BY DEF CoreInv, CoreTypeOK, DecidedOnce, HelloBelongs
  <2>2. r.att.decided = TRUE /\ (r.att.conn = "closed") = TRUE
    BY <1>1 DEF Attempt
  <2>3. QED
    BY <1>1, <1>5, <2>1, <2>2, ZenonT(40)
<1>7. Undecided' = Undecided \ {k} /\ k \in Undecided
  BY <1>1, <1>5 DEF Undecided
<1>8. handshaking = handshaking' + 1 /\ handshaking' \in Nat
  <2>1. IsFiniteSet(Undecided) /\ handshaking \in Nat
    BY UndecidedFinite DEF CoreInv
  <2>2. Cardinality(Undecided \ {k}) = Cardinality(Undecided) - 1 /\ IsFiniteSet(Undecided \ {k})
    BY <1>7, <2>1, FS_RemoveElement
  <2>3. Cardinality(Undecided \ {k}) \in Nat
    BY <2>2, FS_CardinalityType
  <2>4. QED
    BY <1>7, <2>1, <2>2, <2>3 DEF handshaking
<1>9. Observation(r.att) \in Observations /\ Observation(r.att).offered = r.att.offered
      /\ Observation(r.att).id = r.att.id /\ Observation(r.att).outcome = r.att.outcome
  BY <1>1 DEF Observation, Observations, Attempt
<1>10. CoreTypeOK'
  <2>1. recorded' \in [Ids -> Nat]
    BY <1>2, <1>3 DEF CoreInv, CoreTypeOK
  <2>2. pending' \in Seq(Observations)
    BY <1>3, <1>9 DEF CoreInv, CoreTypeOK
  <2>3. QED
    BY <1>4, <1>5, <1>6, <2>1, <2>2 DEF CoreInv, CoreTypeOK, Ids, NoHello
<1>11. IdsInv'
  BY <1>4, <1>5, <1>6 DEF CoreInv, IdsInv
<1>12. DecidedOnce'
  <2>1. \A id : InProgress(id)' <=> InProgress(id) /\ id # n
    BY <1>1, <1>5, <1>6, <1>7 DEF InProgress, Undecided, CoreInv, IdsInv
  <2>2. InProgress(n)
    BY <1>7 DEF InProgress
  <2>3. recorded[n] = 0
    BY <1>2, <2>2 DEF CoreInv, DecidedOnce
  <2>4. \A id \in Ids : recorded'[id] = IF id <= stats'.accepted /\ ~InProgress(id)' THEN 1 ELSE 0
    <3> SUFFICES ASSUME NEW id \in Ids
                 PROVE  recorded'[id] = IF id <= stats'.accepted /\ ~InProgress(id)' THEN 1 ELSE 0
      OBVIOUS
    <3>1. CASE id = n
      <4>1. recorded'[n] = 1
        BY <1>2, <1>3, <2>3 DEF CoreInv, CoreTypeOK
      <4>2. QED
        BY <1>2, <1>4, <2>1, <3>1, <4>1
    <3>2. CASE id # n
      <4>1. recorded'[id] = recorded[id]
        BY <1>2, <1>3, <3>2 DEF CoreInv, CoreTypeOK
      <4>2. QED
        BY <1>4, <2>1, <3>2, <4>1 DEF CoreInv, DecidedOnce
    <3>3. QED
      BY <3>1, <3>2
  <2>5. \A j \in DOMAIN attempts' : attempts'[j].decided = (attempts'[j].conn = "closed")
    BY <1>6
  <2>6. /\ stats'.accepted = stats'.completed + stats'.failed + stats'.timedOut
                             + abandoned' + handshaking'
        /\ stats'.incoming = stats'.retries + stats'.dropped + stats'.accepted
        /\ handshaking' <= MaxConcurrent
    <3>1. /\ stats.accepted = stats.completed + stats.failed + stats.timedOut
                             + abandoned + handshaking
          /\ stats.incoming = stats.retries + stats.dropped + stats.accepted
          /\ handshaking <= MaxConcurrent
      BY DEF CoreInv, DecidedOnce
    <3>2. /\ stats \in Stats /\ abandoned \in Nat /\ handshaking \in Nat
          /\ handshaking' \in Nat /\ MaxConcurrent \in Nat
      BY <1>8, UndecidedFinite, CoreConfig DEF CoreInv, CoreTypeOK
    <3>3. \A m \in Stats : /\ m.accepted \in Nat /\ m.completed \in Nat /\ m.failed \in Nat
                            /\ m.timedOut \in Nat /\ m.retries \in Nat /\ m.dropped \in Nat
                            /\ m.incoming \in Nat
      BY DEF Stats
    <3>4. stats'.completed + stats'.failed + stats'.timedOut + abandoned' + handshaking'
             = stats.completed + stats.failed + stats.timedOut + abandoned + handshaking
      <4>1. PICK l \in Stats, y \in Nat, g \in Nat :
               l = stats' /\ y = abandoned' /\ g = handshaking'
        BY <1>4, <3>2, Zenon
      <4>2. PICK m \in Stats, x \in Nat, h \in Nat :
               m = stats /\ x = abandoned /\ h = handshaking
        BY <3>2, Zenon
      <4>3. h = g + 1
        BY <1>8, <4>1, <4>2, Zenon
      <4>4. l.completed + l.failed + l.timedOut + y = m.completed + m.failed + m.timedOut + x + 1
        BY <1>4, <4>1, <4>2, Zenon
      <4>5. l.completed + l.failed + l.timedOut + y + g
               = m.completed + m.failed + m.timedOut + x + h
        BY <4>3, <4>4, CountShift
      <4>6. QED
        BY <4>1, <4>2, <4>5, Zenon
    <3>5. handshaking' <= MaxConcurrent
      BY <1>8, <3>1, <3>2 DEF handshaking, Undecided
    <3>6. QED
      BY <1>4, <3>1, <3>4, <3>5
  <2>7. QED
    BY <2>4, <2>5, <2>6 DEF DecidedOnce
<1>13. HelloBelongs'
  <2>1. \A i \in DOMAIN pending' : pending'[i] = Observation(r.att)
                                   \/ (i \in DOMAIN pending /\ pending'[i] = pending[i])
    BY <1>3, <1>9 DEF CoreInv, CoreTypeOK
  <2>2. QED
    BY <1>1, <1>6, <1>9, <2>1 DEF CoreInv, HelloBelongs
<1>14. QED
  BY <1>10, <1>11, <1>12, <1>13 DEF CoreInv, SlotInv

----------------------------------------------------------------------------
(* The handlers, one lemma each.                                           *)

\* The map is never full when an Initial is accepted: distinct entries have
\* distinct numbers.
LEMMA VacantKeyExists ==
    ASSUME CoreInv, stats.incoming < MaxIncoming
    PROVE  VacantKey \in Keys /\ VacantKey \notin DOMAIN attempts
<1> SUFFICES ASSUME Keys \subseteq DOMAIN attempts
             PROVE  FALSE
  BY DEF VacantKey
<1>1. stats.accepted \in Nat /\ stats.accepted < MaxIncoming /\ MaxIncoming \in Nat
  BY CoreConfig DEF CoreInv, CoreTypeOK, Stats, IdsInv
<1> DEFINE T == 1 .. stats.accepted
           f == [k \in Keys |-> attempts[k].id]
<1>2. IsFiniteSet(Keys) /\ Cardinality(Keys) = MaxIncoming
  <2>1. IsFiniteSet(1 .. MaxIncoming)
        /\ Cardinality(1 .. MaxIncoming) = IF 1 > MaxIncoming THEN 0 ELSE MaxIncoming - 1 + 1
    BY <1>1, FS_Interval
  <2>2. QED
    BY <1>1, <2>1 DEF Keys
<1>3. IsFiniteSet(T) /\ Cardinality(T) = stats.accepted
  <2>1. IsFiniteSet(1 .. stats.accepted)
        /\ Cardinality(1 .. stats.accepted)
              = IF 1 > stats.accepted THEN 0 ELSE stats.accepted - 1 + 1
    <3>1. 1 \in Int /\ stats.accepted \in Int
      BY <1>1
    <3>2. QED
      BY <3>1, FS_Interval, Zenon
  <2>2. QED
    BY <1>1, <2>1
<1>4. \A k \in Keys : attempts[k].id \in T
  <2>1. \A k \in Keys : attempts[k] \in Attempt /\ attempts[k].id <= stats.accepted
    BY DEF CoreInv, CoreTypeOK, IdsInv
  <2>2. \A k \in Keys : attempts[k].id \in Ids
    BY <2>1 DEF Attempt
  <2>3. QED
    BY <1>1, <2>1, <2>2 DEF Ids
<1>5. f \in [Keys -> T]
  BY <1>4
<1>6. Cardinality(T) < Cardinality(Keys)
  BY <1>1, <1>2, <1>3
<1> HIDE DEF T, f
<1>7. PICK x, y \in Keys : x # y /\ f[x] = f[y]
  BY <1>2, <1>3, <1>5, <1>6, FS_PigeonHole
<1>8. QED
  BY <1>7 DEF f, CoreInv, IdsInv

LEMMA IncomingStats ==
    ASSUME NEW m \in Stats
    PROVE  LET r == [m EXCEPT !.incoming = @ + 1, !.retries = @ + 1]
               d == [m EXCEPT !.incoming = @ + 1, !.dropped = @ + 1] IN
           /\ r \in Stats /\ r.incoming = m.incoming + 1
           /\ r.retries = m.retries + 1 /\ r.dropped = m.dropped
           /\ r.accepted = m.accepted /\ r.completed = m.completed
           /\ r.failed = m.failed /\ r.timedOut = m.timedOut
           /\ d \in Stats /\ d.incoming = m.incoming + 1
           /\ d.retries = m.retries /\ d.dropped = m.dropped + 1
           /\ d.accepted = m.accepted /\ d.completed = m.completed
           /\ d.failed = m.failed /\ d.timedOut = m.timedOut
<1> DEFINE i == [m EXCEPT !.incoming = @ + 1]
<1>1. /\ i \in Stats /\ i.incoming = m.incoming + 1 /\ i.accepted = m.accepted
      /\ i.completed = m.completed /\ i.failed = m.failed /\ i.timedOut = m.timedOut
      /\ i.dropped = m.dropped /\ i.retries = m.retries
  BY DEF Stats
<1> HIDE DEF i
<1> DEFINE r == [i EXCEPT !.retries = @ + 1]
           d == [i EXCEPT !.dropped = @ + 1]
<1>2. /\ r \in Stats /\ r.incoming = i.incoming /\ r.accepted = i.accepted
      /\ r.completed = i.completed /\ r.failed = i.failed /\ r.timedOut = i.timedOut
      /\ r.dropped = i.dropped /\ r.retries = i.retries + 1
  BY <1>1 DEF Stats
<1>3. /\ d \in Stats /\ d.incoming = i.incoming /\ d.accepted = i.accepted
      /\ d.completed = i.completed /\ d.failed = i.failed /\ d.timedOut = i.timedOut
      /\ d.dropped = i.dropped + 1 /\ d.retries = i.retries
  BY <1>1 DEF Stats
<1> HIDE DEF r, d
<1>4. /\ r = [m EXCEPT !.incoming = @ + 1, !.retries = @ + 1]
      /\ d = [m EXCEPT !.incoming = @ + 1, !.dropped = @ + 1]
  BY DEF r, d, i
<1>5. QED
  BY <1>1, <1>2, <1>3, <1>4

LEMMA AcceptedStats ==
    ASSUME NEW m \in Stats
    PROVE  LET a == [m EXCEPT !.incoming = @ + 1, !.accepted = @ + 1]
               o == [a EXCEPT !.observed = @ + 1]
               f == [a EXCEPT !.failed = @ + 1] IN
           /\ o \in Stats /\ o.incoming = m.incoming + 1 /\ o.accepted = m.accepted + 1
           /\ o.retries = m.retries /\ o.dropped = m.dropped /\ o.completed = m.completed
           /\ o.failed = m.failed /\ o.timedOut = m.timedOut
           /\ f \in Stats /\ f.incoming = m.incoming + 1 /\ f.accepted = m.accepted + 1
           /\ f.retries = m.retries /\ f.dropped = m.dropped /\ f.completed = m.completed
           /\ f.failed = m.failed + 1 /\ f.timedOut = m.timedOut
<1> DEFINE i == [m EXCEPT !.incoming = @ + 1]
<1>1. /\ i \in Stats /\ i.incoming = m.incoming + 1 /\ i.accepted = m.accepted
      /\ i.completed = m.completed /\ i.failed = m.failed /\ i.timedOut = m.timedOut
      /\ i.dropped = m.dropped /\ i.retries = m.retries
  BY DEF Stats
<1> HIDE DEF i
<1> DEFINE a == [i EXCEPT !.accepted = @ + 1]
<1>2. /\ a \in Stats /\ a.incoming = i.incoming /\ a.accepted = i.accepted + 1
      /\ a.completed = i.completed /\ a.failed = i.failed /\ a.timedOut = i.timedOut
      /\ a.dropped = i.dropped /\ a.retries = i.retries
  BY <1>1 DEF Stats
<1> HIDE DEF a
<1> DEFINE o == [a EXCEPT !.observed = @ + 1]
           f == [a EXCEPT !.failed = @ + 1]
<1>3. /\ o \in Stats /\ o.incoming = a.incoming /\ o.accepted = a.accepted
      /\ o.completed = a.completed /\ o.failed = a.failed /\ o.timedOut = a.timedOut
      /\ o.dropped = a.dropped /\ o.retries = a.retries
  BY <1>2 DEF Stats
<1>4. /\ f \in Stats /\ f.incoming = a.incoming /\ f.accepted = a.accepted
      /\ f.completed = a.completed /\ f.failed = a.failed + 1 /\ f.timedOut = a.timedOut
      /\ f.dropped = a.dropped /\ f.retries = a.retries
  BY <1>2 DEF Stats
<1> HIDE DEF o, f
<1>5. /\ o = [[m EXCEPT !.incoming = @ + 1, !.accepted = @ + 1] EXCEPT !.observed = @ + 1]
      /\ f = [[m EXCEPT !.incoming = @ + 1, !.accepted = @ + 1] EXCEPT !.failed = @ + 1]
  BY DEF o, f, a, i
<1>6. QED
  BY <1>1, <1>2, <1>3, <1>4, <1>5

\* An Incoming that starts no attempt.
LEMMA IncomingPreserves ==
    ASSUME CoreInv, stats.incoming < MaxIncoming, stats' \in Stats,
           stats'.incoming = stats.incoming + 1,
           stats'.retries + stats'.dropped = stats.retries + stats.dropped + 1,
           stats'.accepted = stats.accepted, stats'.completed = stats.completed,
           stats'.failed = stats.failed, stats'.timedOut = stats.timedOut,
           attempts' = attempts, pending' = pending, accepting' = accepting,
           slot' = slot, abandoned' = abandoned, recorded' = recorded
    PROVE  CoreInv'
<1>1. Undecided' = Undecided /\ handshaking' = handshaking
  BY DEF Undecided, handshaking
<1>2. \A id : InProgress(id)' <=> InProgress(id)
  BY <1>1 DEF InProgress
<1>3. /\ stats.incoming \in Nat /\ stats.retries \in Nat /\ stats.dropped \in Nat
      /\ stats'.retries \in Nat /\ stats'.dropped \in Nat /\ stats.accepted \in Nat
      /\ MaxIncoming \in Nat
  BY CoreConfig DEF CoreInv, CoreTypeOK, Stats
<1>4. CoreTypeOK'
  BY DEF CoreInv, CoreTypeOK
<1>5. IdsInv'
  BY <1>3 DEF CoreInv, IdsInv
<1>6. stats'.incoming = stats'.retries + stats'.dropped + stats'.accepted
  BY <1>3 DEF CoreInv, DecidedOnce
<1>7. DecidedOnce'
  BY <1>1, <1>2, <1>6 DEF CoreInv, DecidedOnce
<1>8. QED
  BY <1>4, <1>5, <1>7 DEF CoreInv, SlotInv, HelloBelongs

LEMMA RetryPreserves ==
    ASSUME CoreInv, Retry
    PROVE  CoreInv' /\ Grows
<1>1. /\ stats.incoming < MaxIncoming
      /\ stats' = [stats EXCEPT !.incoming = @ + 1, !.retries = @ + 1]
      /\ attempts' = attempts /\ pending' = pending /\ accepting' = accepting
      /\ slot' = slot /\ abandoned' = abandoned /\ recorded' = recorded
  BY DEF Retry, Incoming
<1>2. stats \in Stats /\ MaxIncoming \in Nat
  BY CoreConfig DEF CoreInv, CoreTypeOK
<1>3. /\ stats' \in Stats /\ stats'.incoming = stats.incoming + 1
      /\ stats'.retries = stats.retries + 1 /\ stats'.dropped = stats.dropped
      /\ stats'.accepted = stats.accepted /\ stats'.completed = stats.completed
      /\ stats'.failed = stats.failed /\ stats'.timedOut = stats.timedOut
  BY <1>1, <1>2, IncomingStats
<1>4. stats'.retries + stats'.dropped = stats.retries + stats.dropped + 1
  BY <1>2, <1>3 DEF Stats
<1>5. CoreInv'
  BY <1>1, <1>3, <1>4, IncomingPreserves
<1>6. stats'.dropped >= stats.dropped
  BY <1>2, <1>3 DEF Stats
<1>7. QED
  BY <1>1, <1>5, <1>6 DEF Grows

LEMMA RefusePreserves ==
    ASSUME CoreInv, Refuse
    PROVE  CoreInv' /\ Grows
<1>1. /\ stats.incoming < MaxIncoming
      /\ stats' = [stats EXCEPT !.incoming = @ + 1, !.dropped = @ + 1]
      /\ attempts' = attempts /\ pending' = pending /\ accepting' = accepting
      /\ slot' = slot /\ abandoned' = abandoned /\ recorded' = recorded
  BY DEF Refuse, Incoming
<1>2. stats \in Stats /\ MaxIncoming \in Nat
  BY CoreConfig DEF CoreInv, CoreTypeOK
<1>3. /\ stats' \in Stats /\ stats'.incoming = stats.incoming + 1
      /\ stats'.retries = stats.retries /\ stats'.dropped = stats.dropped + 1
      /\ stats'.accepted = stats.accepted /\ stats'.completed = stats.completed
      /\ stats'.failed = stats.failed /\ stats'.timedOut = stats.timedOut
  BY <1>1, <1>2, IncomingStats
<1>4. stats'.retries + stats'.dropped = stats.retries + stats.dropped + 1
  BY <1>2, <1>3 DEF Stats
<1>5. CoreInv'
  BY <1>1, <1>3, <1>4, IncomingPreserves
<1>6. stats'.dropped >= stats.dropped
  BY <1>2, <1>3 DEF Stats
<1>7. QED
  BY <1>1, <1>5, <1>6 DEF Grows

\* An attempt that is over as soon as it is accepted: recorded and counted as
\* failed, and never in progress.
LEMMA ArrivalDecided ==
    ASSUME CoreInv, stats.incoming < MaxIncoming,
           stats' \in Stats, stats'.incoming = stats.incoming + 1,
           stats'.retries = stats.retries, stats'.dropped = stats.dropped,
           stats'.accepted = NextId, stats'.completed = stats.completed,
           stats'.failed = stats.failed + 1, stats'.timedOut = stats.timedOut,
           recorded' = [recorded EXCEPT ![NextId] = @ + 1],
           abandoned' = abandoned, handshaking' = handshaking,
           \A id : InProgress(id)' <=> InProgress(id),
           \A k \in DOMAIN attempts' : attempts'[k].decided = (attempts'[k].conn = "closed")
    PROVE  DecidedOnce'
<1> DEFINE n == NextId
<1>1. /\ stats \in Stats /\ MaxIncoming \in Nat /\ stats.accepted \in Nat
      /\ stats.incoming \in Nat /\ stats.accepted <= stats.incoming
  BY CoreConfig DEF CoreInv, CoreTypeOK, IdsInv, Stats
<1>2. n \in Ids /\ n = stats.accepted + 1
  BY <1>1 DEF Ids, NextId, CoreInv
<1>3. /\ stats'.incoming = stats.incoming + 1
      /\ stats'.retries = stats.retries /\ stats'.dropped = stats.dropped
      /\ stats'.accepted = n /\ stats'.completed = stats.completed
      /\ stats'.failed = stats.failed + 1 /\ stats'.timedOut = stats.timedOut
  OBVIOUS
<1>4. recorded' = [recorded EXCEPT ![n] = @ + 1]
  OBVIOUS
<1>5. abandoned' = abandoned /\ handshaking' = handshaking
  OBVIOUS
<1> HIDE DEF n
<1>6. \A id : InProgress(id)' <=> InProgress(id)
  OBVIOUS
<1>7. ~InProgress(n)
  <2>1. \A k \in DOMAIN attempts : attempts[k].id \in Nat /\ attempts[k].id <= stats.accepted
    BY DEF CoreInv, CoreTypeOK, Attempt, Ids, IdsInv
  <2>2. QED
    BY <1>1, <1>2, <2>1 DEF InProgress, Undecided
<1>8. recorded[n] = 0
  BY <1>1, <1>2 DEF CoreInv, DecidedOnce
<1>9. \A id \in Ids : recorded'[id] = IF id <= stats'.accepted /\ ~InProgress(id)' THEN 1 ELSE 0
  <2> SUFFICES ASSUME NEW id \in Ids
               PROVE  recorded'[id] = IF id <= stats'.accepted /\ ~InProgress(id)' THEN 1 ELSE 0
    OBVIOUS
  <2>1. CASE id = n
    <3>1. recorded'[id] = 1
      BY <1>2, <1>4, <1>8, <2>1 DEF CoreInv, CoreTypeOK
    <3>2. id <= stats'.accepted /\ ~InProgress(id)'
      BY <1>1, <1>2, <1>3, <1>6, <1>7, <2>1
    <3>3. QED
      BY <3>1, <3>2
  <2>2. CASE id # n
    <3>1. recorded'[id] = recorded[id]
      BY <1>2, <1>4, <2>2 DEF CoreInv, CoreTypeOK
    <3>2. (id <= stats'.accepted) = (id <= stats.accepted)
      BY <1>1, <1>2, <1>3, <2>2 DEF Ids
    <3>3. QED
      BY <1>6, <3>1, <3>2 DEF CoreInv, DecidedOnce
  <2>3. QED
    BY <2>1, <2>2
<1>10. /\ stats'.accepted = stats'.completed + stats'.failed + stats'.timedOut
                           + abandoned' + handshaking'
      /\ stats'.incoming = stats'.retries + stats'.dropped + stats'.accepted
      /\ handshaking' <= MaxConcurrent
  <2>1. /\ stats.accepted = stats.completed + stats.failed + stats.timedOut
                           + abandoned + handshaking
        /\ stats.incoming = stats.retries + stats.dropped + stats.accepted
        /\ handshaking <= MaxConcurrent
    BY DEF CoreInv, DecidedOnce
  <2>2. abandoned \in Nat /\ Cardinality(Undecided) \in Nat
    BY UndecidedFinite DEF CoreInv, CoreTypeOK, handshaking
  <2>3. /\ stats.completed \in Nat /\ stats.failed \in Nat /\ stats.timedOut \in Nat
        /\ stats.retries \in Nat /\ stats.dropped \in Nat
    BY <1>1 DEF Stats
  <2>4. abandoned' = abandoned /\ handshaking' = handshaking
    BY <1>5
  <2>5. handshaking' <= MaxConcurrent
    BY <2>1, <2>4
  <2>6. stats'.incoming = stats'.retries + stats'.dropped + stats'.accepted
    BY <1>1, <1>2, <1>3, <2>1, <2>3
  <2>7. stats'.accepted = stats'.completed + stats'.failed + stats'.timedOut
                           + abandoned' + handshaking'
    BY <1>1, <1>2, <1>3, <2>1, <2>2, <2>3, <2>4 DEF handshaking
  <2>8. QED
    BY <2>5, <2>6, <2>7
<1>11. QED
  BY <1>5, <1>9, <1>10 DEF DecidedOnce

LEMMA AcceptErrPreserves ==
    ASSUME CoreInv, AcceptErr
    PROVE  CoreInv' /\ Grows
<1> DEFINE n == NextId
           e == [NewAttempt(n) EXCEPT !.outcome = "AcceptFailed"]
<1>1. PICK hello \in BOOLEAN :
         LET a == AttachHello(e, Resolved(n, hello))
         IN /\ pending' = Append(pending, Observation(a))
            /\ recorded' = [recorded EXCEPT ![a.id] = @ + 1]
  BY DEF AcceptErr
<1> DEFINE a == AttachHello(e, Resolved(n, hello))
<1>2. /\ stats.incoming < MaxIncoming /\ stats' = [Accepted EXCEPT !.failed = @ + 1]
      /\ slot' = NoHello /\ attempts' = attempts /\ accepting' = accepting
      /\ abandoned' = abandoned
  BY DEF AcceptErr
<1>3. /\ stats \in Stats /\ MaxIncoming \in Nat /\ stats.accepted \in Nat
      /\ stats.incoming \in Nat /\ stats.accepted <= stats.incoming
  BY CoreConfig DEF CoreInv, CoreTypeOK, IdsInv, Stats
<1>4. n \in Ids /\ n # NoHello /\ n = stats.accepted + 1 /\ slot = NoHello
  BY <1>2, <1>3 DEF Ids, NextId, NoHello, CoreInv, SlotInv
<1>5. /\ stats' \in Stats /\ stats'.incoming = stats.incoming + 1
      /\ stats'.retries = stats.retries /\ stats'.dropped = stats.dropped
      /\ stats'.accepted = n /\ stats'.completed = stats.completed
      /\ stats'.failed = stats.failed + 1 /\ stats'.timedOut = stats.timedOut
  BY <1>2, <1>3, <1>4, AcceptedStats DEF Accepted
<1>6. /\ a \in Attempt /\ a.id = n /\ a.offered \in {NoHello, n} /\ a.outcome = "AcceptFailed"
  <2>1. /\ e \in Attempt /\ e.id = n /\ e.offered = NoHello /\ e.outcome = "AcceptFailed"
    BY <1>4 DEF NewAttempt, Attempt, Outcome, CloseReason
  <2> HIDE DEF e
  <2>2. a = e \/ a = [e EXCEPT !.offered = n]
    BY <1>4 DEF AttachHello, Resolved
  <2>3. QED
    BY <1>4, <2>1, <2>2 DEF Attempt
<1>7. pending' = Append(pending, Observation(a)) /\ recorded' = [recorded EXCEPT ![n] = @ + 1]
  BY <1>1, <1>6
<1> HIDE DEF a, e, n
<1>8. Observation(a) \in Observations /\ Observation(a).offered = a.offered
      /\ Observation(a).id = n /\ Observation(a).outcome = "AcceptFailed"
  BY <1>6 DEF Observation, Observations, Attempt
<1>9. Undecided' = Undecided /\ handshaking' = handshaking
  BY <1>2 DEF Undecided, handshaking
<1>10. CoreTypeOK'
  <2>1. recorded' \in [Ids -> Nat] /\ pending' \in Seq(Observations)
    BY <1>4, <1>7, <1>8 DEF CoreInv, CoreTypeOK
  <2>2. QED
    BY <1>2, <1>5, <2>1 DEF CoreInv, CoreTypeOK
<1>11. IdsInv'
  <2>1. \A k \in DOMAIN attempts : attempts[k].id \in Nat
    BY DEF CoreInv, CoreTypeOK, Attempt, Ids
  <2>2. QED
    BY <1>2, <1>3, <1>4, <1>5, <2>1 DEF CoreInv, IdsInv
<1>12. DecidedOnce'
  <2>1. \A id : InProgress(id)' <=> InProgress(id)
    BY <1>2, <1>9 DEF InProgress
  <2>2. \A k \in DOMAIN attempts' : attempts'[k].decided = (attempts'[k].conn = "closed")
    BY <1>2 DEF CoreInv, DecidedOnce
  <2>3. QED
    BY <1>2, <1>5, <1>7, <1>9, <2>1, <2>2, ArrivalDecided DEF n
<1>13. HelloBelongs'
  <2>1. \A i \in DOMAIN pending' : pending'[i] = Observation(a)
                                   \/ (i \in DOMAIN pending /\ pending'[i] = pending[i])
    BY <1>7, <1>8 DEF CoreInv, CoreTypeOK
  <2>2. QED
    BY <1>2, <1>6, <1>8, <2>1 DEF CoreInv, HelloBelongs
<1>14. CoreInv'
  BY <1>2, <1>10, <1>11, <1>12, <1>13 DEF CoreInv, SlotInv
<1>15. stats'.dropped >= stats.dropped
  BY <1>3, <1>5 DEF Stats
<1>16. \E o \in Observations : /\ pending' = Append(pending, o)
                              /\ recorded' = [recorded EXCEPT ![o.id] = @ + 1]
  BY <1>7, <1>8, Zenon
<1>17. QED
  BY <1>14, <1>15, <1>16 DEF Grows

\* What drive is given for a connection that was just accepted.
Admitted(hello) ==
    [Handling(AttachHello(NewAttempt(NextId), Resolved(NextId, hello)))
        EXCEPT !.stats = [Accepted EXCEPT !.observed = @ + 1]]

LEMMA AdmittedShape ==
    ASSUME CoreInv, stats.incoming < MaxIncoming, NEW hello \in BOOLEAN
    PROVE  LET s == Admitted(hello) IN
           /\ NextId \in Ids /\ NextId = stats.accepted + 1
           /\ s \in State /\ s.att.id = NextId /\ s.att.offered \in {NoHello, NextId}
           /\ s.att.decided = FALSE /\ s.att.conn = "open"
           /\ s.stats = [Accepted EXCEPT !.observed = @ + 1]
           /\ s.pending = pending /\ s.recorded = recorded
<1> DEFINE n == NextId
           e == NewAttempt(n)
           a == AttachHello(e, Resolved(n, hello))
           m == [Accepted EXCEPT !.observed = @ + 1]
<1>1. /\ stats \in Stats /\ MaxIncoming \in Nat /\ stats.accepted \in Nat
      /\ stats.incoming \in Nat /\ stats.accepted <= stats.incoming
  BY CoreConfig DEF CoreInv, CoreTypeOK, IdsInv, Stats
<1>2. n \in Ids /\ n # NoHello /\ n = stats.accepted + 1 /\ slot = NoHello
  BY <1>1 DEF Ids, NextId, NoHello, CoreInv, SlotInv
<1>3. /\ a \in Attempt /\ a.id = n /\ a.offered \in {NoHello, n}
      /\ a.decided = FALSE /\ a.conn = "open"
  <2>1. e \in Attempt /\ e.id = n /\ e.offered = NoHello /\ e.decided = FALSE /\ e.conn = "open"
    BY <1>2 DEF NewAttempt, Attempt, Outcome, CloseReason
  <2> HIDE DEF e
  <2>2. a = e \/ a = [e EXCEPT !.offered = n]
    BY <1>2 DEF AttachHello, Resolved
  <2>3. QED
    BY <1>2, <2>1, <2>2 DEF Attempt
<1>4. m \in Stats
  BY <1>1, AcceptedStats DEF Accepted
<1>5. Admitted(hello) = [Handling(a) EXCEPT !.stats = m]
  BY DEF Admitted
<1> HIDE DEF a, e, n, m
<1>6. pending \in Seq(Observations) /\ recorded \in [Ids -> Nat]
  BY DEF CoreInv, CoreTypeOK
<1> DEFINE s == [Handling(a) EXCEPT !.stats = m]
<1>7. s \in State /\ s.att = a /\ s.stats = m /\ s.pending = pending /\ s.recorded = recorded
  BY <1>1, <1>3, <1>4, <1>6 DEF Handling, State
<1> HIDE DEF s
<1>8. QED
  BY <1>2, <1>3, <1>5, <1>7 DEF n, s, m

LEMMA AcceptOpen ==
    ASSUME CoreInv, ~AtCapacity, stats.incoming < MaxIncoming, slot' = NoHello,
           accepting' = accepting, abandoned' = abandoned,
           NEW hello \in BOOLEAN, Commit(VacantKey, Admitted(hello), NoEvents)
    PROVE  CoreInv' /\ Grows
<1> DEFINE n == NextId
           k == VacantKey
           m == [Accepted EXCEPT !.observed = @ + 1]
           s == Admitted(hello)
           a == s.att
<1>2. /\ ~AtCapacity /\ stats.incoming < MaxIncoming
      /\ slot' = NoHello /\ accepting' = accepting /\ abandoned' = abandoned
  OBVIOUS
<1>3. /\ stats \in Stats /\ MaxIncoming \in Nat /\ stats.accepted \in Nat
      /\ stats.incoming \in Nat /\ stats.accepted <= stats.incoming
  BY CoreConfig DEF CoreInv, CoreTypeOK, IdsInv, Stats
<1>4. n \in Ids /\ n = stats.accepted + 1
  BY AdmittedShape
<1>5. k \in Keys /\ k \notin DOMAIN attempts
  BY <1>2, VacantKeyExists
<1>6. /\ a \in Attempt /\ a.id = n /\ a.offered \in {NoHello, n}
      /\ a.decided = FALSE /\ a.conn = "open"
  BY AdmittedShape DEF State
<1>7. /\ s.stats = m /\ s.pending = pending /\ s.recorded = recorded
      /\ Commit(k, s, NoEvents)
  BY AdmittedShape
<1> HIDE DEF s, k, n, m
<1>8. /\ attempts' = [j \in DOMAIN attempts \cup {k} |-> IF j = k THEN s.att ELSE attempts[j]]
      /\ stats' = m /\ pending' = pending /\ recorded' = recorded
  BY <1>7 DEF Commit, NoEvents
<1> HIDE DEF a
<1>9. /\ attempts' = [j \in DOMAIN attempts \cup {k} |-> IF j = k THEN a ELSE attempts[j]]
      /\ stats' = m /\ pending' = pending /\ recorded' = recorded
  BY <1>8 DEF a
<1>10. /\ stats' \in Stats /\ stats'.incoming = stats.incoming + 1
       /\ stats'.retries = stats.retries /\ stats'.dropped = stats.dropped
       /\ stats'.accepted = n /\ stats'.completed = stats.completed
       /\ stats'.failed = stats.failed /\ stats'.timedOut = stats.timedOut
  BY <1>3, <1>4, <1>9, AcceptedStats DEF Accepted, m
<1>11. /\ DOMAIN attempts' = DOMAIN attempts \cup {k}
       /\ attempts'[k] = a
       /\ \A j \in DOMAIN attempts : j # k /\ attempts'[j] = attempts[j]
  BY <1>5, <1>9
<1>12. \A j \in DOMAIN attempts : /\ attempts[j] \in Attempt /\ attempts[j].id \in Nat
                                  /\ attempts[j].id <= stats.accepted
  BY DEF CoreInv, CoreTypeOK, Attempt, Ids, IdsInv
<1>13. Undecided' = Undecided \cup {k} /\ k \notin Undecided
  BY <1>5, <1>6, <1>11 DEF Undecided
<1>14. handshaking' = handshaking + 1 /\ handshaking \in Nat /\ handshaking' <= MaxConcurrent
  <2>1. IsFiniteSet(Undecided) /\ Cardinality(Undecided) \in Nat
    BY UndecidedFinite DEF CoreInv, handshaking
  <2>2. Cardinality(Undecided \cup {k}) = Cardinality(Undecided) + 1
    BY <1>13, <2>1, FS_AddElement
  <2>3. Cardinality(Undecided) < MaxConcurrent
    BY <1>2, <2>1, CoreConfig DEF AtCapacity, handshaking
  <2>4. QED
    BY <1>13, <2>1, <2>2, <2>3, CoreConfig DEF handshaking
<1>15. CoreTypeOK'
  BY <1>2, <1>5, <1>6, <1>9, <1>10, <1>11, <1>12 DEF CoreInv, CoreTypeOK
<1>16. IdsInv'
  <2>1. \A j \in DOMAIN attempts : attempts[j].id # n
    BY <1>3, <1>4, <1>12
  <2>2. \A i, j \in DOMAIN attempts' : attempts'[i].id = attempts'[j].id => i = j
    BY <1>6, <1>11, <2>1 DEF CoreInv, IdsInv
  <2>3. \A j \in DOMAIN attempts' : attempts'[j].id <= stats'.accepted
    BY <1>3, <1>4, <1>6, <1>10, <1>11, <1>12
  <2>4. stats'.accepted <= stats'.incoming /\ stats'.incoming <= MaxIncoming
    BY <1>2, <1>3, <1>4, <1>10
  <2>5. QED
    BY <2>2, <2>3, <2>4 DEF IdsInv
<1>17. DecidedOnce'
  <2>1. \A id : InProgress(id)' <=> InProgress(id) \/ id = n
    BY <1>5, <1>6, <1>11, <1>13 DEF InProgress, Undecided
  <2>2. \A id \in Ids : recorded'[id] = IF id <= stats'.accepted /\ ~InProgress(id)' THEN 1 ELSE 0
    <3> SUFFICES ASSUME NEW id \in Ids
                 PROVE  recorded'[id] = IF id <= stats'.accepted /\ ~InProgress(id)' THEN 1 ELSE 0
      OBVIOUS
    <3>1. CASE id = n
      <4>1. recorded[id] = 0
        BY <1>3, <1>4, <3>1 DEF CoreInv, DecidedOnce
      <4>2. QED
        BY <1>9, <2>1, <3>1, <4>1
    <3>2. CASE id # n
      <4>1. (id <= stats'.accepted) = (id <= stats.accepted)
        BY <1>3, <1>4, <1>10, <3>2 DEF Ids
      <4>2. QED
        BY <1>9, <2>1, <3>2, <4>1 DEF CoreInv, DecidedOnce
    <3>3. QED
      BY <3>1, <3>2
  <2>3. \A j \in DOMAIN attempts' : attempts'[j].decided = (attempts'[j].conn = "closed")
    <3>1. a.decided = (a.conn = "closed")
      BY <1>6
    <3>2. QED
      BY <1>11, <3>1 DEF CoreInv, DecidedOnce
  <2>4. stats'.incoming = stats'.retries + stats'.dropped + stats'.accepted
    <3>1. stats.incoming = stats.retries + stats.dropped + stats.accepted
      BY DEF CoreInv, DecidedOnce
    <3>2. stats.retries \in Nat /\ stats.dropped \in Nat
      BY <1>3 DEF Stats
    <3>3. QED
      BY <1>3, <1>4, <1>10, <3>1, <3>2
  <2>5. stats'.accepted = stats'.completed + stats'.failed + stats'.timedOut
                             + abandoned' + handshaking'
    <3>1. stats.accepted = stats.completed + stats.failed + stats.timedOut
                             + abandoned + handshaking
      BY DEF CoreInv, DecidedOnce
    <3>2. abandoned \in Nat /\ stats.completed \in Nat /\ stats.failed \in Nat
          /\ stats.timedOut \in Nat
      BY <1>3 DEF CoreInv, CoreTypeOK, Stats
    <3>3. abandoned' = abandoned
      BY <1>2
    <3>4. PICK h \in Nat : h = handshaking
      BY <1>14
    <3>5. handshaking' = h + 1
      BY <1>14, <3>4, Zenon
    <3>6. stats.accepted + 1 = stats.completed + stats.failed + stats.timedOut + abandoned + (h + 1)
      <4>1. stats.accepted = stats.completed + stats.failed + stats.timedOut + abandoned + h
        BY <3>1, <3>4, Zenon
      <4>2. QED
        BY <1>3, <3>2, <4>1
    <3>7. QED
      BY <1>4, <1>10, <3>3, <3>5, <3>6, Zenon
  <2>6. QED
    BY <1>14, <2>2, <2>3, <2>4, <2>5 DEF DecidedOnce
<1>18. HelloBelongs'
  BY <1>6, <1>9, <1>11 DEF CoreInv, HelloBelongs
<1>19. CoreInv'
  BY <1>2, <1>15, <1>16, <1>17, <1>18 DEF CoreInv, SlotInv
<1>20. stats'.dropped >= stats.dropped
  BY <1>3, <1>10 DEF Stats
<1>21. QED
  BY <1>9, <1>19, <1>20 DEF Grows

\* The connection is lost at once: it is over before it is in progress.
LEMMA AcceptLost ==
    ASSUME CoreInv, stats.incoming < MaxIncoming, slot' = NoHello,
           accepting' = accepting, abandoned' = abandoned,
           NEW hello \in BOOLEAN, Commit(VacantKey, OnLost(Admitted(hello)), NoEvents)
    PROVE  CoreInv' /\ Grows
<1> DEFINE n == NextId
           k == VacantKey
           s == Admitted(hello)
           f == Counted(s, "failed")
           d == Decide(f, "Failed", "ConnectionLost")
           r == Closed(d)
           a == r.att
<1>1. /\ stats \in Stats /\ MaxIncoming \in Nat /\ stats.accepted \in Nat
      /\ stats.incoming \in Nat /\ stats.accepted <= stats.incoming
  BY CoreConfig DEF CoreInv, CoreTypeOK, IdsInv, Stats
<1>2. /\ n \in Ids /\ n = stats.accepted + 1
      /\ s \in State /\ s.att.id = n /\ s.att.offered \in {NoHello, n}
      /\ s.att.decided = FALSE /\ s.stats = [Accepted EXCEPT !.observed = @ + 1]
      /\ s.pending = pending /\ s.recorded = recorded
  BY AdmittedShape
<1>3. k \in Keys /\ k \notin DOMAIN attempts
  BY VacantKeyExists
<1>4. Commit(k, r, NoEvents)
  BY <1>2 DEF OnLost
<1> HIDE DEF s, k, n
<1>5. /\ f \in State /\ f.att = s.att /\ f.pending = pending /\ f.recorded = recorded
      /\ f.stats = [s.stats EXCEPT !["failed"] = @ + 1]
  BY <1>2, CountedFields
<1> HIDE DEF f
<1>6. /\ d \in State /\ d.att.decided /\ d.att.id = n /\ d.att.offered = s.att.offered
      /\ d.att.outcome = "Failed" /\ d.stats = f.stats
      /\ d.pending = Append(pending, Observation(d.att))
      /\ d.recorded = [recorded EXCEPT ![n] = @ + 1]
  <2>1. f \in State /\ "Failed" \in Outcome /\ "ConnectionLost" \in CloseReason
    BY <1>5 DEF Outcome, CloseReason
  <2>2. /\ d \in State /\ d.att.decided /\ d.att.id = f.att.id
        /\ d.att.offered = f.att.offered /\ d.att.outcome = "Failed" /\ d.stats = f.stats
        /\ d.pending = Append(f.pending, Observation(d.att))
        /\ d.recorded = [f.recorded EXCEPT ![f.att.id] = @ + 1]
    BY ONLY <2>1, DecideFields, SMTT(30)
  <2> HIDE DEF d
  <2>3. QED
    BY ONLY <1>2, <1>5, <2>2
<1> HIDE DEF d
<1>7. /\ r \in State /\ r.att.conn = "closed" /\ r.att.decided = d.att.decided
      /\ r.att.id = n /\ r.att.offered = s.att.offered /\ r.att.outcome = "Failed"
      /\ r.att.close = d.att.close
      /\ r.stats = f.stats /\ r.pending = d.pending /\ r.recorded = d.recorded
  BY <1>6, ClosedFields
<1>8. Observation(r.att) = Observation(d.att)
  BY <1>6, <1>7 DEF Observation
<1> HIDE DEF r
<1>9. /\ attempts' = [j \in DOMAIN attempts \cup {k} |-> IF j = k THEN a ELSE attempts[j]]
      /\ stats' = f.stats /\ pending' = Append(pending, Observation(a))
      /\ recorded' = [recorded EXCEPT ![n] = @ + 1]
  <2>1. /\ attempts' = [j \in DOMAIN attempts \cup {k} |-> IF j = k THEN a ELSE attempts[j]]
        /\ stats' = r.stats /\ pending' = r.pending /\ recorded' = r.recorded
    BY ONLY <1>4 DEF Commit, NoEvents
  <2>2. QED
    BY ONLY <1>6, <1>7, <1>8, <2>1
<1>10. /\ a \in Attempt /\ a.id = n /\ a.offered \in {NoHello, n} /\ a.outcome = "Failed"
       /\ a.decided /\ a.conn = "closed"
  BY <1>2, <1>6, <1>7 DEF State
<1>11. /\ stats' \in Stats /\ stats'.incoming = stats.incoming + 1
       /\ stats'.retries = stats.retries /\ stats'.dropped = stats.dropped
       /\ stats'.accepted = n /\ stats'.completed = stats.completed
       /\ stats'.failed = stats.failed + 1 /\ stats'.timedOut = stats.timedOut
  <2> DEFINE o == [Accepted EXCEPT !.observed = @ + 1]
  <2>1. /\ o \in Stats /\ o.incoming = stats.incoming + 1 /\ o.accepted = stats.accepted + 1
        /\ o.retries = stats.retries /\ o.dropped = stats.dropped
        /\ o.completed = stats.completed /\ o.failed = stats.failed
        /\ o.timedOut = stats.timedOut
    BY <1>1, AcceptedStats DEF Accepted
  <2>2. stats' = [o EXCEPT !["failed"] = @ + 1]
    BY <1>2, <1>5, <1>9
  <2> HIDE DEF o
  <2>3. QED
    BY <1>1, <1>2, <2>1, <2>2 DEF Stats
<1> HIDE DEF a
<1>12. Observation(a) \in Observations /\ Observation(a).offered = a.offered
       /\ Observation(a).id = n /\ Observation(a).outcome = "Failed"
  BY <1>10 DEF Observation, Observations, Attempt
<1>13. /\ DOMAIN attempts' = DOMAIN attempts \cup {k}
       /\ attempts'[k] = a
       /\ \A j \in DOMAIN attempts : j # k /\ attempts'[j] = attempts[j]
  BY <1>3, <1>9
<1>14. \A j \in DOMAIN attempts : /\ attempts[j] \in Attempt /\ attempts[j].id \in Nat
                                  /\ attempts[j].id <= stats.accepted
  BY DEF CoreInv, CoreTypeOK, Attempt, Ids, IdsInv
<1>15. Undecided' = Undecided /\ handshaking' = handshaking
  BY <1>10, <1>13 DEF Undecided, handshaking
<1>16. \A id : InProgress(id)' <=> InProgress(id)
  BY <1>13, <1>15 DEF InProgress, Undecided
<1>17. CoreTypeOK'
  <2>1. recorded' \in [Ids -> Nat] /\ pending' \in Seq(Observations)
    BY <1>2, <1>9, <1>12 DEF CoreInv, CoreTypeOK
  <2>2. DOMAIN attempts' \subseteq Keys /\ \A j \in DOMAIN attempts' : attempts'[j] \in Attempt
    BY <1>3, <1>10, <1>13, <1>14 DEF CoreInv, CoreTypeOK
  <2>3. QED
    BY <1>9, <1>11, <2>1, <2>2 DEF CoreInv, CoreTypeOK
<1>18. IdsInv'
  <2>1. \A j \in DOMAIN attempts : attempts[j].id # n
    BY <1>1, <1>2, <1>14
  <2>2. \A i, j \in DOMAIN attempts' : attempts'[i].id = attempts'[j].id => i = j
    BY <1>10, <1>13, <2>1 DEF CoreInv, IdsInv
  <2>3. \A j \in DOMAIN attempts' : attempts'[j].id <= stats'.accepted
    BY <1>1, <1>2, <1>10, <1>11, <1>13, <1>14
  <2>4. stats'.accepted <= stats'.incoming /\ stats'.incoming <= MaxIncoming
    BY <1>1, <1>2, <1>11
  <2>5. QED
    BY <2>2, <2>3, <2>4 DEF IdsInv
<1>19. DecidedOnce'
  <2>1. \A j \in DOMAIN attempts' : attempts'[j].decided = (attempts'[j].conn = "closed")
    <3>1. a.decided = (a.conn = "closed")
      BY <1>10 DEF Attempt
    <3>2. QED
      BY <1>13, <3>1 DEF CoreInv, DecidedOnce
  <2>2. QED
    BY <1>9, <1>11, <1>15, <1>16, <2>1, ArrivalDecided DEF n
<1>20. HelloBelongs'
  <2>1. \A i \in DOMAIN pending' : pending'[i] = Observation(a)
                                   \/ (i \in DOMAIN pending /\ pending'[i] = pending[i])
    BY <1>9, <1>12 DEF CoreInv, CoreTypeOK
  <2>2. QED
    BY <1>10, <1>12, <1>13, <2>1 DEF CoreInv, HelloBelongs
<1>21. CoreInv'
  BY <1>17, <1>18, <1>19, <1>20 DEF CoreInv, SlotInv
<1>22. stats'.dropped >= stats.dropped
  BY <1>1, <1>11 DEF Stats
<1>23. \E o \in Observations : /\ pending' = Append(pending, o)
                              /\ recorded' = [recorded EXCEPT ![o.id] = @ + 1]
  BY <1>9, <1>12, Zenon
<1>24. QED
  BY <1>21, <1>22, <1>23 DEF Grows

LEMMA AcceptOkPreserves ==
    ASSUME CoreInv, AcceptOk
    PROVE  CoreInv' /\ Grows
<1>1. PICK ev \in QuinnEvents(NewAttempt(NextId)) :
         ~ev.connected /\ Commit(VacantKey, Drive(Admitted(ev.hello), ev), ev)
  BY DEF AcceptOk, Admitted
<1>2. /\ ~AtCapacity /\ stats.incoming < MaxIncoming
      /\ slot' = NoHello /\ accepting' = accepting /\ abandoned' = abandoned
  BY DEF AcceptOk
<1>3. /\ ev.hello \in BOOLEAN /\ ev.lost \in BOOLEAN
      /\ ev.connected = FALSE /\ ev.drained = FALSE
  BY <1>1 DEF QuinnEvents
<1>4. \A s : Commit(VacantKey, s, ev) => Commit(VacantKey, s, NoEvents)
  BY <1>3 DEF Commit, NoEvents
<1>5. CASE ~ev.lost
  <2>1. Drive(Admitted(ev.hello), ev) = Admitted(ev.hello)
    BY <1>3, <1>5 DEF Drive
  <2>2. QED
    BY <1>1, <1>2, <1>3, <1>4, <2>1, AcceptOpen
<1>6. CASE ev.lost
  <2>1. Drive(Admitted(ev.hello), ev) = OnLost(Admitted(ev.hello))
    BY <1>3, <1>6 DEF Drive
  <2>2. QED
    BY <1>1, <1>2, <1>3, <1>4, <2>1, AcceptLost
<1>7. QED
  BY <1>3, <1>5, <1>6

\* A call that neither decides an attempt otherwise than through drive nor
\* counts it as abandoned.
LEMMA ResultPreserves ==
    ASSUME CoreInv, NEW k \in Keys, NEW b, Handled(k, b), NEW r, Result(b, r),
           NEW ev, ev.drained \in BOOLEAN, ev.drained => r.att.decided, Commit(k, r, ev),
           slot' = NoHello, accepting' \in BOOLEAN, abandoned' = abandoned
    PROVE  CoreInv' /\ Grows
<1>1. r \in State
  BY DEF Result
<1>2. CASE Same(b, r)
  <2>1. ev.drained => b.decided
    BY <1>2 DEF Same
  <2>2. CoreInv'
    BY <1>1, <1>2, <2>1, CommitSame
  <2>3. QED
    BY <1>1, <1>2, <2>2, CommitGrows DEF CoreInv
<1>3. CASE \E which \in {"completed", "failed", "timedOut"} : Done(b, r, which)
  <2>1. PICK which \in {"completed", "failed", "timedOut"} : Done(b, r, which)
    BY <1>3
  <2>2. abandoned' = IF which = "abandoned" THEN abandoned + 1 ELSE abandoned
    BY <2>1
  <2>3. CoreInv'
    BY <1>1, <2>1, <2>2, CommitDone
  <2>4. QED
    BY <1>1, <2>1, <2>3, CommitGrows DEF CoreInv
<1>4. QED
  BY <1>2, <1>3 DEF Result

LEMMA ConnectionEventPreserves ==
    ASSUME CoreInv, NEW k \in Keys, ConnectionEvent(k)
    PROVE  CoreInv' /\ Grows
<1> DEFINE a == attempts[k]
<1>1. k \in DOMAIN attempts /\ slot' = NoHello /\ accepting' = accepting /\ abandoned' = abandoned
  BY DEF ConnectionEvent
<1>2. PICK ev \in QuinnEvents(a) :
         Commit(k, Drive(Handling(AttachHello(a, Resolved(a.id, ev.hello))), ev), ev)
  BY DEF ConnectionEvent
<1>3. /\ ev.hello \in BOOLEAN /\ ev.connected \in BOOLEAN /\ ev.lost \in BOOLEAN
      /\ ev.drained = FALSE /\ (ev.connected => ev.hello \/ a.offered # NoHello)
  BY DEF QuinnEvents
<1> DEFINE b == AttachHello(a, Resolved(a.id, ev.hello))
<1>4. Handled(k, b) /\ (ev.hello \/ a.offered # NoHello => b.offered # NoHello)
  BY <1>1, <1>3, HandledHello
<1> HIDE DEF b
<1>5. b \in Attempt /\ b.decided = (b.conn = "closed")
  BY <1>1, <1>4 DEF Handled, CoreInv, DecidedOnce
<1>6. Result(b, Drive(Handling(b), ev))
  BY <1>3, <1>4, <1>5, DriveResult DEF CoreInv
<1>7. Commit(k, Drive(Handling(b), ev), ev)
  BY <1>2 DEF b
<1> DEFINE r == Drive(Handling(b), ev)
<1> HIDE DEF r
<1>8. Result(b, r) /\ Commit(k, r, ev)
  BY <1>6, <1>7 DEF r
<1>9. accepting' \in BOOLEAN
  BY <1>1 DEF CoreInv, CoreTypeOK
<1>10. ev.drained \in BOOLEAN /\ (ev.drained => r.att.decided)
  BY <1>3
<1>11. QED
  BY <1>1, <1>4, <1>8, <1>9, <1>10, ResultPreserves

LEMMA DeadlinePassesPreserves ==
    ASSUME CoreInv, NEW k \in Keys, DeadlinePasses(k)
    PROVE  CoreInv' /\ Undecided' = Undecided
<1>1. /\ k \in DOMAIN attempts /\ attempts' = [attempts EXCEPT ![k].due = TRUE]
      /\ stats' = stats /\ pending' = pending /\ accepting' = accepting /\ slot' = slot
      /\ abandoned' = abandoned /\ recorded' = recorded
  BY DEF DeadlinePasses, Undecided
<1>2. \A j \in DOMAIN attempts : attempts[j] \in Attempt
  BY DEF CoreInv, CoreTypeOK
<1> DEFINE a == [attempts[k] EXCEPT !.due = TRUE]
<1>3. /\ a \in Attempt /\ a.id = attempts[k].id /\ a.conn = attempts[k].conn
      /\ a.decided = attempts[k].decided /\ a.offered = attempts[k].offered
  BY <1>1, <1>2 DEF Attempt
<1>4. DOMAIN attempts' = DOMAIN attempts
      /\ \A j \in DOMAIN attempts : attempts'[j] = IF j = k THEN a ELSE attempts[j]
  BY <1>1
<1> HIDE DEF a
<1>5. \A j \in DOMAIN attempts : /\ attempts'[j] \in Attempt
                                 /\ attempts'[j].id = attempts[j].id
                                 /\ attempts'[j].conn = attempts[j].conn
                                 /\ attempts'[j].decided = attempts[j].decided
                                 /\ attempts'[j].offered = attempts[j].offered
  BY <1>2, <1>3, <1>4
<1>6. Undecided' = Undecided /\ handshaking' = handshaking
  BY <1>4, <1>5 DEF Undecided, handshaking
<1>7. \A id : InProgress(id)' <=> InProgress(id)
  BY <1>5, <1>6 DEF InProgress, Undecided
<1>8. CoreTypeOK' /\ IdsInv' /\ HelloBelongs' /\ SlotInv'
  <2>1. CoreTypeOK'
    BY <1>1, <1>4, <1>5 DEF CoreInv, CoreTypeOK
  <2>2. IdsInv'
    BY <1>1, <1>4, <1>5 DEF CoreInv, IdsInv
  <2>3. HelloBelongs' /\ SlotInv'
    BY <1>1, <1>4, <1>5 DEF CoreInv, HelloBelongs, SlotInv
  <2>4. QED
    BY <2>1, <2>2, <2>3
<1>9. DecidedOnce'
  <2>1. \A j \in DOMAIN attempts' : attempts'[j].decided = (attempts'[j].conn = "closed")
    BY <1>4, <1>5 DEF CoreInv, DecidedOnce
  <2>2. QED
    BY <1>1, <1>6, <1>7, <2>1 DEF CoreInv, DecidedOnce
<1>10. QED
  BY <1>6, <1>8, <1>9 DEF CoreInv

LEMMA TimeoutPreserves ==
    ASSUME CoreInv, NEW k \in Keys, Timeout(k)
    PROVE  CoreInv' /\ Grows
<1> DEFINE a == attempts[k]
           s == Handling(a)
           d == Closed(Decide(Counted(s, "timedOut"), "TimedOut", "LocalDeadline"))
<1>1. k \in DOMAIN attempts /\ slot' = slot /\ accepting' = accepting /\ abandoned' = abandoned
  BY DEF Timeout
<1>2. PICK ev \in TimerEvents(a) :
         Commit(k, Drive(IF ~a.decided /\ a.due /\ a.conn = "open" /\ ~ev.lost THEN d ELSE s, ev),
                ev)
  BY DEF Timeout
<1>3. /\ ev.connected = FALSE /\ ev.lost \in BOOLEAN /\ ev.drained \in BOOLEAN
      /\ IF a.conn = "open" THEN ev.drained = ev.lost ELSE ~ev.lost
  BY DEF TimerEvents
<1>4. Handled(k, a) /\ a \in Attempt /\ a.decided = (a.conn = "closed")
  BY <1>1, HandledItself DEF Handled, CoreInv, DecidedOnce
<1>5. accepting' \in BOOLEAN /\ slot' = NoHello
  BY <1>1 DEF CoreInv, CoreTypeOK, SlotInv
<1>6. CASE ~a.decided /\ a.due /\ a.conn = "open" /\ ~ev.lost
  <2>1. d \in State /\ Done(a, d, "timedOut") /\ d.att.decided
    BY <1>4, <1>6, DecideResult DEF Outcome, CloseReason, CoreInv
  <2>2. Drive(d, ev) = d
    BY <1>3, <1>6 DEF Drive
  <2>3. Commit(k, d, ev)
    BY <1>2, <1>6, <2>2
  <2> HIDE DEF d
  <2>4. Result(a, d)
    BY <2>1 DEF Result
  <2>5. QED
    BY <1>1, <1>3, <1>4, <1>5, <2>1, <2>3, <2>4, ResultPreserves
<1>7. CASE ~(~a.decided /\ a.due /\ a.conn = "open" /\ ~ev.lost)
  <2> DEFINE r == Drive(s, ev)
  <2>1. Result(a, r) /\ (ev.lost => r.att.decided)
    <3>1. ev.connected \in BOOLEAN /\ (ev.connected => a.offered # NoHello)
      BY <1>3
    <3>2. QED
      BY <1>3, <1>4, <3>1, DriveResult DEF CoreInv
  <2>2. Commit(k, r, ev)
    BY <1>2, <1>7
  <2>3. ev.drained => r.att.decided
    <3>1. CASE ev.lost
      BY <2>1, <3>1
    <3>2. CASE ~ev.lost
      <4>1. ev.drained => a.decided
        BY <1>3, <1>4, <3>2 DEF Attempt
      <4>2. r = s /\ s.att = a
        BY <1>3, <1>4, <3>2, HandlingFields DEF Drive, CoreInv
      <4>3. QED
        BY <4>1, <4>2
    <3>3. QED
      BY <1>3, <3>1, <3>2
  <2> HIDE DEF r
  <2>4. QED
    BY <1>1, <1>3, <1>4, <1>5, <2>1, <2>2, <2>3, ResultPreserves
<1>8. QED
  BY <1>6, <1>7

LEMMA DriveNothing == ASSUME NEW s PROVE Drive(s, NoEvents) = s
  BY DEF Drive, NoEvents

LEMMA ShutdownOnePreserves ==
    ASSUME CoreInv, NEW k \in Keys, ShutdownOne(k)
    PROVE  CoreInv' /\ Grows /\ Undecided' = Undecided \ {k}
<1> DEFINE a == attempts[k]
           d == Closed(Decide(Handling(a), "Shutdown", "LocalShutdown"))
<1>1. /\ k \in DOMAIN attempts /\ slot' = slot /\ accepting' = FALSE
      /\ abandoned' = IF a.decided THEN abandoned ELSE abandoned + 1
      /\ Commit(k, IF a.decided THEN Handling(a) ELSE d, NoEvents)
  BY DriveNothing DEF ShutdownOne
<1>2. Handled(k, a) /\ a \in Attempt
  BY <1>1, HandledItself DEF Handled
<1>3. slot' = NoHello /\ accepting' \in BOOLEAN /\ NoEvents.drained = FALSE
  BY <1>1 DEF CoreInv, SlotInv, NoEvents
<1>4. CASE a.decided
  <2>1. Result(a, Handling(a))
    BY <1>2, HandlingFields DEF Result, CoreInv
  <2> DEFINE r == Handling(a)
  <2>2. Commit(k, r, NoEvents) /\ abandoned' = abandoned
    BY <1>1, <1>4
  <2>3. NoEvents.drained \in BOOLEAN /\ (NoEvents.drained => r.att.decided)
    BY <1>3
  <2> HIDE DEF r
  <2>4. CoreInv' /\ Grows
    BY <1>2, <1>3, <2>1, <2>2, <2>3, ResultPreserves DEF r
  <2>5. r.att.decided
    BY <1>2, <1>4, HandlingFields DEF r, CoreInv
  <2>6. Undecided' = Undecided \ {k}
    BY <1>1, <1>3, <2>2, <2>5 DEF Commit, Undecided
  <2>7. QED
    BY <2>4, <2>6
<1>5. CASE ~a.decided
  <2>1. d \in State /\ Done(a, d, "abandoned")
    BY <1>2, <1>5, ShutdownResult DEF CoreInv
  <2> HIDE DEF d
  <2>2. abandoned' = IF "abandoned" = "abandoned" THEN abandoned + 1 ELSE abandoned
    BY <1>1, <1>5
  <2>3. Commit(k, d, NoEvents)
    BY <1>1, <1>5
  <2>4. NoEvents.drained \in BOOLEAN
    BY <1>3
  <2>5. CoreInv'
    BY <1>2, <1>3, <2>1, <2>2, <2>3, <2>4, CommitDone
  <2>6. Grows
    BY <2>1, <2>3, CommitGrows DEF CoreInv
  <2>7. Undecided' = Undecided \ {k}
    BY <1>1, <1>3, <2>1, <2>3 DEF Commit, Undecided, Done
  <2>8. QED
    BY <2>5, <2>6, <2>7
<1>6. QED
  BY <1>4, <1>5

\* A call that touches no attempt.
LEMMA UntouchedPreserves ==
    ASSUME CoreInv, attempts' = attempts, stats' = stats, slot' = slot,
           abandoned' = abandoned, recorded' = recorded, accepting' \in BOOLEAN,
           pending' \in Seq(Observations),
           \A i \in DOMAIN pending' : /\ pending'[i].offered \in {NoHello, pending'[i].id}
                                      /\ pending'[i].outcome = "Completed"
                                            => pending'[i].offered # NoHello
    PROVE  CoreInv'
<1>1. Undecided' = Undecided /\ handshaking' = handshaking
  BY DEF Undecided, handshaking
<1>2. \A id : InProgress(id)' <=> InProgress(id)
  BY <1>1 DEF InProgress
<1>3. CoreTypeOK' /\ IdsInv' /\ SlotInv' /\ HelloBelongs'
  BY DEF CoreInv, CoreTypeOK, IdsInv, SlotInv, HelloBelongs
<1>4. DecidedOnce'
  BY <1>1, <1>2 DEF CoreInv, DecidedOnce
<1>5. QED
  BY <1>3, <1>4 DEF CoreInv

LEMMA StopAcceptingPreserves ==
    ASSUME CoreInv, StopAccepting
    PROVE  CoreInv'
<1>1. /\ accepting' = FALSE /\ attempts' = attempts /\ stats' = stats /\ pending' = pending
      /\ slot' = slot /\ abandoned' = abandoned /\ recorded' = recorded
  BY DEF StopAccepting
<1>2. QED
  BY <1>1, UntouchedPreserves DEF CoreInv, CoreTypeOK, HelloBelongs

LEMMA DrainOnePreserves ==
    ASSUME CoreInv, DrainOne
    PROVE  CoreInv'
<1>1. /\ pending # <<>> /\ pending' = Tail(pending) /\ attempts' = attempts /\ stats' = stats
      /\ accepting' = accepting /\ slot' = slot /\ abandoned' = abandoned
      /\ recorded' = recorded
  BY DEF DrainOne
<1>2. pending \in Seq(Observations) /\ accepting \in BOOLEAN
  BY DEF CoreInv, CoreTypeOK
<1>3. /\ pending' \in Seq(Observations)
      /\ \A i \in DOMAIN pending' : i + 1 \in DOMAIN pending /\ pending'[i] = pending[i + 1]
  BY <1>1, <1>2
<1>4. \A i \in DOMAIN pending' : /\ pending'[i].offered \in {NoHello, pending'[i].id}
                                 /\ pending'[i].outcome = "Completed"
                                       => pending'[i].offered # NoHello
  BY <1>3 DEF CoreInv, HelloBelongs
<1>5. QED
  BY <1>1, <1>2, <1>3, <1>4, UntouchedPreserves

LEMMA CoreInitInv == CoreInit => CoreInv
<1> SUFFICES ASSUME CoreInit
             PROVE  CoreInv
  OBVIOUS
<1>1. attempts = <<>> /\ DOMAIN attempts = {}
  BY DEF CoreInit
<1>2. Undecided = {} /\ handshaking = 0
  BY <1>1, FS_EmptySet DEF Undecided, handshaking
<1>3. MaxIncoming \in Nat /\ MaxConcurrent \in Nat
  BY CoreConfig
<1>4. stats \in Stats /\ stats.incoming = 0 /\ stats.accepted = 0 /\ stats.retries = 0
      /\ stats.dropped = 0 /\ stats.completed = 0 /\ stats.failed = 0 /\ stats.timedOut = 0
  BY DEF CoreInit, Stats
<1>5. CoreTypeOK
  BY <1>1, <1>3, <1>4 DEF CoreInit, CoreTypeOK
<1>6. IdsInv /\ SlotInv /\ HelloBelongs
  BY <1>1, <1>3, <1>4 DEF CoreInit, IdsInv, SlotInv, HelloBelongs
<1>7. DecidedOnce
  <2>1. \A id \in Ids : recorded[id] = IF id <= stats.accepted /\ ~InProgress(id) THEN 1 ELSE 0
    BY <1>3, <1>4 DEF CoreInit, Ids
  <2>2. /\ stats.accepted = stats.completed + stats.failed + stats.timedOut
                            + abandoned + handshaking
        /\ handshaking <= MaxConcurrent
    BY <1>2, <1>3, <1>4 DEF CoreInit
  <2>3. stats.incoming = stats.retries + stats.dropped + stats.accepted
    BY <1>4
  <2>4. QED
    BY <1>1, <2>1, <2>2, <2>3 DEF DecidedOnce
<1>8. QED
  BY <1>5, <1>6, <1>7 DEF CoreInv

LEMMA CoreNextInv ==
    ASSUME CoreInv, [CoreNext]_coreVars
    PROVE  CoreInv'
<1>1. CASE UNCHANGED coreVars
  <2>1. /\ accepting' = accepting /\ attempts' = attempts /\ stats' = stats
        /\ pending' = pending /\ slot' = slot /\ abandoned' = abandoned /\ recorded' = recorded
    BY <1>1 DEF coreVars
  <2>2. QED
    BY <2>1, UntouchedPreserves DEF CoreInv, CoreTypeOK, HelloBelongs
<1>2. CASE HandleIncoming
  BY <1>2, RetryPreserves, RefusePreserves, AcceptOkPreserves, AcceptErrPreserves
     DEF HandleIncoming
<1>3. CASE \E k \in Keys : \/ ConnectionEvent(k) \/ DeadlinePasses(k)
                           \/ Timeout(k) \/ ShutdownOne(k)
  BY <1>3, ConnectionEventPreserves, DeadlinePassesPreserves, TimeoutPreserves,
     ShutdownOnePreserves
<1>4. CASE StopAccepting \/ DrainOne
  BY <1>4, StopAcceptingPreserves, DrainOnePreserves
<1>5. QED
  BY <1>1, <1>2, <1>3, <1>4 DEF CoreNext

\* ServerCore keeps its invariant under any caller.
THEOREM CoreInvariance == CoreSpec => []CoreInv
<1>1. CoreInit => CoreInv
  BY CoreInitInv
<1>2. CoreInv /\ [CoreNext]_coreVars => CoreInv'
  BY CoreNextInv
<1>3. QED
  BY <1>1, <1>2, PTL DEF CoreSpec

----------------------------------------------------------------------------
(* DiagServer::run is one such caller.                                     *)

LEMMA RunStepIsCoreStep ==
    ASSUME [Next]_vars
    PROVE  [CoreNext]_coreVars
<1>1. CASE UNCHANGED vars
  BY <1>1 DEF vars
<1>2. CASE CheckStop \/ StepErr
  BY <1>2 DEF CheckStop, StepErr, Break, CoreNext
<1>3. CASE Receive
  BY <1>3 DEF Receive, CoreNext
<1>4. CASE \E k \in Keys : HandleTimeouts(k) \/ CloseOne(k)
  BY <1>4 DEF HandleTimeouts, CloseOne, CoreNext
<1>5. CASE Drain
  BY <1>5 DEF Drain, CoreNext
<1>6. CASE Start \/ Report \/ StepOk \/ Grace \/ Shutdown \/ ClosedAll
  BY <1>6 DEF Start, Report, StepOk, Grace, Shutdown, ClosedAll
<1>7. CASE LastReport \/ ReadError \/ QueueStopped \/ Return
  BY <1>7 DEF LastReport, ReadError, QueueStopped, Return
<1>8. CASE SinkStep
  BY <1>8 DEF SinkStep, Take, SinkReturns, StoreError, SinkDone
<1>9. CASE RequestStop \/ GraceElapses
  BY <1>9 DEF RequestStop, GraceElapses
<1>10. CASE \E k \in Keys : DeadlineElapses(k)
  BY <1>10 DEF DeadlineElapses, CoreNext
<1>11. QED
  BY <1>1, <1>2, <1>3, <1>4, <1>5, <1>6, <1>7, <1>8, <1>9, <1>10 DEF Next, Run

\* What DiagServer::run does to the core is what some caller may do.
THEOREM RunUsesCore == Spec => CoreSpec
<1>1. Init => CoreInit
  BY DEF Init
<1>2. [Next]_vars => [CoreNext]_coreVars
  BY RunStepIsCoreStep
<1>3. QED
  BY <1>1, <1>2, PTL DEF Spec, CoreSpec

\* The core's state has its type throughout a run of the server.
THEOREM TypeCorrect == Spec => []CoreTypeOK
<1>1. CoreInv => CoreTypeOK
  BY DEF CoreInv
<1>2. QED
  BY <1>1, RunUsesCore, CoreInvariance, PTL

\* Every attempt DiagServer::run accepted is recorded once and counted under
\* one outcome as soon as it is over, and never more than max_concurrent are
\* in progress.
THEOREM DecidedCorrect == Spec => []DecidedOnce
<1>1. CoreInv => DecidedOnce
  BY DEF CoreInv
<1>2. QED
  BY <1>1, RunUsesCore, CoreInvariance, PTL

\* No observation holds the ClientHello of another connection, and that of a
\* completed handshake holds its own.
THEOREM HelloCorrect == Spec => []HelloBelongs
<1>1. CoreInv => HelloBelongs
  BY DEF CoreInv
<1>2. QED
  BY <1>1, RunUsesCore, CoreInvariance, PTL

----------------------------------------------------------------------------
(* The records of a run: which are queued, which were dropped, and what    *)
(* the last one says.                                                      *)

\* The places of run from which its summary exists, from which every refused
\* attempt was reported, from which nothing is pending, and from which no
\* attempt is in progress.
Late == {"QueueStopped", "AwaitSink", "Returned"}
LastReported == Late \cup {"ReadError"}
Drained == LastReported \cup {"LastReport"}
Settled == Drained \cup {"DrainLast"}

Reasons == StopReason \cup {"None"}
Errors == {"None", "socket", "sink"}
Summary == [stats : Stats, recordsDropped : Nat, abandoned : Nat, reason : Reasons,
            error : Errors]
Events == {Started} \cup [kind : {"Connection"}, id : Ids]
          \cup [kind : {"Overload"}, droppedSinceLast : Nat, totalDropped : Nat]
          \cup [kind : {"Stopped"}, summary : Summary]

RunTypeOK ==
    /\ log \in Seq(Events)
    /\ recordsDropped \in Nat /\ droppedReported \in Nat /\ droppedReported <= stats.dropped
    /\ reason \in Reasons /\ error \in Errors /\ sinkError \in Errors

Connections == {j \in DOMAIN log : log[j].kind = "Connection"}

\* The decided attempts whose record is neither queued nor still to come.
Missing == {id \in Ids : /\ recorded[id] = 1
                         /\ \A i \in DOMAIN pending : pending[i].id # id
                         /\ \A j \in Connections : log[j].id # id}

\* No attempt has two records, no attempt in progress has one, and no more
\* are missing than were counted.
RecordsInv ==
    /\ \A i, j \in DOMAIN pending : pending[i].id = pending[j].id => i = j
    /\ \A i, j \in Connections : log[i].id = log[j].id => i = j
    /\ \A i \in DOMAIN pending : /\ recorded[pending[i].id] = 1
                                 /\ \A j \in Connections : log[j].id # pending[i].id
    /\ \A j \in Connections : recorded[log[j].id] = 1
    /\ Cardinality(Missing) <= recordsDropped

\* The refused attempts that the overload records account for.
Covered == IF pc \in LastReported THEN stats.dropped ELSE droppedReported

OverloadInv ==
    recordsDropped = 0 =>
        /\ \A k \in Overloads : Reported(k, log[k].totalDropped - log[k].droppedSinceLast)
        /\ Reported(Len(log) + 1, Covered)

\* Stopped is queued last, as the summary that still holds.
StoppedInv ==
    /\ \A i \in DOMAIN log : log[i].kind = "Stopped" =>
          /\ pc \in {"AwaitSink", "Returned"} /\ i = Len(log) /\ log[i].summary = summary
          /\ recordsDropped = summary.recordsDropped
    /\ pc \in Late => /\ summary \in Summary
                      /\ summary.stats = stats /\ summary.abandoned = abandoned
    /\ pc = "QueueStopped" => recordsDropped = summary.recordsDropped

\* The shutdown visits every attempt in progress; once it is over there is
\* none, and then what is pending is drained.
PlaceInv ==
    /\ pc = "Closing" => Undecided \subseteq keys
    /\ pc \in Settled => Undecided = {}
    /\ pc \in Drained => pending = <<>>

RunInv == RunTypeOK /\ RecordsInv /\ OverloadInv /\ StoppedInv /\ PlaceInv

\* What a step does to the log: nothing, one event queued, one counted.
Kept    == log' = log /\ recordsDropped' = recordsDropped
Sent(e) == log' = Append(log, e) /\ recordsDropped' = recordsDropped
Lost    == log' = log /\ recordsDropped' = recordsDropped + 1

LEMMA EmitLogs ==
    ASSUME NEW e, Emit(e)
    PROVE  Sent(e) \/ Lost
  BY DEF Emit, Sent, Lost

LEMMA EventFields ==
    ASSUME NEW e \in Events
    PROVE  /\ e.kind = "Connection" => e.id \in Ids
           /\ e.kind = "Overload" => e.droppedSinceLast \in Nat /\ e.totalDropped \in Nat
           /\ e.kind = "Stopped" => e.summary \in Summary
<1>1. CASE e = Started
  BY <1>1 DEF Started
<1>2. CASE e \in [kind : {"Connection"}, id : Ids]
  BY <1>2
<1>3. CASE e \in [kind : {"Overload"}, droppedSinceLast : Nat, totalDropped : Nat]
  BY <1>3
<1>4. CASE e \in [kind : {"Stopped"}, summary : Summary]
  BY <1>4
<1>5. QED
  BY <1>1, <1>2, <1>3, <1>4 DEF Events

LEMMA AppendFields ==
    ASSUME NEW S, NEW q \in Seq(S), NEW e \in S
    PROVE  /\ Len(q) \in Nat /\ DOMAIN q = 1..Len(q)
           /\ Append(q, e) \in Seq(S) /\ Len(Append(q, e)) = Len(q) + 1
           /\ DOMAIN Append(q, e) = 1..(Len(q) + 1)
           /\ Append(q, e)[Len(q) + 1] = e
           /\ \A k \in 1..Len(q) : Append(q, e)[k] = q[k]
           /\ Len(q) + 1 \notin 1..Len(q)
           /\ 1..(Len(q) + 1) = (1..Len(q)) \cup {Len(q) + 1}
  OBVIOUS

\* The log after an event was queued.
LEMMA LogSent ==
    ASSUME RunTypeOK, NEW e \in Events, Sent(e)
    PROVE  /\ Len(log) \in Nat /\ DOMAIN log = 1..Len(log)
           /\ log' \in Seq(Events) /\ Len(log') = Len(log) + 1
           /\ DOMAIN log' = (1..Len(log)) \cup {Len(log) + 1}
           /\ log'[Len(log) + 1] = e
           /\ \A k \in 1..Len(log) : log'[k] = log[k]
           /\ Len(log) + 1 \notin 1..Len(log)
<1>1. log \in Seq(Events) /\ log' = Append(log, e)
  BY DEF RunTypeOK, Sent
<1>2. QED
  BY <1>1, AppendFields

LEMMA IdsFinite == IsFiniteSet(Ids)
  BY CoreConfig, FS_Interval DEF Ids

LEMMA MissingFinite == IsFiniteSet(Missing) /\ Cardinality(Missing) \in Nat
<1>1. Missing \subseteq Ids
  BY DEF Missing
<1>2. IsFiniteSet(Missing)
  BY <1>1, IdsFinite, FS_Subset
<1>3. QED
  BY <1>2, FS_CardinalityType

\* A call of the core, with nothing queued for the sink.
LEMMA RecordsKept ==
    ASSUME CoreInv, CoreInv', RunTypeOK, RecordsInv, Kept, Grows
    PROVE  RecordsInv'
<1>1. log' = log /\ recordsDropped' = recordsDropped /\ Connections' = Connections
  BY DEF Kept, Connections
<1>2. CASE pending' = pending /\ recorded' = recorded
  <2>1. Missing' = Missing
    BY <1>1, <1>2 DEF Missing
  <2>2. QED
    BY <1>1, <1>2, <2>1 DEF RecordsInv
<1>3. CASE \E o \in Observations : /\ pending' = Append(pending, o)
                                   /\ recorded' = [recorded EXCEPT ![o.id] = @ + 1]
  <2>1. PICK o \in Observations : /\ pending' = Append(pending, o)
                                  /\ recorded' = [recorded EXCEPT ![o.id] = @ + 1]
    BY <1>3
  <2>2. /\ pending \in Seq(Observations) /\ recorded \in [Ids -> Nat] /\ o.id \in Ids
    BY DEF CoreInv, CoreTypeOK, Observations
  <2> DEFINE m == Len(pending)
  <2>3. /\ m \in Nat /\ DOMAIN pending = 1..m /\ DOMAIN pending' = (1..m) \cup {m + 1}
        /\ pending'[m + 1] = o /\ \A i \in 1..m : pending'[i] = pending[i]
    BY <2>1, <2>2, AppendFields
  <2> HIDE DEF m
  <2>4. /\ recorded'[o.id] = recorded[o.id] + 1
        /\ \A id \in Ids : id # o.id => recorded'[id] = recorded[id]
    BY <2>1, <2>2
  <2>5. recorded'[o.id] \in {0, 1}
    BY <2>2 DEF CoreInv, DecidedOnce
  <2>6. recorded[o.id] = 0 /\ recorded'[o.id] = 1
    BY <2>2, <2>4, <2>5
  <2>7. \A i \in 1..m : pending[i].id \in Ids /\ pending[i].id # o.id
                        /\ recorded[pending[i].id] = 1
    <3>1. \A i \in 1..m : pending[i] \in Observations
      BY <2>2, <2>3
    <3>2. QED
      BY <2>3, <2>6, <3>1 DEF RecordsInv, Observations
  <2>8. \A j \in Connections : log[j].id \in Ids /\ log[j].id # o.id /\ recorded[log[j].id] = 1
    <3>1. \A j \in Connections : log[j] \in Events /\ log[j].kind = "Connection"
      BY DEF Connections, RunTypeOK
    <3>2. \A j \in Connections : log[j].id \in Ids
      BY <3>1, EventFields
    <3>3. QED
      BY <2>6, <3>2 DEF RecordsInv
  <2>9. \A i, j \in DOMAIN pending' : pending'[i].id = pending'[j].id => i = j
    BY <2>3, <2>7 DEF RecordsInv
  <2>10. \A i \in DOMAIN pending' : /\ recorded'[pending'[i].id] = 1
                                    /\ \A j \in Connections : log[j].id # pending'[i].id
    BY <2>3, <2>4, <2>6, <2>7, <2>8 DEF RecordsInv
  <2>11. \A j \in Connections : recorded'[log[j].id] = 1
    BY <2>4, <2>8
  <2>12. Missing' = Missing
    <3>1. o.id \notin Missing /\ o.id \notin Missing'
      BY <2>3, <2>6 DEF Missing
    <3>2. \A id \in Ids \ {o.id} : (\A i \in DOMAIN pending' : pending'[i].id # id)
                                   <=> (\A i \in DOMAIN pending : pending[i].id # id)
      BY <2>3
    <3>3. \A id \in Ids \ {o.id} : id \in Missing' <=> id \in Missing
      BY <1>1, <2>4, <3>2 DEF Missing
    <3>4. Missing \subseteq Ids /\ Missing' \subseteq Ids
      BY DEF Missing
    <3>5. QED
      BY <3>1, <3>3, <3>4
  <2>13. QED
    BY <1>1, <2>9, <2>10, <2>11, <2>12 DEF RecordsInv
<1>4. QED
  BY <1>2, <1>3 DEF Grows

\* An event that is no Connection record is queued or counted.
LEMMA RecordsEmit ==
    ASSUME RunTypeOK, RecordsInv, pending' = pending, recorded' = recorded,
           NEW e \in Events, e.kind # "Connection", Sent(e) \/ Lost
    PROVE  RecordsInv'
<1>1. /\ Connections' = Connections
      /\ \A j \in Connections : log'[j] = log[j]
  <2>1. CASE Sent(e)
    BY <2>1, LogSent DEF Connections
  <2>2. CASE Lost
    BY <2>2 DEF Connections, Lost
  <2>3. QED
    BY <2>1, <2>2
<1>2. Missing' = Missing
  BY <1>1 DEF Missing
<1>3. Cardinality(Missing)' <= recordsDropped'
  <2>1. Cardinality(Missing) <= recordsDropped /\ recordsDropped \in Nat
    BY DEF RecordsInv, RunTypeOK
  <2>2. recordsDropped' = recordsDropped \/ recordsDropped' = recordsDropped + 1
    BY DEF Sent, Lost
  <2>3. QED
    BY <1>2, <2>1, <2>2, MissingFinite
<1>4. QED
  BY <1>1, <1>3 DEF RecordsInv

\* The first pending observation is queued or counted.
LEMMA RecordsDrain ==
    ASSUME CoreInv, RunTypeOK, RecordsInv, pending # <<>>, pending' = Tail(pending),
           recorded' = recorded, Sent(Connection(Head(pending).id)) \/ Lost
    PROVE  RecordsInv'
<1> DEFINE n == Head(pending).id
           m == Len(pending)
<1>1. /\ pending \in Seq(Observations) /\ m \in Nat /\ m >= 1 /\ DOMAIN pending = 1..m
      /\ DOMAIN pending' = 1..(m - 1) /\ \A i \in 1..(m - 1) : pending'[i] = pending[i + 1]
      /\ n = pending[1].id /\ pending[1] \in Observations
  BY DEF CoreInv, CoreTypeOK
<1>2. n \in Ids
  BY <1>1 DEF Observations
<1> HIDE DEF n, m
<1>3. /\ recorded[n] = 1 /\ \A j \in Connections : log[j].id # n
      /\ \A i \in 1..(m - 1) : pending'[i].id # n
  BY <1>1 DEF RecordsInv
<1>4. /\ \A i, j \in DOMAIN pending' : pending'[i].id = pending'[j].id => i = j
      /\ \A i \in DOMAIN pending' : /\ recorded[pending'[i].id] = 1
                                    /\ \A j \in Connections : log[j].id # pending'[i].id
  <2>1. \A i \in 1..(m - 1) : i + 1 \in DOMAIN pending
    BY <1>1
  <2>2. \A i, j \in DOMAIN pending' : pending'[i].id = pending'[j].id => i = j
    BY <1>1, <2>1 DEF RecordsInv
  <2>3. QED
    BY <1>1, <2>1, <2>2 DEF RecordsInv
<1>5. \A id : (\A i \in DOMAIN pending : pending[i].id # id)
              <=> (id # n /\ \A i \in DOMAIN pending' : pending'[i].id # id)
  <2>1. \A i \in 2..m : i - 1 \in 1..(m - 1) /\ pending'[i - 1] = pending[i]
    BY <1>1
  <2>2. 1..m = {1} \cup 2..m /\ \A i \in 1..(m - 1) : i + 1 \in 1..m
    BY <1>1
  <2>3. TAKE id
  <2>4. ASSUME \A i \in DOMAIN pending : pending[i].id # id
        PROVE  id # n /\ \A i \in DOMAIN pending' : pending'[i].id # id
    BY <1>1, <2>2, <2>4
  <2>5. ASSUME id # n, \A i \in DOMAIN pending' : pending'[i].id # id, NEW i \in DOMAIN pending
        PROVE  pending[i].id # id
    <3>1. CASE i = 1
      BY <1>1, <2>5, <3>1
    <3>2. CASE i \in 2..m
      BY <1>1, <2>1, <2>5, <3>2
    <3>3. QED
      BY <1>1, <2>2, <2>5, <3>1, <3>2
  <2>6. QED
    BY <2>4, <2>5
<1>6. Cardinality(Missing) <= recordsDropped /\ recordsDropped \in Nat
  BY DEF RecordsInv, RunTypeOK
<1>7. CASE Sent(Connection(n))
  <2> DEFINE e == Connection(n)
             l == Len(log) + 1
  <2>1. e \in Events /\ e.kind = "Connection" /\ e.id = n
    BY <1>2 DEF Connection, Events
  <2> HIDE DEF e
  <2>2. /\ Connections' = Connections \cup {l} /\ log'[l] = e /\ l \notin Connections
        /\ \A j \in Connections : log'[j] = log[j]
    <3>1. /\ DOMAIN log = 1..Len(log) /\ DOMAIN log' = (1..Len(log)) \cup {l}
          /\ log'[l] = e /\ (\A k \in 1..Len(log) : log'[k] = log[k]) /\ l \notin 1..Len(log)
      BY <1>7, <2>1, LogSent DEF e
    <3>2. QED
      BY <2>1, <3>1 DEF Connections
  <2> HIDE DEF l
  <2>3. \A i, j \in Connections' : log'[i].id = log'[j].id => i = j
    BY <1>3, <2>1, <2>2 DEF RecordsInv
  <2>4. \A i \in DOMAIN pending' : \A j \in Connections' : log'[j].id # pending'[i].id
    BY <1>1, <1>3, <1>4, <2>1, <2>2
  <2>5. \A j \in Connections' : recorded[log'[j].id] = 1
    BY <1>3, <2>1, <2>2 DEF RecordsInv
  <2>6. \A id : (\A j \in Connections' : log'[j].id # id)
                <=> (id # n /\ \A j \in Connections : log[j].id # id)
    BY <2>1, <2>2
  <2>7. Missing' = Missing
    <3>1. \A id \in Ids : id \in Missing' <=> id \in Missing
      BY <1>5, <2>6 DEF Missing
    <3>2. Missing \subseteq Ids /\ Missing' \subseteq Ids
      BY DEF Missing
    <3>3. QED
      BY <3>1, <3>2
  <2>8. recordsDropped' = recordsDropped
    BY <1>7 DEF Sent
  <2>9. QED
    BY <1>4, <1>6, <2>3, <2>4, <2>5, <2>7, <2>8 DEF RecordsInv
<1>8. CASE Lost
  <2>1. log' = log /\ recordsDropped' = recordsDropped + 1 /\ Connections' = Connections
    BY <1>8 DEF Lost, Connections
  <2>2. Missing' = Missing \cup {n}
    <3>1. \A id \in Ids : id \in Missing' <=> id \in Missing \/ id = n
      <4>1. n \in Missing'
        BY <1>1, <1>2, <1>3, <2>1 DEF Missing
      <4>2. \A id \in Ids \ {n} : id \in Missing' <=> id \in Missing
        BY <1>5, <2>1 DEF Missing
      <4>3. QED
        BY <4>1, <4>2
    <3>2. Missing \subseteq Ids /\ Missing' \subseteq Ids
      BY DEF Missing
    <3>3. QED
      BY <1>2, <3>1, <3>2
  <2>3. n \notin Missing
    BY <1>5 DEF Missing
  <2>4. Cardinality(Missing') = Cardinality(Missing) + 1
    BY <2>2, <2>3, MissingFinite, FS_AddElement
  <2>5. Cardinality(Missing') <= recordsDropped'
    BY <1>6, <2>1, <2>4, MissingFinite
  <2>6. QED
    BY <1>4, <2>1, <2>5 DEF RecordsInv
<1>9. QED
  BY <1>7, <1>8 DEF n

\* The overload records, when neither the log nor what they cover changes.
LEMMA OverloadKept ==
    ASSUME RunTypeOK, OverloadInv, Kept, Covered' = Covered
    PROVE  OverloadInv'
<1>1. log' = log /\ recordsDropped' = recordsDropped /\ Overloads' = Overloads
  BY DEF Overloads, Kept
<1>2. QED
  BY <1>1 DEF OverloadInv, Reported

\* When a record was dropped nothing is claimed of them.
LEMMA OverloadLost ==
    ASSUME RunTypeOK, Lost
    PROVE  OverloadInv'
<1>1. recordsDropped' # 0
  BY DEF RunTypeOK, Lost
<1>2. QED
  BY <1>1 DEF OverloadInv

\* When an event of another kind is queued.
LEMMA OverloadOther ==
    ASSUME RunTypeOK, OverloadInv, NEW e \in Events, Sent(e), e.kind # "Overload",
           Covered' = Covered
    PROVE  OverloadInv'
<1>1. /\ Len(log) \in Nat /\ DOMAIN log = 1..Len(log) /\ Len(log') = Len(log) + 1
      /\ DOMAIN log' = (1..Len(log)) \cup {Len(log) + 1} /\ log'[Len(log) + 1] = e
      /\ \A k \in DOMAIN log : log'[k] = log[k]
  BY LogSent
<1>2. Overloads' = Overloads
  BY <1>1 DEF Overloads
<1>3. \A k \in Overloads : k \in DOMAIN log /\ log'[k] = log[k]
  BY <1>1 DEF Overloads
<1> SUFFICES ASSUME recordsDropped = 0
             PROVE  /\ \A k \in Overloads' :
                          Reported(k, log[k].totalDropped - log[k].droppedSinceLast)'
                    /\ Reported(Len(log) + 1, Covered)'
  BY DEF OverloadInv, Sent
<1>4. \A k \in Overloads' : Reported(k, log[k].totalDropped - log[k].droppedSinceLast)'
  <2> SUFFICES ASSUME NEW k \in Overloads
               PROVE  Reported(k, log[k].totalDropped - log[k].droppedSinceLast)'
    BY <1>2
  <2>1. Reported(k, log[k].totalDropped - log[k].droppedSinceLast)
    BY DEF OverloadInv
  <2>2. QED
    BY <1>2, <1>3, <2>1 DEF Reported
<1>5. Reported(Len(log) + 1, Covered)'
  <2>1. Reported(Len(log) + 1, Covered)
    BY DEF OverloadInv
  <2>2. \A j \in Overloads : j < Len(log) + 1 /\ j < Len(log') + 1
    BY <1>1, <1>3
  <2>3. QED
    BY <1>2, <1>3, <2>1, <2>2 DEF Reported
<1>6. QED
  BY <1>4, <1>5

\* When an overload record is queued that counts from what was covered.
LEMMA OverloadSent ==
    ASSUME RunTypeOK, OverloadInv, NEW e \in Events, Sent(e), e.kind = "Overload",
           e.totalDropped - e.droppedSinceLast = Covered, Covered' = e.totalDropped
    PROVE  OverloadInv'
<1>1. /\ Len(log) \in Nat /\ DOMAIN log = 1..Len(log) /\ Len(log') = Len(log) + 1
      /\ DOMAIN log' = (1..Len(log)) \cup {Len(log) + 1} /\ log'[Len(log) + 1] = e
      /\ \A k \in DOMAIN log : log'[k] = log[k]
  BY LogSent
<1>2. Overloads' = Overloads \cup {Len(log) + 1}
  BY <1>1 DEF Overloads
<1>3. \A k \in Overloads : k \in DOMAIN log /\ log'[k] = log[k] /\ k < Len(log) + 1
  BY <1>1 DEF Overloads
<1> SUFFICES ASSUME recordsDropped = 0
             PROVE  /\ \A k \in Overloads' :
                          Reported(k, log[k].totalDropped - log[k].droppedSinceLast)'
                    /\ Reported(Len(log) + 1, Covered)'
  BY DEF OverloadInv, Sent
<1>4. \A k \in Overloads' : Reported(k, log[k].totalDropped - log[k].droppedSinceLast)'
  <2> SUFFICES ASSUME NEW k \in Overloads'
               PROVE  Reported(k, log[k].totalDropped - log[k].droppedSinceLast)'
    OBVIOUS
  <2>1. CASE k \in Overloads
    <3>1. Reported(k, log[k].totalDropped - log[k].droppedSinceLast)
      BY <2>1 DEF OverloadInv
    <3>2. \A j \in Overloads' : j < k => j \in Overloads
      BY <1>1, <1>2, <1>3, <2>1
    <3>3. QED
      BY <1>2, <1>3, <2>1, <3>1, <3>2 DEF Reported
  <2>2. CASE k = Len(log) + 1
    <3>1. Reported(Len(log) + 1, Covered)
      BY DEF OverloadInv
    <3>2. \A j \in Overloads' : j < k <=> j \in Overloads
      BY <1>1, <1>2, <1>3, <2>2
    <3>3. log'[k].totalDropped - log'[k].droppedSinceLast = Covered
      BY <1>1, <2>2
    <3>4. QED
      BY <1>2, <1>3, <2>2, <3>1, <3>2, <3>3 DEF Reported
  <2>3. QED
    BY <1>2, <2>1, <2>2
<1>5. Reported(Len(log) + 1, Covered)'
  <2>1. Len(log) + 1 \in Overloads' /\ Len(log) + 1 < Len(log') + 1
    BY <1>1, <1>2
  <2>2. \A j \in Overloads' : j <= Len(log) + 1
    BY <1>1, <1>2, <1>3
  <2>3. log'[Len(log) + 1].totalDropped = Covered'
    BY <1>1
  <2>4. QED
    BY <2>1, <2>2, <2>3 DEF Reported
<1>6. QED
  BY <1>4, <1>5

----------------------------------------------------------------------------
(* The steps of run, of the sink thread and of the clock.                  *)

\* A step that queues nothing and does not touch what was summarised.
LEMMA KeepPreserves ==
    ASSUME CoreInv, CoreInv', RunInv, Kept, Grows,
           droppedReported' = droppedReported, summary' = summary,
           reason' \in Reasons, error' \in Errors, sinkError' \in Errors,
           \/ pc \notin LastReported /\ pc' \notin LastReported
           \/ /\ stats' = stats /\ abandoned' = abandoned
              /\ pc' = pc \/ (pc = "AwaitSink" /\ pc' = "Returned"),
           PlaceInv'
    PROVE  RunInv'
<1>1. log' = log /\ recordsDropped' = recordsDropped
  BY DEF Kept
<1>2. RunTypeOK'
  <2>1. stats.dropped \in Nat /\ stats'.dropped \in Nat /\ stats'.dropped >= stats.dropped
    BY DEF CoreInv, CoreTypeOK, Stats, Grows
  <2>2. droppedReported' <= stats'.dropped
    BY <2>1 DEF RunInv, RunTypeOK
  <2>3. QED
    BY <1>1, <2>2 DEF RunInv, RunTypeOK
<1>3. RecordsInv'
  BY RecordsKept DEF RunInv
<1>4. OverloadInv'
  <2>1. Covered' = Covered
    BY DEF Covered, LastReported, Late
  <2>2. QED
    BY <2>1, OverloadKept DEF RunInv
<1>5. StoppedInv'
  BY <1>1 DEF RunInv, StoppedInv, LastReported, Late
<1>6. QED
  BY <1>2, <1>3, <1>4, <1>5 DEF RunInv

LEMMA UntouchedGrows ==
    ASSUME CoreInv, stats' = stats, pending' = pending, recorded' = recorded
    PROVE  Grows
<1>1. stats.dropped \in Nat
  BY DEF CoreInv, CoreTypeOK, Stats
<1>2. QED
  BY <1>1 DEF Grows

LEMMA HandleIncomingGrows ==
    ASSUME CoreInv, HandleIncoming
    PROVE  Grows
  BY RetryPreserves, RefusePreserves, AcceptOkPreserves, AcceptErrPreserves DEF HandleIncoming

LEMMA WorkPreserves ==
    ASSUME CoreInv, CoreInv', RunInv,
           CheckStop \/ Receive \/ StepErr \/ StepOk \/ Grace \/ Shutdown
           \/ \E k \in Keys : HandleTimeouts(k) \/ CloseOne(k)
    PROVE  RunInv'
<1>1. Kept /\ droppedReported' = droppedReported /\ summary' = summary /\ sinkError' = sinkError
      /\ reason' \in Reasons /\ error' \in Errors
  <2>1. reason \in Reasons /\ error \in Errors
    BY DEF RunInv, RunTypeOK
  <2>2. CASE CheckStop
    BY <2>1, <2>2 DEF CheckStop, Break, Kept, emitVars, sinkVars, Reasons, StopReason
  <2>3. CASE StepErr
    BY <2>1, <2>3 DEF StepErr, Break, Kept, emitVars, sinkVars, Reasons, StopReason, Errors
  <2>4. CASE Receive \/ StepOk \/ Grace \/ Shutdown
    BY <2>1, <2>4 DEF Receive, StepOk, Grace, Shutdown, Kept, locals, sinkVars
  <2>5. CASE \E k \in Keys : HandleTimeouts(k) \/ CloseOne(k)
    BY <2>1, <2>5 DEF HandleTimeouts, CloseOne, Kept, locals, sinkVars
  <2>6. QED
    BY <2>2, <2>3, <2>4, <2>5
<1>2. Grows
  <2>1. CASE CheckStop \/ StepErr \/ StepOk \/ Grace \/ Shutdown
    <3>1. stats' = stats /\ pending' = pending /\ recorded' = recorded
      BY <2>1 DEF CheckStop, StepErr, StepOk, Grace, Shutdown, Break, StopAccepting, coreVars
    <3>2. QED
      BY <3>1, UntouchedGrows
  <2>2. CASE Receive
    <3>1. CASE UNCHANGED coreVars
      BY <3>1, UntouchedGrows DEF coreVars
    <3>2. QED
      BY <2>2, <3>1, HandleIncomingGrows, ConnectionEventPreserves DEF Receive
  <2>3. CASE \E k \in Keys : HandleTimeouts(k) \/ CloseOne(k)
    BY <2>3, TimeoutPreserves, ShutdownOnePreserves DEF HandleTimeouts, CloseOne
  <2>4. QED
    BY <2>1, <2>2, <2>3
<1>3. pc \notin LastReported /\ pc' \notin LastReported
  <2>1. CASE CheckStop \/ Receive \/ StepOk \/ Grace \/ Shutdown
    BY <2>1 DEF CheckStop, Break, Receive, StepOk, Grace, Shutdown, Goto, AfterDrain,
                LastReported, Late
  <2>2. CASE StepErr
    BY <2>2 DEF StepErr, Break, LastReported, Late
  <2>3. CASE \E k \in Keys : HandleTimeouts(k) \/ CloseOne(k)
    BY <2>3 DEF HandleTimeouts, CloseOne, LastReported, Late
  <2>4. QED
    BY <2>1, <2>2, <2>3
<1>4. PlaceInv'
  <2>1. CASE CheckStop \/ Receive \/ StepOk \/ Grace
    <3>1. pc' # "Closing" /\ pc' \notin Settled
      BY <2>1 DEF CheckStop, Break, Receive, StepOk, Grace, Goto, AfterDrain,
                  LastReported, Late, Settled, Drained
    <3>2. QED
      BY <3>1 DEF PlaceInv, Settled
  <2>2. CASE StepErr \/ \E k \in Keys : HandleTimeouts(k)
    <3>1. pc' # "Closing" /\ pc' \notin Settled
      BY <2>2 DEF StepErr, HandleTimeouts, Break, LastReported, Late, Settled, Drained
    <3>2. QED
      BY <3>1 DEF PlaceInv, Settled
  <2>3. CASE Shutdown
    <3>1. pc' = "Closing" /\ keys' = DOMAIN attempts' /\ pc' \notin Settled
      BY <2>3 DEF Shutdown, Goto, coreVars, LastReported, Late, Settled, Drained
    <3>2. QED
      BY <3>1 DEF PlaceInv, Undecided, Settled
  <2>4. CASE \E k \in Keys : CloseOne(k)
    <3>1. PICK k \in Keys : CloseOne(k)
      BY <2>4
    <3>2. pc = "Closing" /\ pc' = "Closing" /\ pc' \notin Settled /\ keys' = keys \ {k}
      BY <3>1 DEF CloseOne, LastReported, Late, Settled, Drained
    <3>3. Undecided' = Undecided \ {k}
      BY <3>1, ShutdownOnePreserves DEF CloseOne
    <3>4. Undecided \subseteq keys
      BY <3>2 DEF RunInv, PlaceInv
    <3>5. QED
      BY <3>2, <3>3, <3>4 DEF PlaceInv, Settled
  <2>5. QED
    BY <2>1, <2>2, <2>3, <2>4
<1>5. sinkError' \in Errors
  BY <1>1 DEF RunInv, RunTypeOK
<1>6. QED
  BY <1>1, <1>2, <1>3, <1>4, <1>5, KeepPreserves

LEMMA ClosedAllPreserves ==
    ASSUME CoreInv, CoreInv', RunInv, ClosedAll
    PROVE  RunInv'
<1>1. /\ pc = "Closing" /\ pc' = IF pending = <<>> THEN "LastReport" ELSE "DrainLast"
      /\ keys = {} /\ Kept /\ droppedReported' = droppedReported /\ summary' = summary
      /\ reason' = reason /\ error' = error /\ sinkError' = sinkError
      /\ attempts' = attempts /\ stats' = stats /\ pending' = pending /\ recorded' = recorded
  BY DEF ClosedAll, Goto, Kept, locals, sinkVars, coreVars
<1>2. Undecided = {} /\ Undecided' = Undecided
  BY <1>1 DEF RunInv, PlaceInv, Undecided
<1>3. PlaceInv'
  BY <1>1, <1>2 DEF PlaceInv, Settled, Drained, LastReported, Late
<1>4. pc \notin LastReported /\ pc' \notin LastReported
  BY <1>1 DEF LastReported, Late
<1>5. reason' \in Reasons /\ error' \in Errors /\ sinkError' \in Errors
  BY <1>1 DEF RunInv, RunTypeOK
<1>6. QED
  BY <1>1, <1>3, <1>4, <1>5, UntouchedGrows, KeepPreserves

\* The sink thread, the clock, the rest of the process, and the return.
LEMMA OthersPreserve ==
    ASSUME CoreInv, CoreInv', RunInv,
           SinkStep \/ RequestStop \/ GraceElapses \/ Return \/ UNCHANGED vars
           \/ \E k \in Keys : DeadlineElapses(k)
    PROVE  RunInv'
<1>1. /\ Kept /\ droppedReported' = droppedReported /\ summary' = summary
      /\ reason' = reason /\ error' = error /\ keys' = keys
      /\ pc' = pc \/ (pc = "AwaitSink" /\ pc' = "Returned")
  <2>1. CASE SinkStep
    BY <2>1 DEF SinkStep, Take, SinkReturns, StoreError, SinkDone, Kept, locals
  <2>2. CASE RequestStop \/ GraceElapses \/ Return
    BY <2>2 DEF RequestStop, GraceElapses, Return, Goto, Kept, locals
  <2>3. CASE UNCHANGED vars \/ \E k \in Keys : DeadlineElapses(k)
    BY <2>3 DEF DeadlineElapses, vars, Kept, locals
  <2>4. QED
    BY <2>1, <2>2, <2>3
<1>2. sinkError' \in Errors
  <2>1. sinkError \in Errors
    BY DEF RunInv, RunTypeOK
  <2>2. CASE SinkStep
    BY <2>1, <2>2 DEF SinkStep, Take, SinkReturns, StoreError, SinkDone, Errors
  <2>3. CASE RequestStop \/ GraceElapses \/ Return
    BY <2>1, <2>3 DEF RequestStop, GraceElapses, Return, sinkVars
  <2>4. CASE UNCHANGED vars \/ \E k \in Keys : DeadlineElapses(k)
    BY <2>1, <2>4 DEF DeadlineElapses, vars, sinkVars
  <2>5. QED
    BY <2>2, <2>3, <2>4
<1>3. /\ stats' = stats /\ abandoned' = abandoned /\ pending' = pending /\ recorded' = recorded
      /\ Undecided' = Undecided
  <2>1. CASE \E k \in Keys : DeadlineElapses(k)
    <3>1. PICK k \in Keys : DeadlinePasses(k)
      BY <2>1 DEF DeadlineElapses
    <3>2. QED
      BY <3>1, DeadlinePassesPreserves DEF DeadlinePasses
  <2>2. CASE SinkStep
    BY <2>2 DEF SinkStep, Take, SinkReturns, StoreError, SinkDone, coreVars, Undecided
  <2>3. CASE RequestStop \/ GraceElapses \/ Return
    BY <2>3 DEF RequestStop, GraceElapses, Return, coreVars, Undecided
  <2>4. CASE UNCHANGED vars
    BY <2>4 DEF vars, coreVars, Undecided
  <2>5. QED
    BY <2>1, <2>2, <2>3, <2>4
<1>4. PlaceInv'
  BY <1>1, <1>3 DEF RunInv, PlaceInv, Settled, Drained, LastReported, Late
<1>5. reason' \in Reasons /\ error' \in Errors
  BY <1>1 DEF RunInv, RunTypeOK
<1>6. QED
  BY <1>1, <1>2, <1>3, <1>4, <1>5, UntouchedGrows, KeepPreserves

\* Before Stopped is queued, an event of another kind is queued or counted.
LEMMA EmitPreserves ==
    ASSUME CoreInv, RunInv, NEW e \in Events, e.kind # "Stopped", Sent(e) \/ Lost,
           pc \notin Late, pc' \notin Late, stats' = stats, summary' = summary,
           reason' = reason, error' = error, sinkError' = sinkError,
           droppedReported' \in {droppedReported, stats.dropped},
           RecordsInv', OverloadInv', PlaceInv'
    PROVE  RunInv'
<1>1. RunTypeOK'
  <2>1. log' \in Seq(Events) /\ recordsDropped' \in Nat
    <3>1. CASE Sent(e)
      BY <3>1, LogSent DEF RunInv, RunTypeOK, Sent
    <3>2. CASE Lost
      BY <3>2 DEF RunInv, RunTypeOK, Lost
    <3>3. QED
      BY <3>1, <3>2
  <2>2. stats.dropped \in Nat /\ droppedReported \in Nat /\ droppedReported <= stats.dropped
    BY DEF CoreInv, CoreTypeOK, Stats, RunInv, RunTypeOK
  <2>3. droppedReported' \in Nat /\ droppedReported' <= stats'.dropped
    BY <2>2
  <2>4. QED
    BY <2>1, <2>3 DEF RunInv, RunTypeOK
<1>2. StoppedInv'
  <2>1. \A i \in DOMAIN log : log[i].kind # "Stopped"
    BY DEF RunInv, StoppedInv, Late
  <2>2. \A i \in DOMAIN log' : log'[i].kind # "Stopped"
    <3>1. CASE Sent(e)
      BY <2>1, <3>1, LogSent DEF RunInv
    <3>2. CASE Lost
      BY <2>1, <3>2 DEF Lost
    <3>3. QED
      BY <3>1, <3>2
  <2>3. QED
    BY <2>2 DEF StoppedInv, Late
<1>3. QED
  BY <1>1, <1>2 DEF RunInv

LEMMA StartPreserves ==
    ASSUME CoreInv, CoreInv', RunInv, Start
    PROVE  RunInv'
<1>1. /\ pc = "Start" /\ pc' = "Check" /\ Emit(Started)
      /\ stats' = stats /\ pending' = pending /\ recorded' = recorded
      /\ droppedReported' = droppedReported /\ summary' = summary
      /\ reason' = reason /\ error' = error /\ sinkError' = sinkError
  BY DEF Start, Goto, coreVars, sinkVars
<1>2. Started \in Events /\ Started.kind = "Started"
  BY DEF Started, Events
<1>3. Sent(Started) \/ Lost
  BY <1>1, EmitLogs
<1>4. RecordsInv'
  BY <1>1, <1>2, <1>3, RecordsEmit DEF RunInv
<1>5. OverloadInv'
  <2>1. Covered' = Covered
    BY <1>1 DEF Covered, LastReported, Late
  <2>2. QED
    BY <1>2, <1>3, <2>1, OverloadOther, OverloadLost DEF RunInv
<1>6. PlaceInv'
  BY <1>1 DEF PlaceInv, Settled, Drained, LastReported, Late
<1>7. QED
  BY <1>1, <1>2, <1>3, <1>4, <1>5, <1>6, EmitPreserves DEF Late

\* What an overload record says.
LEMMA OverloadFields ==
    ASSUME CoreInv, RunTypeOK
    PROVE  /\ Overload \in Events /\ Overload.kind = "Overload"
           /\ Overload.totalDropped = stats.dropped
           /\ Overload.totalDropped - Overload.droppedSinceLast = droppedReported
<1>1. stats.dropped \in Nat /\ droppedReported \in Nat /\ droppedReported <= stats.dropped
  BY DEF CoreInv, CoreTypeOK, Stats, RunTypeOK
<1>2. stats.dropped - droppedReported \in Nat
  BY <1>1
<1>3. Overload \in Events
  BY <1>1, <1>2 DEF Overload, Events
<1>4. /\ Overload.kind = "Overload" /\ Overload.totalDropped = stats.dropped
      /\ Overload.droppedSinceLast = stats.dropped - droppedReported
  BY DEF Overload
<1>5. QED
  BY <1>1, <1>3, <1>4

LEMMA ReportPreserves ==
    ASSUME CoreInv, CoreInv', RunInv, Report
    PROVE  RunInv'
<1>1. /\ pc = "Report" /\ pc' = "Receive"
      /\ stats' = stats /\ pending' = pending /\ recorded' = recorded
      /\ summary' = summary /\ reason' = reason /\ error' = error /\ sinkError' = sinkError
      /\ \/ Emit(Overload) /\ droppedReported' = stats.dropped
         \/ Kept /\ droppedReported' = droppedReported
  BY DEF Report, Goto, coreVars, sinkVars, emitVars, Kept
<1>2. PlaceInv'
  BY <1>1 DEF PlaceInv, Settled, Drained, LastReported, Late
<1>3. pc \notin LastReported /\ pc' \notin LastReported
  BY <1>1 DEF LastReported, Late
<1>4. CASE Kept /\ droppedReported' = droppedReported
  <2>1. reason' \in Reasons /\ error' \in Errors /\ sinkError' \in Errors
    BY <1>1 DEF RunInv, RunTypeOK
  <2>2. QED
    BY <1>1, <1>2, <1>3, <1>4, <2>1, UntouchedGrows, KeepPreserves
<1>5. CASE Emit(Overload) /\ droppedReported' = stats.dropped
  <2>1. /\ Overload \in Events /\ Overload.kind = "Overload"
        /\ Overload.totalDropped = stats.dropped
        /\ Overload.totalDropped - Overload.droppedSinceLast = droppedReported
    BY OverloadFields DEF RunInv
  <2>2. Sent(Overload) \/ Lost
    BY <1>5, EmitLogs
  <2>3. RecordsInv'
    BY <1>1, <2>1, <2>2, RecordsEmit DEF RunInv
  <2>4. Covered = droppedReported /\ Covered' = stats.dropped
    BY <1>1, <1>3, <1>5 DEF Covered
  <2>5. OverloadInv'
    BY <2>1, <2>2, <2>4, OverloadSent, OverloadLost DEF RunInv
  <2>6. pc \notin Late /\ pc' \notin Late
    BY <1>1 DEF Late
  <2>7. Overload.kind # "Stopped" /\ droppedReported' \in {droppedReported, stats.dropped}
    BY <1>5, <2>1
  <2>8. QED
    BY <1>1, <1>2, <2>1, <2>2, <2>3, <2>5, <2>6, <2>7, EmitPreserves
<1>6. QED
  BY <1>1, <1>4, <1>5

LEMMA DrainPreserves ==
    ASSUME CoreInv, CoreInv', RunInv, Drain
    PROVE  RunInv'
<1> DEFINE e == Connection(Head(pending).id)
<1>1. /\ pc \in {"Drain", "DrainLast"} /\ pending # <<>> /\ pending' = Tail(pending)
      /\ attempts' = attempts /\ stats' = stats /\ recorded' = recorded /\ Emit(e)
      /\ pc' = IF Len(pending) > 1 THEN pc
               ELSE IF pc = "Drain" THEN AfterDrain ELSE "LastReport"
      /\ droppedReported' = droppedReported /\ summary' = summary
      /\ reason' = reason /\ error' = error /\ sinkError' = sinkError
  BY DEF Drain, DrainOne, sinkVars
<1>2. pending \in Seq(Observations)
  BY DEF CoreInv, CoreTypeOK
<1>3. e \in Events /\ e.kind = "Connection"
  <2>1. Head(pending) \in Observations
    BY <1>1, <1>2
  <2>2. Head(pending).id \in Ids
    BY <2>1 DEF Observations
  <2>3. QED
    BY <2>2 DEF Connection, Events
<1>4. Sent(e) \/ Lost
  BY <1>1, EmitLogs
<1>5. RecordsInv'
  BY <1>1, <1>4, RecordsDrain DEF RunInv
<1> HIDE DEF e
<1>6. pc' \in {"Drain", "DrainLast", "Check", "Grace", "LastReport"}
  BY <1>1 DEF AfterDrain
<1>7. OverloadInv'
  <2>1. Covered' = Covered
    BY <1>1, <1>6 DEF Covered, LastReported, Late
  <2>2. QED
    BY <1>3, <1>4, <2>1, OverloadOther, OverloadLost DEF RunInv
<1>8. PlaceInv'
  <2>1. pc' # "Closing" /\ (pc' \in Settled => pc = "DrainLast")
    BY <1>1, <1>6 DEF AfterDrain, Settled, Drained, LastReported, Late
  <2>2. pc' \in Settled => Undecided' = {}
    BY <1>1, <2>1 DEF RunInv, PlaceInv, Settled, Undecided
  <2>3. pc' \in Drained => pending' = <<>>
    <3>1. pc' \in Drained => ~(Len(pending) > 1)
      BY <1>1, <1>6 DEF Drained, LastReported, Late
    <3>2. ~(Len(pending) > 1) => Tail(pending) = <<>>
      BY <1>1, <1>2
    <3>3. QED
      BY <1>1, <3>1, <3>2
  <2>4. QED
    BY <2>1, <2>2, <2>3 DEF PlaceInv
<1>9. pc \notin Late /\ pc' \notin Late /\ e.kind # "Stopped"
  BY <1>1, <1>3, <1>6 DEF Late
<1>10. QED
  BY <1>1, <1>3, <1>4, <1>5, <1>7, <1>8, <1>9, EmitPreserves

LEMMA LastReportPreserves ==
    ASSUME CoreInv, CoreInv', RunInv, LastReport
    PROVE  RunInv'
<1>1. /\ pc = "LastReport" /\ pc' = "ReadError"
      /\ attempts' = attempts /\ stats' = stats /\ pending' = pending /\ recorded' = recorded
      /\ droppedReported' = droppedReported
      /\ summary' = summary /\ reason' = reason /\ error' = error /\ sinkError' = sinkError
      /\ IF stats.dropped > droppedReported THEN Emit(Overload) ELSE Kept
  BY DEF LastReport, Goto, coreVars, sinkVars, emitVars, Kept
<1>2. PlaceInv'
  <2>1. Undecided = {} /\ Undecided' = Undecided /\ pending = <<>>
    BY <1>1 DEF RunInv, PlaceInv, Settled, Drained, Undecided
  <2>2. QED
    BY <1>1, <2>1 DEF PlaceInv
<1>3. Covered = droppedReported /\ Covered' = stats.dropped
  BY <1>1 DEF Covered, LastReported, Late
<1>4. pc \notin Late /\ pc' \notin Late
  BY <1>1 DEF Late
<1>5. CASE stats.dropped > droppedReported
  <2>1. /\ Overload \in Events /\ Overload.kind = "Overload"
        /\ Overload.totalDropped = stats.dropped
        /\ Overload.totalDropped - Overload.droppedSinceLast = droppedReported
    BY OverloadFields DEF RunInv
  <2>2. Sent(Overload) \/ Lost
    BY <1>1, <1>5, EmitLogs
  <2>3. RecordsInv'
    BY <1>1, <2>1, <2>2, RecordsEmit DEF RunInv
  <2>4. OverloadInv'
    BY <1>3, <2>1, <2>2, OverloadSent, OverloadLost DEF RunInv
  <2>5. Overload.kind # "Stopped" /\ droppedReported' \in {droppedReported, stats.dropped}
    BY <1>1, <2>1
  <2>6. QED
    BY <1>1, <1>2, <1>4, <2>1, <2>2, <2>3, <2>4, <2>5, EmitPreserves
<1>6. CASE ~(stats.dropped > droppedReported)
  <2>1. Kept
    BY <1>1, <1>6
  <2>2. stats.dropped = droppedReported
    <3>1. stats.dropped \in Nat /\ droppedReported \in Nat /\ droppedReported <= stats.dropped
      BY DEF CoreInv, CoreTypeOK, Stats, RunInv, RunTypeOK
    <3>2. QED
      BY <1>6, <3>1
  <2>3. OverloadInv'
    BY <1>3, <2>1, <2>2, OverloadKept DEF RunInv
  <2>4. RecordsInv'
    BY <1>1, <2>1, UntouchedGrows, RecordsKept DEF RunInv
  <2>5. RunTypeOK'
    BY <1>1, <2>1 DEF RunInv, RunTypeOK, Kept
  <2>6. StoppedInv'
    BY <1>1, <1>4, <2>1 DEF RunInv, StoppedInv, Kept, Late
  <2>7. QED
    BY <1>2, <2>3, <2>4, <2>5, <2>6 DEF RunInv
<1>7. QED
  BY <1>5, <1>6

LEMMA ReadErrorPreserves ==
    ASSUME CoreInv, CoreInv', RunInv, ReadError
    PROVE  RunInv'
<1>1. /\ pc = "ReadError" /\ pc' = "QueueStopped" /\ Kept
      /\ attempts' = attempts /\ stats' = stats /\ pending' = pending /\ recorded' = recorded
      /\ abandoned' = abandoned /\ droppedReported' = droppedReported
      /\ reason' = reason /\ sinkError' = sinkError
      /\ error' = IF reason = "SinkFailed" THEN sinkError ELSE error
      /\ summary' = [stats |-> stats, recordsDropped |-> recordsDropped,
                     abandoned |-> abandoned, reason |-> reason, error |-> error']
  BY DEF ReadError, Goto, coreVars, sinkVars, emitVars, Kept
<1>2. RunTypeOK'
  BY <1>1 DEF RunInv, RunTypeOK, Kept
<1>3. RecordsInv'
  BY <1>1, UntouchedGrows, RecordsKept DEF RunInv
<1>4. OverloadInv'
  <2>1. Covered' = Covered
    BY <1>1 DEF Covered, LastReported, Late
  <2>2. QED
    BY <1>1, <2>1, OverloadKept DEF RunInv
<1>5. PlaceInv'
  <2>1. Undecided = {} /\ Undecided' = Undecided /\ pending = <<>>
    BY <1>1 DEF RunInv, PlaceInv, Settled, Drained, LastReported, Undecided
  <2>2. QED
    BY <1>1, <2>1 DEF PlaceInv
<1>6. StoppedInv'
  <2>1. /\ summary' \in Summary /\ summary'.stats = stats /\ summary'.abandoned = abandoned
        /\ summary'.recordsDropped = recordsDropped
    <3>1. /\ stats \in Stats /\ abandoned \in Nat /\ recordsDropped \in Nat
          /\ reason \in Reasons /\ error' \in Errors
      BY <1>1, <1>2 DEF CoreInv, CoreTypeOK, RunInv, RunTypeOK
    <3>2. QED
      BY <1>1, <3>1 DEF Summary
  <2>2. \A i \in DOMAIN log : log[i].kind # "Stopped"
    BY <1>1 DEF RunInv, StoppedInv
  <2>3. QED
    BY <1>1, <2>1, <2>2 DEF StoppedInv, Kept
<1>7. QED
  BY <1>2, <1>3, <1>4, <1>5, <1>6 DEF RunInv

LEMMA QueueStoppedPreserves ==
    ASSUME CoreInv, CoreInv', RunInv, QueueStopped
    PROVE  RunInv'
<1>1. /\ pc = "QueueStopped" /\ pc' = "AwaitSink" /\ Emit(Stopped)
      /\ attempts' = attempts /\ stats' = stats /\ pending' = pending /\ recorded' = recorded
      /\ abandoned' = abandoned /\ droppedReported' = droppedReported
      /\ summary' = summary /\ reason' = reason /\ error' = error /\ sinkError' = sinkError
  BY DEF QueueStopped, Goto, coreVars, sinkVars
<1>2. /\ summary \in Summary /\ summary.stats = stats /\ summary.abandoned = abandoned
      /\ recordsDropped = summary.recordsDropped
  BY <1>1 DEF RunInv, StoppedInv, Late
<1>3. Stopped \in Events /\ Stopped.kind = "Stopped" /\ Stopped.summary = summary
  BY <1>2 DEF Stopped, Events
<1>4. Sent(Stopped) \/ Lost
  BY <1>1, EmitLogs
<1>5. RunTypeOK'
  <2>1. log' \in Seq(Events) /\ recordsDropped' \in Nat
    <3>1. CASE Sent(Stopped)
      BY <1>3, <3>1, LogSent DEF RunInv, RunTypeOK, Sent
    <3>2. CASE Lost
      BY <3>2 DEF RunInv, RunTypeOK, Lost
    <3>3. QED
      BY <1>4, <3>1, <3>2
  <2>2. QED
    BY <1>1, <2>1 DEF RunInv, RunTypeOK
<1>6. RecordsInv'
  BY <1>1, <1>3, <1>4, RecordsEmit DEF RunInv
<1>7. OverloadInv'
  <2>1. Covered' = Covered
    BY <1>1 DEF Covered, LastReported, Late
  <2>2. QED
    BY <1>3, <1>4, <2>1, OverloadOther, OverloadLost DEF RunInv
<1>8. PlaceInv'
  <2>1. Undecided = {} /\ Undecided' = Undecided /\ pending = <<>>
    BY <1>1 DEF RunInv, PlaceInv, Settled, Drained, LastReported, Late, Undecided
  <2>2. QED
    BY <1>1, <2>1 DEF PlaceInv
<1>9. StoppedInv'
  <2>1. \A i \in DOMAIN log : log[i].kind # "Stopped"
    BY <1>1 DEF RunInv, StoppedInv
  <2>2. \A i \in DOMAIN log' : log'[i].kind = "Stopped" =>
           /\ i = Len(log') /\ log'[i].summary = summary /\ recordsDropped' = recordsDropped
    <3>1. CASE Sent(Stopped)
      <4>1. /\ DOMAIN log = 1..Len(log) /\ Len(log') = Len(log) + 1
            /\ DOMAIN log' = (1..Len(log)) \cup {Len(log) + 1}
            /\ log'[Len(log) + 1] = Stopped
            /\ \A k \in 1..Len(log) : log'[k] = log[k]
        BY <1>3, <3>1, LogSent DEF RunInv
      <4>2. recordsDropped' = recordsDropped
        BY <3>1 DEF Sent
      <4>3. QED
        BY <1>3, <2>1, <4>1, <4>2
    <3>2. CASE Lost
      BY <2>1, <3>2 DEF Lost
    <3>3. QED
      BY <1>4, <3>1, <3>2
  <2>3. QED
    BY <1>1, <1>2, <2>2 DEF StoppedInv
<1>10. QED
  BY <1>5, <1>6, <1>7, <1>8, <1>9 DEF RunInv

LEMMA RunInitInv == Init => RunInv
<1> SUFFICES ASSUME Init
             PROVE  RunInv
  OBVIOUS
<1>1. /\ pc = "Start" /\ droppedReported = 0 /\ recordsDropped = 0 /\ reason = "None"
      /\ error = "None" /\ sinkError = "None" /\ log = <<>> /\ pending = <<>>
      /\ recorded = [id \in Ids |-> 0] /\ stats.dropped = 0
  BY DEF Init, CoreInit
<1>2. RunTypeOK
  BY <1>1 DEF RunTypeOK, Reasons, Errors
<1>3. RecordsInv
  <2>1. Missing = {} /\ Connections = {}
    BY <1>1 DEF Missing, Connections
  <2>2. Cardinality(Missing) = 0
    BY <2>1, FS_EmptySet
  <2>3. QED
    BY <1>1, <2>1, <2>2 DEF RecordsInv
<1>4. OverloadInv
  BY <1>1 DEF OverloadInv, Overloads, Reported, Covered, LastReported, Late
<1>5. StoppedInv /\ PlaceInv
  BY <1>1 DEF StoppedInv, PlaceInv, Settled, Drained, LastReported, Late
<1>6. QED
  BY <1>2, <1>3, <1>4, <1>5 DEF RunInv

LEMMA RunNextInv ==
    ASSUME CoreInv, CoreInv', RunInv, [Next]_vars
    PROVE  RunInv'
<1>1. CASE Run
  BY <1>1, StartPreserves, WorkPreserves, ReportPreserves, DrainPreserves, ClosedAllPreserves,
     LastReportPreserves, ReadErrorPreserves, QueueStoppedPreserves, OthersPreserve DEF Run
<1>2. CASE ~Run
  BY <1>2, OthersPreserve DEF Next
<1>3. QED
  BY <1>1, <1>2

\* The records of a run of the server are accounted for at every step.
THEOREM RunInvariance == Spec => [](CoreInv /\ RunInv)
<1>1. Init => RunInv
  BY RunInitInv
<1>2. CoreInv /\ CoreInv' /\ RunInv /\ [Next]_vars => RunInv'
  BY RunNextInv
<1>3. Spec => []CoreInv
  BY RunUsesCore, CoreInvariance, PTL
<1>4. QED
  BY <1>1, <1>2, <1>3, PTL DEF Spec

\* How many Connection records an attempt has.
LEMMA RecordsOfCount ==
    ASSUME RunTypeOK, RecordsInv, NEW id \in Ids
    PROVE  RecordsOf(id) = IF \E j \in Connections : log[j].id = id THEN 1 ELSE 0
<1> DEFINE R == {i \in DOMAIN log : log[i].kind = "Connection" /\ log[i].id = id}
<1>1. R = {j \in Connections : log[j].id = id} /\ RecordsOf(id) = Cardinality(R)
  BY DEF Connections, RecordsOf
<1> HIDE DEF R
<1>2. CASE \E j \in Connections : log[j].id = id
  <2>1. PICK j \in Connections : log[j].id = id
    BY <1>2
  <2>2. R = {j}
    BY <1>1, <2>1 DEF RecordsInv
  <2>3. Cardinality(R) = 1
    BY <2>2, FS_Singleton
  <2>4. QED
    BY <1>1, <1>2, <2>3
<1>3. CASE ~\E j \in Connections : log[j].id = id
  <2>1. R = {}
    BY <1>1, <1>3
  <2>2. Cardinality(R) = 0
    BY <2>1, FS_EmptySet
  <2>3. QED
    BY <1>1, <1>3, <2>2
<1>4. QED
  BY <1>2, <1>3

LEMMA StoppedFollows ==
    ASSUME CoreInv, RunInv
    PROVE  StoppedAccounts
<1> SUFFICES ASSUME NEW i \in DOMAIN log, log[i].kind = "Stopped"
             PROVE  LET s == log[i].summary
                        n == s.stats
                        seen == {id \in Ids : RecordsOf(id) = 1}
                    IN /\ i = Len(log)
                       /\ recordsDropped = s.recordsDropped
                       /\ n.accepted = n.completed + n.failed + n.timedOut + s.abandoned
                       /\ \A id \in Ids : RecordsOf(id) <= IF id <= n.accepted THEN 1 ELSE 0
                       /\ Cardinality(seen) + s.recordsDropped >= n.accepted
                       /\ s.recordsDropped = 0 =>
                             /\ \A k \in Overloads :
                                   Reported(k, log[k].totalDropped - log[k].droppedSinceLast)
                             /\ Reported(i, n.dropped)
  BY DEF StoppedAccounts
<1> DEFINE s == log[i].summary
           seen == {id \in Ids : RecordsOf(id) = 1}
<1>1. /\ pc \in {"AwaitSink", "Returned"} /\ i = Len(log) /\ s = summary
      /\ recordsDropped = s.recordsDropped
  BY DEF RunInv, StoppedInv
<1>2. s.stats = stats /\ s.abandoned = abandoned
  BY <1>1 DEF RunInv, StoppedInv, Late
<1>3. Undecided = {} /\ pending = <<>> /\ Covered = stats.dropped
  BY <1>1 DEF RunInv, PlaceInv, Settled, Drained, LastReported, Late, Covered
<1> HIDE DEF s
<1>4. stats.accepted = stats.completed + stats.failed + stats.timedOut + abandoned
  <2>1. handshaking = 0
    BY <1>3, FS_EmptySet DEF handshaking
  <2>2. stats.accepted = stats.completed + stats.failed + stats.timedOut + abandoned + 0
    BY <2>1 DEF CoreInv, DecidedOnce
  <2>3. /\ stats.completed \in Nat /\ stats.failed \in Nat /\ stats.timedOut \in Nat
        /\ abandoned \in Nat
    BY DEF CoreInv, CoreTypeOK, Stats
  <2>4. QED
    BY <2>2, <2>3
<1>5. \A id \in Ids : recorded[id] = IF id <= stats.accepted THEN 1 ELSE 0
  BY <1>3 DEF CoreInv, DecidedOnce, InProgress
<1>6. \A j \in Connections : log[j].id \in Ids /\ log[j].id <= stats.accepted
  <2>1. \A j \in Connections : log[j] \in Events /\ log[j].kind = "Connection"
    BY DEF Connections, RunInv, RunTypeOK
  <2>2. \A j \in Connections : log[j].id \in Ids
    BY <2>1, EventFields
  <2>3. QED
    BY <1>5, <2>2 DEF RunInv, RecordsInv
<1>7. \A id \in Ids : RecordsOf(id) = IF \E j \in Connections : log[j].id = id THEN 1 ELSE 0
  BY RecordsOfCount DEF RunInv
<1>8. \A id \in Ids : RecordsOf(id) <= IF id <= stats.accepted THEN 1 ELSE 0
  BY <1>6, <1>7
<1>9. Cardinality(seen) + recordsDropped >= stats.accepted
  <2> DEFINE T == 1..stats.accepted
  <2>1. stats.accepted \in Nat /\ MaxIncoming \in Nat /\ stats.accepted <= MaxIncoming
    <3>1. /\ stats.accepted \in Nat /\ stats.incoming \in Nat /\ MaxIncoming \in Nat
          /\ stats.accepted <= stats.incoming /\ stats.incoming <= MaxIncoming
      BY CoreConfig DEF CoreInv, CoreTypeOK, Stats, IdsInv
    <3>2. QED
      BY <3>1
  <2>2. IsFiniteSet(T) /\ Cardinality(T) = stats.accepted
    <3>1. IsFiniteSet(1 .. stats.accepted)
          /\ Cardinality(1 .. stats.accepted)
                = IF 1 > stats.accepted THEN 0 ELSE stats.accepted - 1 + 1
      <4>1. 1 \in Int /\ stats.accepted \in Int
        BY <2>1
      <4>2. QED
        BY <4>1, FS_Interval, Zenon
    <3>2. QED
      BY <2>1, <3>1
  <2>3. \A id \in Ids : id \in T <=> id <= stats.accepted
    BY <2>1 DEF Ids
  <2>4. T \subseteq Ids
    BY <2>1 DEF Ids
  <2> HIDE DEF T
  <2>5. \A id \in Ids : id \in seen <=> \E j \in Connections : log[j].id = id
    BY <1>7
  <2>6. seen \subseteq Ids
    OBVIOUS
  <2> HIDE DEF seen
  <2>7. T \subseteq seen \cup Missing
    <3>1. \A id \in T : recorded[id] = 1
      BY <1>5, <2>3, <2>4
    <3>2. QED
      BY <1>3, <2>4, <2>5, <3>1 DEF Missing
  <2>8. IsFiniteSet(seen) /\ Cardinality(seen) \in Nat
    BY <2>6, IdsFinite, FS_Subset, FS_CardinalityType
  <2>9. /\ IsFiniteSet(seen \cup Missing)
        /\ Cardinality(seen \cup Missing)
              = Cardinality(seen) + Cardinality(Missing) - Cardinality(seen \cap Missing)
    BY <2>8, MissingFinite, FS_Union
  <2>10. Cardinality(seen \cap Missing) \in Nat
    <3>1. IsFiniteSet(seen \cap Missing)
      BY <2>8, FS_Subset
    <3>2. QED
      BY <3>1, FS_CardinalityType
  <2>11. Cardinality(T) <= Cardinality(seen \cup Missing)
    BY <2>7, <2>9, FS_Subset
  <2>12. Cardinality(Missing) <= recordsDropped /\ recordsDropped \in Nat
    BY DEF RunInv, RecordsInv, RunTypeOK
  <2>13. QED
    BY <2>1, <2>2, <2>8, <2>9, <2>10, <2>11, <2>12, MissingFinite
<1>10. recordsDropped = 0 =>
          /\ \A k \in Overloads : Reported(k, log[k].totalDropped - log[k].droppedSinceLast)
          /\ Reported(i, stats.dropped)
  <2> SUFFICES ASSUME recordsDropped = 0
               PROVE  /\ \A k \in Overloads :
                            Reported(k, log[k].totalDropped - log[k].droppedSinceLast)
                      /\ Reported(i, stats.dropped)
    OBVIOUS
  <2>1. /\ \A k \in Overloads : Reported(k, log[k].totalDropped - log[k].droppedSinceLast)
        /\ Reported(Len(log) + 1, stats.dropped)
    BY <1>3 DEF RunInv, OverloadInv
  <2>2. Len(log) \in Nat /\ DOMAIN log = 1..Len(log)
    BY DEF RunInv, RunTypeOK
  <2>3. \A j \in Overloads : j < Len(log) + 1 /\ j < i
    <3>1. \A j \in Overloads : j \in 1..Len(log) /\ j # i
      BY <2>2 DEF Overloads
    <3>2. QED
      BY <1>1, <2>2, <3>1
  <2>4. Reported(i, stats.dropped)
    BY <2>1, <2>3 DEF Reported
  <2>5. QED
    BY <2>1, <2>4
<1>11. /\ i = Len(log) /\ recordsDropped = s.recordsDropped
       /\ s.stats.accepted = s.stats.completed + s.stats.failed + s.stats.timedOut + s.abandoned
  BY <1>1, <1>2, <1>4, Zenon
<1>12. /\ \A id \in Ids : RecordsOf(id) <= IF id <= s.stats.accepted THEN 1 ELSE 0
       /\ Cardinality(seen) + s.recordsDropped >= s.stats.accepted
  BY <1>1, <1>2, <1>8, <1>9, Zenon
<1>13. s.recordsDropped = 0 =>
          /\ \A k \in Overloads : Reported(k, log[k].totalDropped - log[k].droppedSinceLast)
          /\ Reported(i, s.stats.dropped)
  BY <1>1, <1>2, <1>10, Zenon
<1>14. QED
  BY <1>11, <1>12, <1>13, Zenon DEF s, seen

\* The Stopped record of DiagServer::run is the last one, is the summary run
\* returns and accounts for every attempt and every record, for every
\* capacity, channel bound, number of connections and interleaving.
THEOREM StoppedCorrect == Spec => []StoppedAccounts
<1>1. CoreInv /\ RunInv => StoppedAccounts
  BY StoppedFollows
<1>2. QED
  BY <1>1, RunInvariance, PTL

===========================================================================
