---------------------------- MODULE ClientProofs ----------------------------
(***************************************************************************)
(* Proofs about tatami-client: the QUIC client it runs, the known_hosts    *)
(* policy with its pattern matching, the command line and the trust it     *)
(* configures; for any keys, any command line, any known_hosts file, and   *)
(* whatever the server presents, the network delivers and the clock does.  *)
(***************************************************************************)
EXTENDS Client, WellFoundedInduction, SequenceTheorems, FiniteSetTheorems, TLAPS

Handshakes == {"TimedOut", "Completed", "Failed"}
Closes == {"pending", "TlsError", "Peer", "TimedOut", "Deadline", "AfterHandshake"}

\* What the verifier may have recorded under the trust in force.
Slots == {Nothing, NotConvertible} \cup {Judged(p) : p \in Presentable}

Outcomes(S) == [handshake : Handshakes, alpn : BOOLEAN, exporter : BOOLEAN,
                close : Closes, identity : S]
Cores(S) == [tls : {"start", "data", "done"}, conn : {"open", "closed"},
             linger : {"None", "Running", "Due"}, slot : S, decided : BOOLEAN,
             outcome : Outcomes(S)]

\* The server proved that it holds a key the trust in force accepts, and the
\* report says so.
Authenticated(p, identity) ==
    /\ p \in Presentable
    /\ VerifyServerCert(p).ok
    /\ VerifySignature(p)
    /\ trust.mode # "certificate" => identity = Judged(p)

\* What holds of the core between two steps: a handshake that is decided while
\* the connection is open is over, so that it is not verified again, and
\* only one that completed reports anything.
Sound(s, p) ==
    /\ s.decided /\ s.conn = "open" => s.tls = "done"
    /\ s.outcome.alpn \/ s.outcome.exporter => s.outcome.handshake = "Completed"
    /\ s.outcome.handshake = "Completed" =>
          s.decided /\ Authenticated(p, s.outcome.identity)

\* r keeps what s has decided.
Keeps(s, r) ==
    s.decided => /\ r.decided
                 /\ r.outcome.handshake = s.outcome.handshake
                 /\ r.outcome.identity = s.outcome.identity

----------------------------------------------------------------------------
(* The operators of ClientCore.                                            *)

LEMMA DecidedShape ==
    ASSUME NEW S, Nothing \in S, NEW s \in Cores(S), NEW h \in Handshakes
    PROVE  /\ Decided(s, h) \in Cores(S)
           /\ Decided(s, h).tls = s.tls /\ Decided(s, h).conn = s.conn
           /\ Decided(s, h).linger = s.linger
           /\ Decided(s, h).decided = TRUE
           /\ Decided(s, h).outcome.handshake = h
           /\ Decided(s, h).outcome.identity = s.slot
           /\ Decided(s, h).outcome.alpn = s.outcome.alpn
           /\ Decided(s, h).outcome.exporter = s.outcome.exporter
           /\ Decided(s, h).outcome.close = s.outcome.close
  BY DEF Decided, Cores, Outcomes

LEMMA OnLostShape ==
    ASSUME NEW S, Nothing \in S, NEW s \in Cores(S), NEW p,
           (s.outcome.alpn \/ s.outcome.exporter) => s.outcome.handshake = "Completed",
           s.outcome.handshake = "Completed" =>
              s.decided /\ Authenticated(p, s.outcome.identity),
           NEW reason \in {"TlsError", "Peer", "TimedOut"}
    PROVE  /\ OnLost(s, reason) \in Cores(S) /\ Sound(OnLost(s, reason), p)
           /\ Keeps(s, OnLost(s, reason))
<1> DEFINE h == IF reason = "TimedOut" THEN "TimedOut" ELSE "Failed"
           d == IF s.decided THEN s ELSE Decided(s, h)
           r == [d EXCEPT !.outcome.close = reason, !.linger = "None", !.conn = "closed"]
<1>1. h \in {"TimedOut", "Failed"} /\ h \in Handshakes /\ reason \in Closes
  BY DEF Handshakes, Closes
<1>2. OnLost(s, reason) = r
  BY DEF OnLost
<1> HIDE DEF h
<1>3. /\ d \in Cores(S) /\ d.decided = TRUE /\ d.outcome.alpn = s.outcome.alpn
      /\ d.outcome.exporter = s.outcome.exporter
      /\ s.decided => d = s
      /\ ~s.decided => d.outcome.handshake = h
  <2>1. CASE s.decided
    <3>1. s.decided = TRUE
      BY <2>1 DEF Cores
    <3>2. QED
      BY <2>1, <3>1
  <2>2. CASE ~s.decided
    <3>1. d = Decided(s, h)
      BY <2>2
    <3>2. QED
      BY <1>1, <2>2, <3>1, DecidedShape, Zenon
  <2>3. QED
    BY <2>1, <2>2
<1> HIDE DEF d
<1>4. /\ r \in Cores(S) /\ r.conn = "closed" /\ r.decided = d.decided
      /\ r.outcome.handshake = d.outcome.handshake /\ r.outcome.identity = d.outcome.identity
      /\ r.outcome.alpn = d.outcome.alpn /\ r.outcome.exporter = d.outcome.exporter
  BY <1>1, <1>3 DEF Cores, Outcomes
<1> HIDE DEF r
<1>5. Keeps(s, r)
  BY <1>3, <1>4 DEF Keeps
<1>6. Sound(r, p)
  <2>1. CASE s.decided
    BY <1>3, <1>4, <2>1 DEF Sound
  <2>2. CASE ~s.decided
    <3>1. ~s.outcome.alpn /\ ~s.outcome.exporter
      BY <2>2
    <3>2. r.outcome.handshake # "Completed" /\ r.conn # "open"
      BY <1>1, <1>3, <1>4, <2>2
    <3>3. ~r.outcome.alpn /\ ~r.outcome.exporter
      BY <1>3, <1>4, <3>1
    <3>4. QED
      BY <3>2, <3>3 DEF Sound
  <2>3. QED
    BY <2>1, <2>2
<1>7. QED
  BY <1>2, <1>4, <1>5, <1>6

\* Only a connection that was verified just now is passed to OnConnected.
LEMMA OnConnectedShape ==
    ASSUME NEW S, Nothing \in S, NEW s \in Cores(S), NEW p, ~s.decided, s.tls = "done",
           Authenticated(p, s.slot)
    PROVE  /\ OnConnected(s) \in Cores(S) /\ Sound(OnConnected(s), p)
           /\ Keeps(s, OnConnected(s))
<1> DEFINE r == [s EXCEPT !.outcome.alpn = TRUE, !.outcome.exporter = TRUE]
           d == Decided(r, "Completed")
           c == [d EXCEPT !.linger = "Running"]
<1>1. OnConnected(s) = c
  BY DEF OnConnected
<1>2. r \in Cores(S) /\ r.tls = "done" /\ r.slot = s.slot
  BY DEF Cores, Outcomes
<1> HIDE DEF r
<1>3. /\ d \in Cores(S) /\ d.tls = "done" /\ d.decided = TRUE
      /\ d.outcome.handshake = "Completed" /\ d.outcome.identity = s.slot
  <2>1. "Completed" \in Handshakes
    BY DEF Handshakes
  <2>2. /\ d \in Cores(S) /\ d.tls = r.tls /\ d.decided = TRUE
        /\ d.outcome.handshake = "Completed" /\ d.outcome.identity = r.slot
    BY <1>2, <2>1, DecidedShape, ZenonT(30)
  <2>3. QED
    BY <1>2, <2>2, Zenon
<1> HIDE DEF d
<1>4. /\ c \in Cores(S) /\ c.tls = "done" /\ c.decided = TRUE
      /\ c.outcome.handshake = "Completed" /\ c.outcome.identity = s.slot
  BY <1>3 DEF Cores, Outcomes
<1> HIDE DEF c
<1>5. Sound(c, p)
  BY <1>4 DEF Sound
<1>6. QED
  BY <1>1, <1>4, <1>5 DEF Keeps

\* The verifier's verdict, and the record the report takes.
LEMMA VerifyShape ==
    ASSUME NEW s \in Cores(Slots), NEW p \in Presentable, Sound(s, p),
           s.conn = "open", s.tls \in {"start", "data"}
    PROVE  Verify(s, p) \in Cores(Slots) /\ Sound(Verify(s, p), p) /\ Keeps(s, Verify(s, p))
<1> DEFINE v == VerifyServerCert(p)
           r == [s EXCEPT !.tls = "done",
                          !.slot = IF v.record = Nothing THEN s.slot ELSE v.record]
<1>1. Verify(s, p) = IF v.ok /\ VerifySignature(p) THEN OnConnected(r)
                                                  ELSE OnLost(r, "TlsError")
  BY DEF Verify
<1>2. ~s.decided /\ Nothing \in Slots
  BY DEF Sound, Slots
<1>3. v.record \in Slots
  BY DEF VerifyServerCert, Slots
<1>4. v.ok /\ trust.mode # "certificate" => v.record = Judged(p) /\ v.record # Nothing
  BY DEF VerifyServerCert, Judged, Nothing
<1> HIDE DEF v
<1>5. /\ r \in Cores(Slots) /\ r.tls = "done" /\ r.decided = s.decided /\ r.outcome = s.outcome
      /\ v.ok /\ trust.mode # "certificate" => r.slot = Judged(p)
  BY <1>3, <1>4 DEF Cores
<1> HIDE DEF r
<1>6. Keeps(s, Verify(s, p))
  BY <1>2 DEF Keeps
<1>7. CASE v.ok /\ VerifySignature(p)
  <2>1. Authenticated(p, r.slot)
    BY <1>5, <1>7 DEF Authenticated, v
  <2>2. OnConnected(r) \in Cores(Slots) /\ Sound(OnConnected(r), p)
    BY <1>2, <1>5, <2>1, OnConnectedShape
  <2>3. QED
    BY <1>1, <1>6, <1>7, <2>2
<1>8. CASE ~(v.ok /\ VerifySignature(p))
  <2>1. /\ (r.outcome.alpn \/ r.outcome.exporter) => r.outcome.handshake = "Completed"
        /\ r.outcome.handshake = "Completed" =>
              r.decided /\ Authenticated(p, r.outcome.identity)
    BY <1>5 DEF Sound
  <2>2. OnLost(r, "TlsError") \in Cores(Slots) /\ Sound(OnLost(r, "TlsError"), p)
    BY <1>2, <1>5, <2>1, OnLostShape
  <2>3. QED
    BY <1>1, <1>6, <1>8, <2>2
<1>9. QED
  BY <1>7, <1>8

Progress(s, r, p) == r \in Cores(Slots) /\ Sound(r, p) /\ Keeps(s, r)

LEMMA LostProgress ==
    ASSUME NEW s, NEW p, NEW r, Progress(s, r, p), NEW reason \in {"TlsError", "Peer", "TimedOut"}
    PROVE  Progress(s, OnLost(r, reason), p)
<1>1. Nothing \in Slots /\ r \in Cores(Slots)
  BY DEF Slots, Progress
<1>2. /\ (r.outcome.alpn \/ r.outcome.exporter) => r.outcome.handshake = "Completed"
      /\ r.outcome.handshake = "Completed" =>
            r.decided /\ Authenticated(p, r.outcome.identity)
  BY DEF Progress, Sound
<1>3. /\ OnLost(r, reason) \in Cores(Slots) /\ Sound(OnLost(r, reason), p)
      /\ Keeps(r, OnLost(r, reason))
  BY <1>1, <1>2, OnLostShape
<1>4. QED
  BY <1>3 DEF Progress, Keeps

LEMMA DatagramShape ==
    ASSUME NEW s \in Cores(Slots), NEW p \in Presentable, Sound(s, p),
           NEW r \in Datagram(s, p)
    PROVE  Progress(s, r, p)
<1> DEFINE reached == (IF s.conn = "open" /\ s.tls = "start" THEN {ReachData(s)} ELSE {})
           data == reached \cup (IF s.conn = "open" /\ s.tls = "data" THEN {s} ELSE {})
           verified == {Verify(d, p) : d \in data}
           progress == {s} \cup reached \cup verified
<1>1. Progress(s, s, p)
  BY DEF Progress, Keeps
<1>2. ASSUME NEW d \in reached
      PROVE  Progress(s, d, p) /\ d.conn = "open" /\ d.tls = "data"
  <2>1. s.conn = "open" /\ s.tls = "start" /\ d = [s EXCEPT !.tls = "data"]
    BY <1>2 DEF ReachData, OnDataReady
  <2>2. ~s.decided
    BY <2>1 DEF Sound
  <2>3. /\ d \in Cores(Slots) /\ d.conn = "open" /\ d.tls = "data"
        /\ d.decided = s.decided /\ d.outcome = s.outcome
    BY <2>1 DEF Cores
  <2>4. QED
    BY <2>2, <2>3 DEF Progress, Sound, Keeps
<1>3. ASSUME NEW d \in data
      PROVE  Progress(s, Verify(d, p), p)
  <2>1. Progress(s, d, p) /\ d.conn = "open" /\ d.tls = "data"
    BY <1>1, <1>2
  <2>2. d \in Cores(Slots) /\ Sound(d, p)
    BY <2>1 DEF Progress
  <2>3. Verify(d, p) \in Cores(Slots) /\ Sound(Verify(d, p), p) /\ Keeps(d, Verify(d, p))
    BY <2>1, <2>2, VerifyShape
  <2>4. QED
    BY <2>1, <2>3 DEF Progress, Keeps
<1>4. \A q \in progress : Progress(s, q, p)
  BY <1>1, <1>2, <1>3
<1>5. r \in progress \/ \E q \in progress : r = OnLost(q, "Peer")
  BY DEF Datagram
<1> HIDE DEF progress
<1>6. QED
  BY <1>4, <1>5, LostProgress

LEMMA DeadlineShape ==
    ASSUME NEW s \in Cores(Slots), NEW p, Sound(s, p)
    PROVE  Progress(s, OnDeadline(s), p)
<1>1. CASE ~s.decided /\ due /\ s.conn = "open"
  <2> DEFINE d == Decided(s, "TimedOut")
             r == [d EXCEPT !.outcome.close = "Deadline", !.conn = "closed"]
  <2>1. OnDeadline(s) = r
    BY <1>1 DEF OnDeadline
  <2>2. Nothing \in Slots /\ "TimedOut" \in Handshakes
    BY DEF Slots, Handshakes
  <2>3. /\ d \in Cores(Slots) /\ d.outcome.handshake = "TimedOut"
        /\ d.outcome.alpn = s.outcome.alpn /\ d.outcome.exporter = s.outcome.exporter
    BY <2>2, DecidedShape, ZenonT(30)
  <2> HIDE DEF d
  <2>4. /\ r \in Cores(Slots) /\ r.conn = "closed"
        /\ r.outcome.handshake = d.outcome.handshake
        /\ r.outcome.alpn = d.outcome.alpn /\ r.outcome.exporter = d.outcome.exporter
    BY <2>3 DEF Cores, Outcomes, Closes
  <2> HIDE DEF r
  <2>5. ~s.outcome.alpn /\ ~s.outcome.exporter
    BY <1>1 DEF Sound
  <2>6. ~r.outcome.alpn /\ ~r.outcome.exporter
    BY <2>3, <2>4, <2>5
  <2>7. Sound(r, p)
    BY <2>3, <2>4, <2>6 DEF Sound
  <2>8. QED
    BY <1>1, <2>1, <2>4, <2>7 DEF Progress, Keeps
<1>2. CASE ~(~s.decided /\ due /\ s.conn = "open")
  BY <1>2 DEF OnDeadline, Progress, Keeps
<1>3. QED
  BY <1>1, <1>2

LEMMA LingerShape ==
    ASSUME NEW s \in Cores(Slots), NEW p, Sound(s, p)
    PROVE  Progress(s, OnLinger(s), p)
<1>1. CASE s.linger = "Due" /\ s.conn = "open"
  <2> DEFINE r == [s EXCEPT !.outcome.close = "AfterHandshake", !.conn = "closed",
                            !.linger = "None"]
  <2>1. OnLinger(s) = r
    BY <1>1 DEF OnLinger
  <2>2. /\ r \in Cores(Slots) /\ r.conn = "closed" /\ r.decided = s.decided
        /\ r.outcome.handshake = s.outcome.handshake /\ r.outcome.identity = s.outcome.identity
        /\ r.outcome.alpn = s.outcome.alpn /\ r.outcome.exporter = s.outcome.exporter
    BY DEF Cores, Outcomes, Closes
  <2> HIDE DEF r
  <2>3. QED
    BY <2>1, <2>2 DEF Progress, Sound, Keeps
<1>2. CASE ~(s.linger = "Due" /\ s.conn = "open")
  BY <1>2 DEF OnLinger, Progress, Keeps
<1>3. QED
  BY <1>1, <1>2

LEMMA TimersShape ==
    ASSUME NEW s \in Cores(Slots), NEW p, Sound(s, p), NEW r \in Timers(s)
    PROVE  Progress(s, r, p)
<1> DEFINE idle == [s EXCEPT !.conn = "closed"]
<1>1. \/ r = OnLinger(OnDeadline(s))
      \/ r = OnLost(OnLinger(OnDeadline(idle)), "TimedOut")
  BY DEF Timers
<1>2. Progress(s, OnLinger(OnDeadline(s)), p)
  <2>1. Progress(s, OnDeadline(s), p)
    BY DeadlineShape
  <2>2. Progress(OnDeadline(s), OnLinger(OnDeadline(s)), p)
    BY <2>1, LingerShape DEF Progress
  <2>3. QED
    BY <2>1, <2>2 DEF Progress, Keeps
<1>3. Progress(s, OnLost(OnLinger(OnDeadline(idle)), "TimedOut"), p)
  <2>1. /\ idle \in Cores(Slots) /\ idle.conn = "closed" /\ idle.decided = s.decided
        /\ idle.outcome = s.outcome
    BY DEF Cores
  <2> HIDE DEF idle
  <2>2. OnLinger(OnDeadline(idle)) = idle
    BY <2>1 DEF OnLinger, OnDeadline
  <2>3. Progress(s, idle, p)
    BY <2>1 DEF Progress, Sound, Keeps
  <2>4. QED
    BY <2>2, <2>3, LostProgress
<1>4. QED
  BY <1>1, <1>2, <1>3

----------------------------------------------------------------------------
(* The invariant of the program.                                           *)

\* Nothing has happened to the core before it runs.
Fresh == State = [tls |-> "start", conn |-> "open", linger |-> "None", slot |-> Nothing,
                  decided |-> FALSE, outcome |-> NewOutcome]

ClientInv ==
    /\ State \in Cores(Slots)
    /\ presented \in Presentable \cup {Nothing}
    /\ Sound(State, presented)
    /\ pc \in {"Start", "Prepare", "Connect"} => Fresh

LEMMA NothingNotPresentable == Nothing \notin Presentable
<1> SUFFICES ASSUME Nothing \in Presentable
             PROVE  FALSE
  OBVIOUS
<1>1. DOMAIN Nothing = {"form", "key", "scheme", "valid"}
  BY DEF Presentable
<1>2. DOMAIN Nothing = {"check"}
  BY DEF Nothing
<1>3. QED
  BY <1>1, <1>2

LEMMA BecomeState ==
    ASSUME NEW S, NEW s \in Cores(S), Become(s)
    PROVE  State' = s
  BY DEF Become, State, Cores

LEMMA TrustKept ==
    ASSUME trust' = trust
    PROVE  /\ Slots' = Slots
           /\ \A s, p : Sound(s, p)' <=> Sound(s, p)
<1>1. \A p : Judged(p)' = Judged(p)
  BY DEF Judged, PolicyDecides
<1>2. \A p : VerifyServerCert(p)' = VerifyServerCert(p) /\ VerifySignature(p)' = VerifySignature(p)
  BY <1>1 DEF VerifyServerCert, VerifySignature
<1>3. Slots' = Slots
  BY <1>1 DEF Slots
<1>4. \A s, p : Sound(s, p)' <=> Sound(s, p)
  BY <1>1, <1>2 DEF Sound, Authenticated
<1>5. QED
  BY <1>3, <1>4

\* A fresh core is sound, whatever the trust and whatever was presented.
LEMMA FreshSound == Fresh => State \in Cores(Slots) /\ (\A p : Sound(State, p))
<1> SUFFICES ASSUME Fresh
             PROVE  State \in Cores(Slots) /\ (\A p : Sound(State, p))
  OBVIOUS
<1>1. /\ State.tls = "start" /\ State.conn = "open" /\ State.decided = FALSE
      /\ State.linger = "None" /\ State.slot = Nothing
      /\ State.outcome = NewOutcome
  BY DEF Fresh
<1>2. /\ NewOutcome.alpn = FALSE /\ NewOutcome.exporter = FALSE
      /\ NewOutcome.handshake = "TimedOut"
      /\ NewOutcome \in Outcomes(Slots)
  BY DEF NewOutcome, Outcomes, Handshakes, Closes, Slots
<1>3. State \in Cores(Slots)
  BY <1>2 DEF Fresh, Cores, Slots
<1>4. \A p : Sound(State, p)
  <2>1. ~State.outcome.alpn /\ ~State.outcome.exporter
    BY <1>1, <1>2
  <2>2. ~State.decided /\ State.outcome.handshake # "Completed"
    BY <1>1, <1>2
  <2>3. QED
    BY <2>1, <2>2 DEF Sound
<1>5. QED
  BY <1>3, <1>4

LEMMA InitClient == Init => ClientInv
<1> SUFFICES ASSUME Init PROVE ClientInv
  OBVIOUS
<1>1. Fresh /\ presented = Nothing
  BY DEF Init, ClientInit, Fresh, State
<1>2. QED
  BY <1>1, FreshSound DEF ClientInv

\* A step that leaves the core and its trust alone.
LEMMA IdleKeeps ==
    ASSUME ClientInv, UNCHANGED <<coreState, trust, presented>>,
           pc' \in {"Start", "Prepare", "Connect"} => pc \in {"Start", "Prepare", "Connect"}
    PROVE  ClientInv' /\ Keeps(State, State')
<1>1. State' = State /\ presented' = presented /\ trust' = trust
  BY DEF coreState, State
<1>2. Slots' = Slots /\ (Sound(State, presented)' <=> Sound(State, presented))
  <2>1. PICK s, p : s = State /\ p = presented
    OBVIOUS
  <2>2. Sound(s, p)' <=> Sound(s, p)
    BY <1>1, TrustKept
  <2>3. QED
    BY <1>1, <2>1, <2>2, TrustKept
<1>3. QED
  BY <1>1, <1>2 DEF ClientInv, Keeps, Fresh, Cores

\* A step before the core runs.
LEMMA FreshKeeps ==
    ASSUME ClientInv, UNCHANGED coreState, pc \in {"Start", "Prepare", "Connect"},
           presented' \in Presentable \cup {Nothing}
    PROVE  ClientInv' /\ Keeps(State, State')
<1>1. State' = State /\ Fresh
  BY DEF coreState, State, ClientInv
<1>2. Fresh'
  BY <1>1 DEF Fresh, NewOutcome, Nothing
<1>3. (State \in Cores(Slots))' /\ (\A p : Sound(State, p))'
  BY <1>2, FreshSound, PTL
<1>4. QED
  BY <1>1, <1>2, <1>3 DEF ClientInv, Keeps

\* A step of the core.
LEMMA CoreKeeps ==
    ASSUME ClientInv, trust' = trust, presented' \in Presentable \cup {Nothing},
           NEW r, Progress(State, r, presented'), Become(r),
           pc \notin {"Start", "Prepare", "Connect"}, pc' = pc
    PROVE  ClientInv' /\ Keeps(State, State')
<1>1. r \in Cores(Slots) /\ Sound(r, presented') /\ Keeps(State, r)
  BY DEF Progress
<1>2. State' = r
  BY <1>1, BecomeState
<1>3. Slots' = Slots /\ Cores(Slots)' = Cores(Slots)
  BY TrustKept
<1>4. Sound(State, presented)'
  <2>1. PICK p : p = presented'
    OBVIOUS
  <2>2. Sound(r, p)'
    BY <1>1, <2>1, TrustKept
  <2>3. QED
    BY <1>2, <2>1, <2>2
<1>5. QED
  BY <1>1, <1>2, <1>3, <1>4 DEF ClientInv

LEMMA ReceiveKeeps ==
    ASSUME ClientInv, pc = "Handshake", pc' = pc, Receive
    PROVE  ClientInv' /\ Keeps(State, State')
<1>1. CASE coreState' = coreState /\ presented' = presented
  BY <1>1, IdleKeeps DEF Receive
<1>2. CASE /\ presented' \in IF presented = Nothing THEN Presentable ELSE {presented}
           /\ \E s \in Datagram(State, presented') : Become(s)
  <2>1. PICK r \in Datagram(State, presented') : Become(r)
    BY <1>2
  <2>2. PICK p : p = presented'
    OBVIOUS
  <2>3. State \in Cores(Slots) /\ p \in Presentable
    BY <1>2, <2>2 DEF ClientInv
  <2>4. Sound(State, p)
    <3>1. CASE presented = Nothing
      BY <3>1, NothingNotPresentable DEF ClientInv, Sound, Authenticated
    <3>2. CASE presented # Nothing
      BY <1>2, <2>2, <3>2 DEF ClientInv
    <3>3. QED
      BY <3>1, <3>2
  <2>5. Progress(State, r, p)
    BY <2>1, <2>2, <2>3, <2>4, DatagramShape
  <2>6. QED
    BY <2>1, <2>2, <2>3, <2>5, CoreKeeps DEF Receive
<1>3. QED
  BY <1>1, <1>2 DEF Receive

LEMMA LingerPassesKeeps ==
    ASSUME ClientInv, LingerPasses, pc' = pc
    PROVE  ClientInv' /\ Keeps(State, State')
<1> DEFINE r == [State EXCEPT !.linger = "Due"]
<1>1. /\ State \in Cores(Slots) /\ Sound(State, presented) /\ State.linger = "Running"
      /\ presented \in Presentable \cup {Nothing}
  BY DEF ClientInv, LingerPasses, State
<1>2. pc \notin {"Start", "Prepare", "Connect"}
  BY <1>1 DEF ClientInv, Fresh
<1>3. /\ r \in Cores(Slots) /\ r.conn = State.conn /\ r.tls = State.tls
      /\ r.decided = State.decided /\ r.outcome = State.outcome
  BY <1>1 DEF Cores
<1>4. Become(r)
  BY DEF LingerPasses, Become, State
<1> HIDE DEF r
<1>5. Progress(State, r, presented)
  BY <1>1, <1>3 DEF Progress, Sound, Keeps
<1>6. trust' = trust /\ presented' = presented
  BY DEF LingerPasses
<1>7. QED
  BY <1>1, <1>2, <1>4, <1>5, <1>6, CoreKeeps

LEMMA NextClient ==
    ASSUME ClientInv, [Next]_vars
    PROVE  ClientInv' /\ Keeps(State, State')
<1>1. CASE Main \/ PreparePin \/ FileUnreadable \/ PrepareFile \/ ConnectFails \/ QuicRun
           \/ TcpHandshake \/ ProbeRun
  <2>1. UNCHANGED coreState /\ pc \in {"Start", "Prepare", "Connect"}
    BY <1>1 DEF Main, PreparePin, FileUnreadable, PrepareFile, ConnectFails, QuicRun,
                TcpHandshake, ProbeRun, clientVars, coreState
  <2>2. presented' = presented \/ presented' \in Presentable
    BY <1>1 DEF Main, PreparePin, FileUnreadable, PrepareFile, ConnectFails, QuicRun,
                TcpHandshake, ProbeRun, clientVars
  <2>3. presented' \in Presentable \cup {Nothing}
    BY <2>2 DEF ClientInv
  <2>4. QED
    BY <2>1, <2>3, FreshKeeps
<1>2. CASE QuicStep
  <2>1. pc = "Handshake" /\ pc' = pc
    BY <1>2 DEF QuicStep, mainVars
  <2>2. CASE SendAll
    BY <2>1, <2>2, IdleKeeps DEF SendAll
  <2>3. CASE Receive
    BY <2>1, <2>3, ReceiveKeeps
  <2>4. CASE HandleTimeouts
    <3>1. PICK r \in Timers(State) : Become(r)
      BY <2>4 DEF HandleTimeouts
    <3>2. Progress(State, r, presented)
      BY <3>1, TimersShape DEF ClientInv
    <3>3. trust' = trust /\ presented' = presented /\ presented \in Presentable \cup {Nothing}
      BY <2>4 DEF HandleTimeouts, ClientInv
    <3>4. QED
      BY <2>1, <3>1, <3>2, <3>3, CoreKeeps
  <2>5. QED
    BY <1>2, <2>2, <2>3, <2>4 DEF QuicStep, RunStep
<1>3. CASE QuicReport \/ Emit
  <2>1. /\ UNCHANGED <<coreState, trust, presented>>
        /\ pc' \notin {"Start", "Prepare", "Connect"}
    BY <1>3 DEF QuicReport, Emit, Report, Exit, clientVars, coreState
  <2>2. QED
    BY <2>1, IdleKeeps
<1>4. CASE Clock
  <2>1. pc' = pc
    BY <1>4 DEF Clock, mainVars
  <2>2. CASE DeadlinePasses
    BY <2>1, <2>2, IdleKeeps DEF DeadlinePasses
  <2>3. QED
    BY <1>4, <2>1, <2>2, LingerPassesKeeps DEF Clock
<1>5. CASE UNCHANGED vars
  <2>1. UNCHANGED <<coreState, trust, presented>> /\ pc' = pc
    BY <1>5 DEF vars, clientVars, mainVars, coreState
  <2>2. QED
    BY <2>1, IdleKeeps
<1>6. QED
  BY <1>1, <1>2, <1>3, <1>4, <1>5 DEF Next, Program, Exited

\* The invariant holds of the whole program.
THEOREM ClientInvariance == Spec => []ClientInv
<1>1. ClientInv /\ [Next]_vars => ClientInv'
  BY NextClient
<1>2. QED
  BY <1>1, InitClient, PTL DEF Spec

LEMMA InvReports == ClientInv => ReportsAuthenticated
<1> SUFFICES ASSUME ClientInv, outcome.alpn \/ outcome.exporter
             PROVE  /\ decided /\ outcome.handshake = "Completed"
                    /\ presented.valid
                    /\ trust.mode # "certificate" =>
                          /\ outcome.identity.check = "judged"
                          /\ outcome.identity.decision.trusted
  BY DEF ReportsAuthenticated
<1>1. State.outcome = outcome /\ State.decided = decided
  BY DEF State
<1>2. /\ outcome.handshake = "Completed" /\ decided
      /\ Authenticated(presented, outcome.identity)
  BY <1>1 DEF ClientInv, Sound
<1>3. VerifyServerCert(presented).ok /\ VerifySignature(presented)
  BY <1>2 DEF Authenticated
<1>4. presented.valid
  BY <1>3 DEF VerifySignature
<1>5. ASSUME trust.mode # "certificate"
      PROVE  /\ outcome.identity.check = "judged"
             /\ outcome.identity.decision.trusted
  <2>1. outcome.identity = Judged(presented)
    BY <1>2, <1>5 DEF Authenticated
  <2>2. Judged(presented).decision.trusted
    BY <1>3, <1>5 DEF VerifyServerCert
  <2>3. Judged(presented).check = "judged"
    BY DEF Judged
  <2>4. QED
    BY <2>1, <2>2, <2>3
<1>6. QED
  BY <1>2, <1>4, <1>5

\* What a QUIC connection negotiated is reported only for a handshake that
\* completed, with a server whose signature verified and whose key the trust
\* in force accepts (ClientCore::drive, SshHostKeyVerifier).
THEOREM ReportsCorrect == Spec => []ReportsAuthenticated
  BY ClientInvariance, InvReports, PTL

\* The result and the identity of a decided handshake never change, in
\* whatever order completion, loss, idle timeout and deadline come.
THEOREM OutcomeStays == Spec => OutcomeFinal
<1>1. ClientInv /\ [Next]_vars =>
         [decided => /\ decided'
                     /\ outcome'.handshake = outcome.handshake
                     /\ outcome'.identity = outcome.identity]_clientVars
  <2> SUFFICES ASSUME ClientInv, [Next]_vars, decided
               PROVE  /\ decided'
                      /\ outcome'.handshake = outcome.handshake
                      /\ outcome'.identity = outcome.identity
    OBVIOUS
  <2>1. Keeps(State, State')
    BY NextClient
  <2>2. /\ State.outcome = outcome /\ State.decided = decided
        /\ State'.outcome = outcome' /\ State'.decided = decided'
    BY DEF State
  <2>3. QED
    BY <2>1, <2>2 DEF Keeps
<1>2. QED
  BY <1>1, ClientInvariance, PTL DEF Spec, OutcomeFinal

----------------------------------------------------------------------------
(* KnownHosts::parse.                                                      *)

\* A nonempty set of naturals has a least element: the induction of the
\* proofs below is on the least counterexample.
LEMMA Least ==
    ASSUME NEW T \in SUBSET Nat, T # {}
    PROVE  \E x \in T : \A y \in T : x <= y
<1> DEFINE R == OpToRel(<, Nat)
<1>1. IsWellFoundedOn(R, Nat) /\ T \subseteq Nat
  BY NatLessThanWellFounded
<1>2. \A x, y \in Nat : <<y, x>> \in R <=> y < x
  BY DEF OpToRel
<1> HIDE DEF R
<1>3. PICK x \in T : \A y \in T : ~(<<y, x>> \in R)
  BY <1>1, WFMin, Zenon
<1>4. \A y \in T : x <= y
  <2> TAKE y \in T
  <2>1. x \in Nat /\ y \in Nat /\ ~(y < x)
    BY <1>1, <1>2, <1>3
  <2>2. QED
    BY <2>1
<1>5. QED
  BY <1>4, Zenon

LEMMA MinIn ==
    ASSUME NEW T \in SUBSET Nat, T # {}
    PROVE  Min(T) \in T
  BY Least, Zenon DEF Min

\* KnownHosts::parse accepts a file only if every line of it is in order.
LEMMA ParseErrorNone ==
    ASSUME NEW lines \in Files, ParseError(lines) = "none", NEW i \in DOMAIN lines
    PROVE  ErrorAt(lines, i) = "none"
<1> DEFINE bad == {j \in DOMAIN lines : ErrorAt(lines, j) # "none"}
<1>1. bad \in SUBSET Nat
  BY ClientConfig
<1>2. ParseError(lines) = IF bad = {} THEN "none" ELSE ErrorAt(lines, Min(bad))
  BY DEF ParseError
<1>3. bad # {} => Min(bad) \in bad
  BY <1>1, MinIn
<1>4. bad = {}
  BY <1>2, <1>3
<1>5. QED
  BY <1>4

LEMMA ParseErrorRange ==
    ASSUME NEW lines
    PROVE  ParseError(lines) # "complete"
<1>1. \A i : ErrorAt(lines, i) # "complete"
  <2>1. \A line : LineError(line) # "complete"
    BY DEF LineError, HostsError
  <2>2. QED
    BY <2>1 DEF ErrorAt
<1>2. QED
  BY <1>1 DEF ParseError

----------------------------------------------------------------------------
(* What a glob pattern means: an alignment cuts the name into one piece    *)
(* per element of the pattern, "*" taking any run and the others one       *)
(* character.                                                              *)

\* Element q of the pattern may take what is from position j up to, and not
\* including, k.
Fits(pattern, name, q, j, k) ==
    IF pattern[q] = "*" THEN j <= k
    ELSE k = j + 1 /\ j <= Len(name) /\ pattern[q] \in {"?", name[j]}

Cuts(name) == 1..(Len(name) + 1)

\* Elements x to y - 1 of the pattern take what is from u up to v.
IsAlignment(pattern, name, x, u, y, v, a) ==
    /\ a \in [x..y -> Cuts(name)]
    /\ a[x] = u /\ a[y] = v
    /\ \A q \in x..(y - 1) : Fits(pattern, name, q, a[q], a[q + 1])
Aligned(pattern, name, x, u, y, v) ==
    \E a : IsAlignment(pattern, name, x, u, y, v, a)

LEMMA AlignNone ==
    ASSUME NEW pattern, NEW name, Len(name) \in Nat, NEW x \in Nat,
           NEW u \in Cuts(name), NEW v \in Cuts(name)
    PROVE  Aligned(pattern, name, x, u, x, v) <=> u = v
<1>1. ASSUME u = v
      PROVE  Aligned(pattern, name, x, u, x, v)
  <2> DEFINE a == [q \in x..x |-> u]
  <2>1. a \in [x..x -> Cuts(name)] /\ a[x] = u /\ x..(x - 1) = {}
    OBVIOUS
  <2>2. IsAlignment(pattern, name, x, u, x, v, a)
    BY <1>1, <2>1 DEF IsAlignment
  <2>3. QED
    BY <2>2 DEF Aligned
<1>2. QED
  BY <1>1 DEF Aligned, IsAlignment

\* The first element can be looked at on its own,
LEMMA AlignFirst ==
    ASSUME NEW pattern, NEW name, Len(name) \in Nat, NEW x \in Nat, NEW y \in Nat, x < y,
           NEW u \in Cuts(name), NEW v \in Cuts(name)
    PROVE  Aligned(pattern, name, x, u, y, v) <=>
              \E w \in Cuts(name) : /\ Fits(pattern, name, x, u, w)
                                    /\ Aligned(pattern, name, x + 1, w, y, v)
<1>1. ASSUME Aligned(pattern, name, x, u, y, v)
      PROVE  \E w \in Cuts(name) : /\ Fits(pattern, name, x, u, w)
                                   /\ Aligned(pattern, name, x + 1, w, y, v)
  <2>1. PICK a : IsAlignment(pattern, name, x, u, y, v, a)
    BY <1>1 DEF Aligned
  <2> DEFINE b == [q \in (x + 1)..y |-> a[q]]
  <2>2. a[x + 1] \in Cuts(name) /\ Fits(pattern, name, x, u, a[x + 1])
    BY <2>1 DEF IsAlignment
  <2>3. b \in [(x + 1)..y -> Cuts(name)] /\ b[x + 1] = a[x + 1] /\ b[y] = v
    BY <2>1 DEF IsAlignment
  <2>4. \A q \in (x + 1)..(y - 1) : Fits(pattern, name, q, b[q], b[q + 1])
    <3> TAKE q \in (x + 1)..(y - 1)
    <3>1. q \in x..(y - 1) /\ b[q] = a[q] /\ b[q + 1] = a[q + 1]
      OBVIOUS
    <3>2. QED
      BY <2>1, <3>1 DEF IsAlignment
  <2>5. IsAlignment(pattern, name, x + 1, a[x + 1], y, v, b)
    BY <2>3, <2>4 DEF IsAlignment
  <2>6. QED
    BY <2>2, <2>5 DEF Aligned
<1>2. ASSUME NEW w \in Cuts(name), Fits(pattern, name, x, u, w),
             Aligned(pattern, name, x + 1, w, y, v)
      PROVE  Aligned(pattern, name, x, u, y, v)
  <2>1. PICK a : IsAlignment(pattern, name, x + 1, w, y, v, a)
    BY <1>2 DEF Aligned
  <2> DEFINE b == [q \in x..y |-> IF q = x THEN u ELSE a[q]]
  <2>2. b \in [x..y -> Cuts(name)] /\ b[x] = u /\ b[y] = v
    BY <2>1 DEF IsAlignment
  <2>3. \A q \in x..(y - 1) : Fits(pattern, name, q, b[q], b[q + 1])
    <3> TAKE q \in x..(y - 1)
    <3>1. CASE q = x
      <4>1. b[q] = u /\ b[q + 1] = w
        BY <2>1, <3>1 DEF IsAlignment
      <4>2. QED
        BY <1>2, <3>1, <4>1
    <3>2. CASE q # x
      <4>1. q \in (x + 1)..(y - 1) /\ b[q] = a[q] /\ b[q + 1] = a[q + 1]
        BY <3>2
      <4>2. QED
        BY <2>1, <4>1 DEF IsAlignment
    <3>3. QED
      BY <3>1, <3>2
  <2>4. IsAlignment(pattern, name, x, u, y, v, b)
    BY <2>2, <2>3 DEF IsAlignment
  <2>5. QED
    BY <2>4 DEF Aligned
<1>3. QED
  BY <1>1, <1>2

\* and so can the last.
LEMMA AlignLast ==
    ASSUME NEW pattern, NEW name, Len(name) \in Nat, NEW x \in Nat, NEW y \in Nat, x <= y,
           NEW u \in Cuts(name), NEW v \in Cuts(name)
    PROVE  Aligned(pattern, name, x, u, y + 1, v) <=>
              \E w \in Cuts(name) : /\ Aligned(pattern, name, x, u, y, w)
                                    /\ Fits(pattern, name, y, w, v)
<1>1. ASSUME Aligned(pattern, name, x, u, y + 1, v)
      PROVE  \E w \in Cuts(name) : /\ Aligned(pattern, name, x, u, y, w)
                                   /\ Fits(pattern, name, y, w, v)
  <2>1. PICK a : IsAlignment(pattern, name, x, u, y + 1, v, a)
    BY <1>1 DEF Aligned
  <2> DEFINE b == [q \in x..y |-> a[q]]
  <2>2. a[y] \in Cuts(name) /\ Fits(pattern, name, y, a[y], v)
    BY <2>1 DEF IsAlignment
  <2>3. b \in [x..y -> Cuts(name)] /\ b[x] = u /\ b[y] = a[y]
    BY <2>1 DEF IsAlignment
  <2>4. \A q \in x..(y - 1) : Fits(pattern, name, q, b[q], b[q + 1])
    <3> TAKE q \in x..(y - 1)
    <3>1. q \in x..((y + 1) - 1) /\ b[q] = a[q] /\ b[q + 1] = a[q + 1]
      OBVIOUS
    <3>2. QED
      BY <2>1, <3>1 DEF IsAlignment
  <2>5. IsAlignment(pattern, name, x, u, y, a[y], b)
    BY <2>3, <2>4 DEF IsAlignment
  <2>6. QED
    BY <2>2, <2>5 DEF Aligned
<1>2. ASSUME NEW w \in Cuts(name), Fits(pattern, name, y, w, v),
             Aligned(pattern, name, x, u, y, w)
      PROVE  Aligned(pattern, name, x, u, y + 1, v)
  <2>1. PICK a : IsAlignment(pattern, name, x, u, y, w, a)
    BY <1>2 DEF Aligned
  <2> DEFINE b == [q \in x..(y + 1) |-> IF q = y + 1 THEN v ELSE a[q]]
  <2>2. b \in [x..(y + 1) -> Cuts(name)] /\ b[x] = u /\ b[y + 1] = v
    BY <2>1 DEF IsAlignment
  <2>3. \A q \in x..((y + 1) - 1) : Fits(pattern, name, q, b[q], b[q + 1])
    <3> TAKE q \in x..((y + 1) - 1)
    <3>1. CASE q = y
      <4>1. b[q] = w /\ b[q + 1] = v
        BY <2>1, <3>1 DEF IsAlignment
      <4>2. QED
        BY <1>2, <3>1, <4>1
    <3>2. CASE q # y
      <4>1. q \in x..(y - 1) /\ b[q] = a[q] /\ b[q + 1] = a[q + 1]
        BY <3>2
      <4>2. QED
        BY <2>1, <4>1 DEF IsAlignment
    <3>3. QED
      BY <3>1, <3>2
  <2>4. IsAlignment(pattern, name, x, u, y + 1, v, b)
    BY <2>2, <2>3 DEF IsAlignment
  <2>5. QED
    BY <2>4 DEF Aligned
<1>3. QED
  BY <1>1, <1>2

----------------------------------------------------------------------------
(* glob_ref.                                                               *)

RefCell(pattern, name, f, c) ==
    IF c[1] = 0 THEN c[2] = 0
    ELSE IF pattern[c[1]] = "*"
    THEN f[<<c[1] - 1, c[2]>>] \/ (c[2] > 0 /\ f[<<c[1], c[2] - 1>>])
    ELSE c[2] > 0 /\ pattern[c[1]] \in {"?", name[c[2]]} /\ f[<<c[1] - 1, c[2] - 1>>]

\* The first i elements match the first j characters.
Prefix(pattern, name, i, j) == Aligned(pattern, name, 1, 1, i + 1, j + 1)

LEMMA PrefixCell ==
    ASSUME NEW pattern, NEW name, Len(pattern) \in Nat, Len(name) \in Nat,
           NEW i \in 0..Len(pattern), NEW j \in 0..Len(name)
    PROVE  Prefix(pattern, name, i, j) <=>
             IF i = 0 THEN j = 0
             ELSE IF pattern[i] = "*"
             THEN Prefix(pattern, name, i - 1, j) \/ (j > 0 /\ Prefix(pattern, name, i, j - 1))
             ELSE j > 0 /\ pattern[i] \in {"?", name[j]} /\ Prefix(pattern, name, i - 1, j - 1)
<1>1. /\ i \in Nat /\ j \in Nat /\ j <= Len(name) /\ 1 \in Cuts(name) /\ j + 1 \in Cuts(name)
      /\ \A w \in Cuts(name) : w \in Nat /\ w >= 1 /\ w <= Len(name) + 1
  BY DEF Cuts
<1>2. CASE i = 0
  <2>1. Aligned(pattern, name, 1, 1, 1, j + 1) <=> 1 = j + 1
    BY <1>1, AlignNone
  <2>2. i + 1 = 1 /\ (1 = j + 1 <=> j = 0)
    BY <1>1, <1>2
  <2>3. QED
    BY <1>2, <2>1, <2>2 DEF Prefix
<1>3. CASE i # 0
  <2>1. i - 1 \in Nat /\ i - 1 + 1 = i /\ 1 <= i /\ i \in Nat
    BY <1>1, <1>3
  <2>2. \A v \in Cuts(name) :
           Aligned(pattern, name, 1, 1, i + 1, v) <=>
              \E w \in Cuts(name) : /\ Aligned(pattern, name, 1, 1, i, w)
                                    /\ Fits(pattern, name, i, w, v)
    BY <1>1, <2>1, AlignLast
  <2>3. CASE pattern[i] = "*"
    <3>1. \A v \in Cuts(name) :
             Aligned(pattern, name, 1, 1, i + 1, v) <=>
                \E w \in Cuts(name) : Aligned(pattern, name, 1, 1, i, w) /\ w <= v
      BY <2>2, <2>3 DEF Fits
    <3>2. Prefix(pattern, name, i, j) <=>
                \E w \in Cuts(name) : Aligned(pattern, name, 1, 1, i, w) /\ w <= j + 1
      BY <1>1, <3>1 DEF Prefix
    <3>3. Prefix(pattern, name, i - 1, j) <=> Aligned(pattern, name, 1, 1, i, j + 1)
      BY <2>1 DEF Prefix
    <3>4. j > 0 => (Prefix(pattern, name, i, j - 1) <=>
                \E w \in Cuts(name) : Aligned(pattern, name, 1, 1, i, w) /\ w <= j)
      <4> HAVE j > 0
      <4>1. j - 1 + 1 = j /\ j \in Cuts(name)
        BY <1>1 DEF Cuts
      <4>2. QED
        BY <3>1, <4>1 DEF Prefix
    <3>5. \A w \in Cuts(name) : w <= j + 1 <=> (w = j + 1 \/ (j > 0 /\ w <= j))
      BY <1>1
    <3>6. QED
      BY <1>1, <1>3, <2>3, <3>2, <3>3, <3>4, <3>5
  <2>4. CASE pattern[i] # "*"
    <3>1. Prefix(pattern, name, i, j) <=>
             \E w \in Cuts(name) : /\ Aligned(pattern, name, 1, 1, i, w)
                                   /\ j + 1 = w + 1 /\ w <= Len(name)
                                   /\ pattern[i] \in {"?", name[w]}
      BY <1>1, <2>2, <2>4 DEF Fits, Prefix
    <3>2. \A w \in Cuts(name) : j + 1 = w + 1 /\ w <= Len(name) => w = j /\ j > 0
      BY <1>1
    <3>3. j > 0 => j \in Cuts(name) /\ j - 1 + 1 = j
      BY <1>1 DEF Cuts
    <3>4. Prefix(pattern, name, i - 1, j - 1) <=> Aligned(pattern, name, 1, 1, i, j - 1 + 1)
      BY <2>1 DEF Prefix
    <3>5. QED
      BY <1>1, <1>3, <2>4, <3>1, <3>2, <3>3, <3>4
  <2>5. QED
    BY <2>3, <2>4
<1>4. QED
  BY <1>2, <1>3

\* glob_ref decides whether there is an alignment.
LEMMA GlobRefMeaning ==
    ASSUME NEW pattern, NEW name, Len(pattern) \in Nat, Len(name) \in Nat
    PROVE  GlobRef(pattern, name) <=>
              Aligned(pattern, name, 1, 1, Len(pattern) + 1, Len(name) + 1)
<1> DEFINE P == Len(pattern)
           N == Len(name)
           D == (0..P) \X (0..N)
           meaning == [c \in D |-> Prefix(pattern, name, c[1], c[2])]
           m == CHOOSE f : f = [c \in D |-> RefCell(pattern, name, f, c)]
<1>1. GlobRef(pattern, name) = m[<<P, N>>]
  BY DEF GlobRef, RefCell
<1>2. meaning = [c \in D |-> RefCell(pattern, name, meaning, c)]
  <2>1. ASSUME NEW c \in D
        PROVE  meaning[c] = RefCell(pattern, name, meaning, c)
    <3> DEFINE i == c[1]
               j == c[2]
    <3>1. i \in 0..P /\ j \in 0..N /\ c = <<i, j>>
      OBVIOUS
    <3>2. i # 0 => <<i - 1, j>> \in D
      BY <3>1
    <3>3. j > 0 => <<i, j - 1>> \in D
      BY <3>1
    <3>4. i # 0 /\ j > 0 => <<i - 1, j - 1>> \in D
      BY <3>1
    <3>5. \A e \in D : meaning[e] = Prefix(pattern, name, e[1], e[2])
      OBVIOUS
    <3> HIDE DEF D, meaning
    <3>6. /\ i # 0 => meaning[<<i - 1, j>>] = Prefix(pattern, name, i - 1, j)
          /\ j > 0 => meaning[<<i, j - 1>>] = Prefix(pattern, name, i, j - 1)
          /\ i # 0 /\ j > 0 => meaning[<<i - 1, j - 1>>] = Prefix(pattern, name, i - 1, j - 1)
          /\ meaning[c] = Prefix(pattern, name, i, j)
      BY <3>1, <3>2, <3>3, <3>4, <3>5
    <3>7. Prefix(pattern, name, i, j) <=>
             IF i = 0 THEN j = 0
             ELSE IF pattern[i] = "*"
             THEN Prefix(pattern, name, i - 1, j) \/ (j > 0 /\ Prefix(pattern, name, i, j - 1))
             ELSE j > 0 /\ pattern[i] \in {"?", name[j]} /\ Prefix(pattern, name, i - 1, j - 1)
      BY <3>1, PrefixCell
    <3>8. Prefix(pattern, name, i, j) \in BOOLEAN
      BY DEF Prefix, Aligned
    <3>9. RefCell(pattern, name, meaning, c) \in BOOLEAN
      BY DEF RefCell
    <3>10. RefCell(pattern, name, meaning, c) <=> Prefix(pattern, name, i, j)
      BY <3>6, <3>7 DEF RefCell
    <3>11. QED
      BY <3>6, <3>8, <3>9, <3>10, Zenon
  <2>2. meaning = [c \in D |-> meaning[c]]
    OBVIOUS
  <2> HIDE DEF D, meaning
  <2>3. QED
    BY <2>1, <2>2, Zenon
<1> HIDE DEF meaning
<1>3. m = [c \in D |-> RefCell(pattern, name, m, c)]
  BY <1>2, Zenon
<1> HIDE DEF m
<1>4. \A i \in 0..P, j \in 0..N :
         m[<<i, j>>] <=> IF i = 0 THEN j = 0
                         ELSE IF pattern[i] = "*"
                         THEN m[<<i - 1, j>>] \/ (j > 0 /\ m[<<i, j - 1>>])
                         ELSE j > 0 /\ pattern[i] \in {"?", name[j]} /\ m[<<i - 1, j - 1>>]
  <2> TAKE i \in 0..P, j \in 0..N
  <2>1. <<i, j>> \in D /\ <<i, j>>[1] = i /\ <<i, j>>[2] = j
    OBVIOUS
  <2> HIDE DEF D
  <2>2. m[<<i, j>>] = RefCell(pattern, name, m, <<i, j>>)
    BY <1>3, <2>1
  <2>3. QED
    BY <2>1, <2>2 DEF RefCell
<1> DEFINE Agree(i, j) == m[<<i, j>>] <=> Prefix(pattern, name, i, j)
           T == {d \in Nat : \E i \in 0..P, j \in 0..N : i + j = d /\ ~Agree(i, j)}
<1>5. T = {}
  <2>1. SUFFICES ASSUME T # {}
                 PROVE  FALSE
    OBVIOUS
  <2>2. T \in SUBSET Nat
    OBVIOUS
  <2>3. PICK d \in T : \A y \in T : d <= y
    BY <2>1, <2>2, Least
  <2>4. PICK i \in 0..P, j \in 0..N : i + j = d /\ ~Agree(i, j)
    BY <2>3
  <2>5. \A k \in 0..P, l \in 0..N : k + l < d => Agree(k, l)
    <3> TAKE k \in 0..P, l \in 0..N
    <3> HAVE k + l < d
    <3>1. k + l \notin T
      <4> HIDE DEF T
      <4>1. k + l \in Nat /\ d \in Nat /\ ~(d <= k + l)
        BY <2>2
      <4>2. QED
        BY <2>3, <4>1, Zenon
    <3>2. k + l \in Nat
      OBVIOUS
    <3>3. QED
      BY <3>1, <3>2
  <2>6. i \in Nat /\ j \in Nat /\ i <= P /\ j <= N
    OBVIOUS
  <2>7. /\ i # 0 => Agree(i - 1, j)
        /\ j > 0 => Agree(i, j - 1)
        /\ i # 0 /\ j > 0 => Agree(i - 1, j - 1)
    <3> HIDE DEF Agree
    <3>1. i # 0 => i - 1 \in 0..P /\ i - 1 + j < d
      BY <2>4, <2>6
    <3>2. j > 0 => j - 1 \in 0..N /\ i + (j - 1) < d
      BY <2>4, <2>6
    <3>3. i # 0 /\ j > 0 => i - 1 + (j - 1) < d
      BY <2>4, <2>6
    <3>4. QED
      BY <2>5, <3>1, <3>2, <3>3
  <2>8. m[<<i, j>>] <=> IF i = 0 THEN j = 0
                        ELSE IF pattern[i] = "*"
                        THEN m[<<i - 1, j>>] \/ (j > 0 /\ m[<<i, j - 1>>])
                        ELSE j > 0 /\ pattern[i] \in {"?", name[j]} /\ m[<<i - 1, j - 1>>]
    BY <1>4
  <2>9. Prefix(pattern, name, i, j) <=>
             IF i = 0 THEN j = 0
             ELSE IF pattern[i] = "*"
             THEN Prefix(pattern, name, i - 1, j) \/ (j > 0 /\ Prefix(pattern, name, i, j - 1))
             ELSE j > 0 /\ pattern[i] \in {"?", name[j]} /\ Prefix(pattern, name, i - 1, j - 1)
    BY PrefixCell
  <2>10. QED
    BY <2>4, <2>7, <2>8, <2>9, Zenon
<1>6. Agree(P, N)
  <2>1. P \in 0..P /\ N \in 0..N /\ P + N \in Nat
    OBVIOUS
  <2>2. P + N \notin T
    BY <1>5
  <2>3. QED
    BY <2>1, <2>2
<1>7. QED
  BY <1>1, <1>6 DEF Prefix

----------------------------------------------------------------------------
(* glob_match.                                                             *)

RunsFrom(D, B, v, nxt) == \E f : f = [s \in D |-> IF s \in B THEN v[s] ELSE f[nxt[s]]]

\* A function defined by going from state to state until a stop exists when
\* every step lowers a bounded measure.
LEMMA TailRecursion ==
    ASSUME NEW D, NEW B, NEW v, NEW nxt \in [D -> D], NEW mu \in [D -> Nat], NEW K \in Nat,
           \A s \in D : mu[s] < K,
           \A s \in D \ B : mu[nxt[s]] < mu[s]
    PROVE  RunsFrom(D, B, v, nxt)
<1> DEFINE Low(k) == {s \in D : mu[s] < k}
           Is(k, f) == f = [s \in Low(k) |-> IF s \in B THEN v[s] ELSE f[nxt[s]]]
           T == {k \in Nat : ~\E f : Is(k, f)}
<1>1. T = {}
  <2>1. SUFFICES ASSUME T # {}
                 PROVE  FALSE
    OBVIOUS
  <2>2. T \in SUBSET Nat
    OBVIOUS
  <2>3. PICK k \in T : \A y \in T : k <= y
    BY <2>1, <2>2, Least
  <2>4. CASE k = 0
    <3>1. Low(0) = {}
      OBVIOUS
    <3>2. Is(0, [s \in {} |-> TRUE])
      BY <3>1
    <3>3. QED
      BY <2>3, <2>4, <3>2
  <2>5. CASE k # 0
    <3>1. k \in Nat /\ k - 1 \in Nat /\ ~(k <= k - 1)
      BY <2>2, <2>3, <2>5
    <3>2. PICK f : Is(k - 1, f)
      <4> HIDE DEF Is
      <4>1. k - 1 \notin T
        BY <2>3, <3>1
      <4>2. QED
        BY <3>1, <4>1
    <3> DEFINE g == [s \in Low(k) |-> IF s \in B THEN v[s]
                                      ELSE IF nxt[s] \in B THEN v[nxt[s]] ELSE f[nxt[nxt[s]]]]
    <3>3. \A s \in Low(k - 1) : f[s] = IF s \in B THEN v[s] ELSE f[nxt[s]]
      BY <3>2
    <3>4. \A s \in Low(k) \ B : nxt[s] \in Low(k - 1) /\ nxt[s] \in Low(k)
      <4> TAKE s \in Low(k) \ B
      <4>1. /\ s \in D \ B /\ nxt[s] \in D /\ mu[s] \in Nat /\ mu[nxt[s]] \in Nat
            /\ mu[s] < k /\ mu[nxt[s]] < mu[s]
        OBVIOUS
      <4>2. mu[nxt[s]] < k - 1 /\ mu[nxt[s]] < k
        BY <3>1, <4>1
      <4>3. QED
        BY <4>1, <4>2
    <3>5. \A s \in Low(k) : g[s] = IF s \in B THEN v[s] ELSE g[nxt[s]]
      <4> HIDE DEF Low
      <4> TAKE s \in Low(k)
      <4>1. CASE s \in B
        BY <4>1
      <4>2. CASE s \notin B
        <5>1. /\ nxt[s] \in Low(k - 1) /\ nxt[s] \in Low(k)
              /\ g[s] = IF nxt[s] \in B THEN v[nxt[s]] ELSE f[nxt[nxt[s]]]
          BY <3>4, <4>2
        <5>2. CASE nxt[s] \in B
          BY <4>2, <5>1, <5>2
        <5>3. CASE nxt[s] \notin B
          <6>1. nxt[nxt[s]] \in Low(k - 1) /\ g[nxt[s]] = IF nxt[nxt[s]] \in B
                   THEN v[nxt[nxt[s]]] ELSE f[nxt[nxt[nxt[s]]]]
            BY <3>4, <5>1, <5>3
          <6>2. f[nxt[nxt[s]]] = IF nxt[nxt[s]] \in B
                   THEN v[nxt[nxt[s]]] ELSE f[nxt[nxt[nxt[s]]]]
            BY <3>3, <6>1
          <6>3. QED
            BY <4>2, <5>1, <5>3, <6>1, <6>2
        <5>4. QED
          BY <5>2, <5>3
      <4>3. QED
        BY <4>1, <4>2
    <3>6. g = [s \in Low(k) |-> g[s]]
      OBVIOUS
    <3> HIDE DEF g, Low
    <3>7. g = [s \in Low(k) |-> IF s \in B THEN v[s] ELSE g[nxt[s]]]
      BY <3>5, <3>6, Zenon
    <3>8. Is(k, g)
      BY <3>7
    <3> HIDE DEF Is
    <3>9. QED
      BY <2>3, <3>8
  <2>6. QED
    BY <2>4, <2>5
<1>2. K \notin T
  BY <1>1
<1>3. PICK f : Is(K, f)
  <2> HIDE DEF Is
  <2>1. QED
    BY <1>2
<1>4. Low(K) = D
  OBVIOUS
<1>5. QED
  BY <1>3, <1>4 DEF RunsFrom

\* The cases of the loop, and what each does to its state.
Eats(pattern, name, s) == s.p <= Len(pattern) /\ pattern[s.p] \in {"?", name[s.n]}
AtStar(pattern, s) == s.p <= Len(pattern) /\ pattern[s.p] = "*"
Over(pattern, name, s) ==
    s.n > Len(name) \/ (~Eats(pattern, name, s) /\ ~AtStar(pattern, s) /\ s.sp = 0)
Eaten(s) == [s EXCEPT !.p = @ + 1, !.n = @ + 1]
Starred(s) == [p |-> s.p + 1, n |-> s.n, sp |-> s.p, sn |-> s.n]
Retried(s) == [p |-> s.sp + 1, n |-> s.sn + 1, sp |-> s.sp, sn |-> s.sn + 1]
After(pattern, name, s) ==
    IF Eats(pattern, name, s) THEN Eaten(s)
    ELSE IF AtStar(pattern, s) THEN Starred(s) ELSE Retried(s)
OnlyStars(pattern, s) == \A i \in s.p..Len(pattern) : pattern[i] = "*"

LoopBody(pattern, name, f, s) ==
    IF s.n > Len(name) THEN \A i \in s.p..Len(pattern) : pattern[i] = "*"
    ELSE IF s.p <= Len(pattern) /\ pattern[s.p] \in {"?", name[s.n]}
         THEN f[[s EXCEPT !.p = @ + 1, !.n = @ + 1]]
    ELSE IF s.p <= Len(pattern) /\ pattern[s.p] = "*"
         THEN f[[p |-> s.p + 1, n |-> s.n, sp |-> s.p, sn |-> s.n]]
    ELSE IF s.sp # 0
         THEN f[[p |-> s.sp + 1, n |-> s.sn + 1, sp |-> s.sp, sn |-> s.sn + 1]]
    ELSE FALSE

\* What the loop has still to do: retries, and elements before the next one.
Remaining(P, N, s) == (N + 1 - s.sn) * (P + 2) + (P + 1 - s.p)

LEMMA TimesMonotone ==
    ASSUME NEW a \in Nat, NEW b \in Nat, a <= b, NEW w \in Nat
    PROVE  a * w \in Nat /\ b * w \in Nat /\ a * w <= b * w /\ (a + 1) * w = a * w + w
<1>1. PICK d \in Nat : b = a + d
  <2>1. b - a \in Nat /\ b = a + (b - a)
    OBVIOUS
  <2>2. QED
    BY <2>1
<1>2. b * w = a * w + d * w /\ a * w \in Nat /\ d * w \in Nat /\ (a + 1) * w = a * w + w
  BY <1>1
<1>3. QED
  BY <1>2

LEMMA RemainingNat ==
    ASSUME NEW P \in Nat, NEW N \in Nat, NEW s \in GlobLoop(P, N)
    PROVE  /\ Remaining(P, N, s) \in Nat
           /\ Remaining(P, N, s) < (N + 1) * (P + 2) + (P + 2)
           /\ (N + 1) * (P + 2) + (P + 2) \in Nat
<1>1. /\ s.p \in 1..(P + 1) /\ s.n \in 1..(N + 1) /\ s.sp \in 0..P /\ s.sn \in 0..(N + 1)
  BY DEF GlobLoop
<1>2. N + 1 - s.sn \in Nat /\ N + 1 \in Nat /\ N + 1 - s.sn <= N + 1 /\ P + 2 \in Nat
  BY <1>1
<1>3. /\ (N + 1 - s.sn) * (P + 2) \in Nat /\ (N + 1) * (P + 2) \in Nat
      /\ (N + 1 - s.sn) * (P + 2) <= (N + 1) * (P + 2)
  BY <1>2, TimesMonotone, Zenon
<1> DEFINE x == (N + 1 - s.sn) * (P + 2)
           y == (N + 1) * (P + 2)
<1>4. Remaining(P, N, s) = x + (P + 1 - s.p)
  BY DEF Remaining
<1>5. x \in Nat /\ y \in Nat /\ x <= y
  BY <1>3
<1> HIDE DEF x, y
<1>6. /\ x + (P + 1 - s.p) \in Nat
      /\ x + (P + 1 - s.p) < y + (P + 2)
      /\ y + (P + 2) \in Nat
  BY <1>1, <1>5
<1>7. QED
  BY <1>4, <1>6 DEF y

LEMMA LoopAdvances ==
    ASSUME NEW pattern, NEW name, Len(pattern) \in Nat, Len(name) \in Nat,
           NEW s \in GlobLoop(Len(pattern), Len(name)), ~Over(pattern, name, s)
    PROVE  /\ After(pattern, name, s) \in GlobLoop(Len(pattern), Len(name))
           /\ Remaining(Len(pattern), Len(name), After(pattern, name, s))
                 < Remaining(Len(pattern), Len(name), s)
<1> DEFINE P == Len(pattern)
           N == Len(name)
           t == After(pattern, name, s)
           x == (N + 1 - s.sn) * (P + 2)
<1>1. /\ s.p \in 1..(P + 1) /\ s.n \in 1..(N + 1) /\ s.sp \in 0..P /\ s.sn \in 0..(N + 1)
      /\ s.sn <= s.n /\ s.n <= N
      /\ s \in [p : 1..(P + 1), n : 1..(N + 1), sp : 0..P, sn : 0..(N + 1)]
  BY DEF GlobLoop, Over
<1>2. N + 1 - s.sn \in Nat /\ P + 2 \in Nat /\ x \in Nat
  <2>1. N + 1 - s.sn \in Nat /\ P + 2 \in Nat /\ N + 1 - s.sn <= N + 1 - s.sn
    BY <1>1
  <2>2. QED
    BY <2>1, TimesMonotone, Zenon
<1>3. Remaining(P, N, s) = x + (P + 1 - s.p)
  BY DEF Remaining
<1>4. CASE Eats(pattern, name, s)
  <2>1. s.p <= P /\ t = [s EXCEPT !.p = @ + 1, !.n = @ + 1]
    BY <1>4 DEF Eats, After, Eaten
  <2>2. t.p = s.p + 1 /\ t.n = s.n + 1 /\ t.sp = s.sp /\ t.sn = s.sn
    BY <1>1, <2>1
  <2>3. t \in [p : 1..(P + 1), n : 1..(N + 1), sp : 0..P, sn : 0..(N + 1)] /\ t.sn <= t.n
    <3>1. s.p + 1 \in 1..(P + 1) /\ s.n + 1 \in 1..(N + 1) /\ s.sn <= s.n + 1
      BY <1>1, <2>1
    <3>2. QED
      BY <1>1, <2>1, <2>2, <3>1
  <2>4. Remaining(P, N, t) = x + (P + 1 - (s.p + 1))
    BY <2>2 DEF Remaining
  <2> HIDE DEF x, t
  <2>5. x + (P + 1 - (s.p + 1)) < x + (P + 1 - s.p)
    <3>1. s.p \in Nat /\ P \in Nat /\ x \in Nat
      BY <1>1, <1>2
    <3> HIDE DEF P
    <3> QED
      BY ONLY <3>1
  <2>6. QED
    BY <1>3, <2>3, <2>4, <2>5 DEF GlobLoop, t
<1>5. CASE ~Eats(pattern, name, s) /\ AtStar(pattern, s)
  <2>1. s.p <= P /\ t = [p |-> s.p + 1, n |-> s.n, sp |-> s.p, sn |-> s.n]
    BY <1>5 DEF AtStar, After, Starred
  <2>2. t.p = s.p + 1 /\ t.n = s.n /\ t.sp = s.p /\ t.sn = s.n
    BY <2>1
  <2>3. t \in [p : 1..(P + 1), n : 1..(N + 1), sp : 0..P, sn : 0..(N + 1)] /\ t.sn <= t.n
    BY <1>1, <2>1, <2>2
  <2> DEFINE z == (N + 1 - s.n) * (P + 2)
  <2>4. Remaining(P, N, t) = z + (P + 1 - (s.p + 1))
    BY <2>2 DEF Remaining
  <2>5. z \in Nat /\ z <= x
    <3>1. N + 1 - s.n \in Nat /\ N + 1 - s.n <= N + 1 - s.sn
      BY <1>1
    <3>2. QED
      BY <1>2, <3>1, TimesMonotone, Zenon
  <2> HIDE DEF x, t, z
  <2>6. z + (P + 1 - (s.p + 1)) < x + (P + 1 - s.p)
    <3>1. /\ P \in Nat /\ s.p \in 1..(P + 1) /\ s.sp \in 0..P /\ x \in Nat
      BY <1>1, <1>2
    <3>2. QED
      BY ONLY <2>5, <3>1
  <2>7. QED
    BY <1>3, <2>3, <2>4, <2>6 DEF GlobLoop, t
<1>6. CASE ~Eats(pattern, name, s) /\ ~AtStar(pattern, s)
  <2>1. s.sp # 0 /\ t = [p |-> s.sp + 1, n |-> s.sn + 1, sp |-> s.sp, sn |-> s.sn + 1]
    BY <1>6 DEF Over, After, Retried
  <2>2. t.p = s.sp + 1 /\ t.n = s.sn + 1 /\ t.sp = s.sp /\ t.sn = s.sn + 1
    BY <2>1
  <2>3. t \in [p : 1..(P + 1), n : 1..(N + 1), sp : 0..P, sn : 0..(N + 1)] /\ t.sn <= t.n
    BY <1>1, <2>1, <2>2
  <2> DEFINE z == (N + 1 - (s.sn + 1)) * (P + 2)
  <2>4. Remaining(P, N, t) = z + (P + 1 - (s.sp + 1))
    BY <2>2 DEF Remaining
  <2>5. z \in Nat /\ x = z + (P + 2)
    <3> DEFINE r == N + 1 - (s.sn + 1)
    <3>1. r \in Nat /\ r <= r /\ r + 1 = N + 1 - s.sn
      BY <1>1
    <3>2. r * (P + 2) \in Nat /\ (r + 1) * (P + 2) = r * (P + 2) + (P + 2)
      <4> HIDE DEF r
      <4>1. QED
        BY <1>2, <3>1, TimesMonotone, Zenon
    <3>3. QED
      BY <3>1, <3>2
  <2> HIDE DEF x, t, z
  <2>6. z + (P + 1 - (s.sp + 1)) < x + (P + 1 - s.p)
    <3>1. \A l \in Nat : \A a \in 1..(l + 1), b \in 0..l, c \in Nat :
             c + (l + 1 - (b + 1)) < c + (l + 2) + (l + 1 - a)
      OBVIOUS
    <3>2. P \in Nat /\ s.p \in 1..(P + 1) /\ s.sp \in 0..P /\ z \in Nat
      BY <1>1, <2>5
    <3>3. z + (P + 1 - (s.sp + 1)) < z + (P + 2) + (P + 1 - s.p)
      BY <3>1, <3>2
    <3>4. QED
      BY <2>5, <3>3
  <2>7. QED
    BY <1>3, <2>3, <2>4, <2>6 DEF GlobLoop, t
<1>7. QED
  BY <1>4, <1>5, <1>6

\* The loop's function exists as defined: every turn makes progress.
LEMMA LoopExists ==
    ASSUME NEW pattern, NEW name, Len(pattern) \in Nat, Len(name) \in Nat
    PROVE  \E f : f = [s \in GlobLoop(Len(pattern), Len(name)) |-> LoopBody(pattern, name, f, s)]
<1> DEFINE P == Len(pattern)
           N == Len(name)
           D == GlobLoop(P, N)
           B == {s \in D : Over(pattern, name, s)}
           v == [s \in D |-> s.n > N /\ OnlyStars(pattern, s)]
           nxt == [s \in D |-> IF s \in B THEN s ELSE After(pattern, name, s)]
           mu == [s \in D |-> Remaining(P, N, s)]
           K == (N + 1) * (P + 2) + (P + 2)
<1>1. \A s \in D : Remaining(P, N, s) \in Nat /\ Remaining(P, N, s) < K /\ K \in Nat
  BY RemainingNat
<1>2. \A s \in D \ B : /\ After(pattern, name, s) \in D
                       /\ Remaining(P, N, After(pattern, name, s)) < Remaining(P, N, s)
  BY LoopAdvances
<1>3. D # {}
  <2>1. [p |-> 1, n |-> 1, sp |-> 0, sn |-> 0] \in D
    BY DEF GlobLoop
  <2>2. QED
    BY <2>1
<1> HIDE DEF D, K
<1>4. /\ nxt \in [D -> D] /\ mu \in [D -> Nat] /\ K \in Nat
      /\ \A s \in D : mu[s] < K
      /\ \A s \in D \ B : mu[nxt[s]] < mu[s]
  BY <1>1, <1>2, <1>3
<1> HIDE DEF B, nxt, mu, v
<1>5. PICK f : f = [s \in D |-> IF s \in B THEN v[s] ELSE f[nxt[s]]]
  <2>1. RunsFrom(D, B, v, nxt)
    BY <1>4, TailRecursion
  <2>2. QED
    BY <2>1 DEF RunsFrom
<1>6. ASSUME NEW s \in D
      PROVE  f[s] = LoopBody(pattern, name, f, s)
  <2>1. f[s] = IF s \in B THEN v[s] ELSE f[nxt[s]]
    BY <1>5
  <2>2. CASE Over(pattern, name, s)
    <3>1. f[s] = (s.n > N /\ OnlyStars(pattern, s))
      BY <2>1, <2>2 DEF B, v
    <3>2. CASE s.n > N
      <4>1. LoopBody(pattern, name, f, s) = OnlyStars(pattern, s)
        BY <3>2 DEF LoopBody, OnlyStars
      <4>2. OnlyStars(pattern, s) \in BOOLEAN
        BY DEF OnlyStars
      <4>3. (s.n > N /\ OnlyStars(pattern, s)) = OnlyStars(pattern, s)
        BY <3>2, <4>2
      <4>4. QED
        BY <3>1, <4>1, <4>3
    <3>3. CASE ~(s.n > N)
      <4>1. LoopBody(pattern, name, f, s) = FALSE
        BY <2>2, <3>3 DEF LoopBody, Over, Eats, AtStar
      <4>2. QED
        BY <3>1, <3>3, <4>1
    <3>4. QED
      BY <3>2, <3>3
  <2>3. CASE ~Over(pattern, name, s)
    <3>1. f[s] = f[After(pattern, name, s)]
      BY <2>1, <2>3 DEF B, nxt
    <3>2. LoopBody(pattern, name, f, s) = f[After(pattern, name, s)]
      <4>1. CASE Eats(pattern, name, s)
        BY <2>3, <4>1 DEF LoopBody, Over, Eats, After, Eaten
      <4>2. CASE ~Eats(pattern, name, s) /\ AtStar(pattern, s)
        BY <2>3, <4>2 DEF LoopBody, Over, Eats, AtStar, After, Starred
      <4>3. CASE ~Eats(pattern, name, s) /\ ~AtStar(pattern, s)
        BY <2>3, <4>3 DEF LoopBody, Over, Eats, AtStar, After, Retried
      <4>4. QED
        BY <4>1, <4>2, <4>3
    <3>3. QED
      BY <3>1, <3>2
  <2>4. QED
    BY <2>2, <2>3
<1>7. f = [s \in D |-> f[s]]
  BY <1>5
<1>8. f = [s \in D |-> LoopBody(pattern, name, f, s)]
  BY <1>6, <1>7, Zenon
<1>9. QED
  BY <1>8 DEF D

\* The elements from x on match the characters from u on.
Rest(pattern, name, x, u) == Aligned(pattern, name, x, u, Len(pattern) + 1, Len(name) + 1)

LEMMA RestCases ==
    ASSUME NEW pattern, NEW name, Len(pattern) \in Nat, Len(name) \in Nat,
           NEW x \in 1..(Len(pattern) + 1), NEW u \in Cuts(name)
    PROVE  /\ x = Len(pattern) + 1 => (Rest(pattern, name, x, u) <=> u = Len(name) + 1)
           /\ x <= Len(pattern) /\ pattern[x] = "*" =>
                 (Rest(pattern, name, x, u) <=>
                    \E w \in Cuts(name) : u <= w /\ Rest(pattern, name, x + 1, w))
           /\ x <= Len(pattern) /\ pattern[x] # "*" =>
                 (Rest(pattern, name, x, u) <=>
                    /\ u <= Len(name) /\ pattern[x] \in {"?", name[u]}
                    /\ Rest(pattern, name, x + 1, u + 1))
<1> DEFINE P == Len(pattern)
           N == Len(name)
<1>1. x \in Nat /\ P + 1 \in Nat /\ u \in Nat /\ N + 1 \in Cuts(name)
  BY DEF Cuts
<1>2. x = P + 1 => (Rest(pattern, name, x, u) <=> u = N + 1)
  BY <1>1, AlignNone DEF Rest
<1>3. x <= P => (Rest(pattern, name, x, u) <=>
                    \E w \in Cuts(name) : /\ Fits(pattern, name, x, u, w)
                                          /\ Rest(pattern, name, x + 1, w))
  <2> HAVE x <= P
  <2>1. x < P + 1
    BY <1>1
  <2>2. QED
    BY <1>1, <2>1, AlignFirst DEF Rest
<1>4. u <= N => u + 1 \in Cuts(name)
  BY <1>1 DEF Cuts
<1>5. QED
  BY <1>2, <1>3, <1>4 DEF Fits

\* Elements that are no stars take one character each.
LEMMA Slide ==
    ASSUME NEW pattern, NEW name, Len(pattern) \in Nat, Len(name) \in Nat,
           NEW x \in 1..(Len(pattern) + 1), NEW y \in 1..(Len(pattern) + 1), x <= y,
           \A q \in x..(y - 1) : pattern[q] # "*",
           NEW u \in Cuts(name), Rest(pattern, name, x, u)
    PROVE  u + (y - x) \in Cuts(name) /\ Rest(pattern, name, y, u + (y - x))
<1> DEFINE P == Len(pattern)
           Ok(d) == u + d \in Cuts(name) /\ Rest(pattern, name, x + d, u + d)
           T == {d \in Nat : d <= y - x /\ ~Ok(d)}
<1>1. x \in Nat /\ y \in Nat /\ u \in Nat /\ y - x \in Nat
  BY DEF Cuts
<1>2. T = {}
  <2>1. SUFFICES ASSUME T # {}
                 PROVE  FALSE
    OBVIOUS
  <2>2. T \in SUBSET Nat
    OBVIOUS
  <2>3. PICK d \in T : \A e \in T : d <= e
    BY <2>1, <2>2, Least
  <2>4. d \in Nat /\ d <= y - x /\ ~Ok(d)
    BY <2>3
  <2>5. d # 0
    <3>1. u + 0 = u /\ x + 0 = x
      BY <1>1
    <3>2. Ok(0)
      BY <3>1
    <3>3. QED
      BY <2>4, <3>2
  <2>6. d - 1 \in Nat /\ d - 1 <= y - x /\ ~(d <= d - 1)
    BY <1>1, <2>4, <2>5
  <2>7. Ok(d - 1)
    <3> HIDE DEF Ok
    <3>1. d - 1 \notin T
      BY <2>3, <2>6
    <3>2. QED
      BY <2>6, <3>1
  <2> DEFINE q == x + (d - 1)
             v == u + (d - 1)
  <2>8. /\ q \in 1..(P + 1) /\ q <= P /\ q \in x..(y - 1) /\ q + 1 = x + d /\ v + 1 = u + d
    BY <1>1, <2>4, <2>6
  <2>9. v \in Cuts(name) /\ Rest(pattern, name, q, v)
    BY <2>7
  <2>10. pattern[q] # "*"
    BY <2>8
  <2> HIDE DEF q, v
  <2>11. v <= Len(name) /\ Rest(pattern, name, q + 1, v + 1)
    BY <2>8, <2>9, <2>10, RestCases
  <2>12. v + 1 \in Cuts(name)
    BY <2>9, <2>11 DEF Cuts
  <2>13. QED
    BY <2>4, <2>8, <2>11, <2>12
<1>3. Ok(y - x)
  <2> HIDE DEF Ok
  <2>1. y - x \notin T /\ y - x <= y - x
    BY <1>1, <1>2
  <2>2. QED
    BY <1>1, <2>1
<1>4. x + (y - x) = y
  BY <1>1
<1>5. QED
  BY <1>3, <1>4

\* At the end of the name only stars are left to match.
LEMMA StarsRest ==
    ASSUME NEW pattern, NEW name, Len(pattern) \in Nat, Len(name) \in Nat,
           NEW x \in 1..(Len(pattern) + 1)
    PROVE  Rest(pattern, name, x, Len(name) + 1) <=> \A i \in x..Len(pattern) : pattern[i] = "*"
<1> DEFINE P == Len(pattern)
           E == Len(name) + 1
           Stars(z) == \A i \in z..P : pattern[i] = "*"
           Ok(z) == Rest(pattern, name, z, E) <=> Stars(z)
           T == {d \in Nat : d <= P /\ ~Ok(P + 1 - d)}
<1>1. x \in Nat /\ E \in Cuts(name) /\ E \in Nat
  BY DEF Cuts
<1>2. T = {}
  <2>1. SUFFICES ASSUME T # {}
                 PROVE  FALSE
    OBVIOUS
  <2>2. T \in SUBSET Nat
    OBVIOUS
  <2>3. PICK d \in T : \A e \in T : d <= e
    BY <2>1, <2>2, Least
  <2>4. d \in Nat /\ d <= P /\ ~Ok(P + 1 - d)
    BY <2>3
  <2>5. CASE d = 0
    <3>1. P + 1 - d = P + 1 /\ P + 1 \in 1..(P + 1) /\ (P + 1)..P = {}
      BY <2>5
    <3>2. Rest(pattern, name, P + 1, E)
      BY <1>1, <3>1, RestCases
    <3>3. Ok(P + 1)
      BY <3>1, <3>2
    <3>4. QED
      BY <2>4, <3>1, <3>3
  <2>6. CASE d # 0
    <3> DEFINE z == P + 1 - d
    <3>1. /\ d - 1 \in Nat /\ d - 1 <= P /\ ~(d <= d - 1) /\ P + 1 - (d - 1) = z + 1
          /\ z \in 1..(P + 1) /\ z <= P /\ z \in Nat
      BY <2>4, <2>6
    <3>2. Ok(z + 1)
      <4> HIDE DEF Ok, z
      <4>1. d - 1 \notin T
        BY <2>3, <3>1
      <4>2. Ok(P + 1 - (d - 1))
        BY <3>1, <4>1
      <4>3. QED
        BY <3>1, <4>2
    <3> HIDE DEF z
    <3>3. Stars(z) <=> pattern[z] = "*" /\ Stars(z + 1)
      <4>1. \A i \in z..P : i = z \/ i \in (z + 1)..P
        BY <3>1
      <4>2. z \in z..P /\ \A i \in (z + 1)..P : i \in z..P
        BY <3>1
      <4>3. QED
        BY <4>1, <4>2
    <3>4. pattern[z] = "*" => (Rest(pattern, name, z, E) <=> Rest(pattern, name, z + 1, E))
      <4> HAVE pattern[z] = "*"
      <4>1. Rest(pattern, name, z, E) <=>
               \E w \in Cuts(name) : E <= w /\ Rest(pattern, name, z + 1, w)
        BY <1>1, <3>1, RestCases
      <4>2. \A w \in Cuts(name) : E <= w <=> w = E
        BY <1>1 DEF Cuts
      <4>3. QED
        BY <1>1, <4>1, <4>2
    <3>5. pattern[z] # "*" => ~Rest(pattern, name, z, E)
      <4>1. ~(E <= Len(name))
        OBVIOUS
      <4>2. QED
        BY <1>1, <3>1, <4>1, RestCases
    <3>6. Ok(z)
      BY <3>2, <3>3, <3>4, <3>5
    <3>7. QED
      BY <2>4, <3>6 DEF z
  <2>7. QED
    BY <2>5, <2>6
<1>3. P + 1 - x \in Nat /\ P + 1 - x <= P /\ P + 1 - (P + 1 - x) = x
  BY <1>1
<1>4. Ok(x)
  BY <1>2, <1>3
<1>5. QED
  BY <1>4

\* Between two steps of the loop: since the last star every element took one
\* character, and
SinceStar(pattern, p, n, sp, sn) ==
    sp # 0 => /\ sp < p
              /\ n - sn = p - (sp + 1)
              /\ \A q \in (sp + 1)..(p - 1) : pattern[q] # "*"
LoopInv(pattern, s) == SinceStar(pattern, s.p, s.n, s.sp, s.sn)

\* the pattern matches if it does from here, or from a later retry of that
\* star; the stars before it need not be retried.
Hope(pattern, name, s) ==
    \/ Rest(pattern, name, s.p, s.n)
    \/ s.sp # 0 /\ \E k \in Cuts(name) : s.sn < k /\ Rest(pattern, name, s.sp + 1, k)

LEMMA SinceStarKept ==
    ASSUME NEW pattern, NEW p \in Nat, NEW n \in Nat, NEW sp \in Nat, NEW sn \in Nat
    PROVE  /\ SinceStar(pattern, p, n, sp, sn) /\ pattern[p] # "*" =>
                 SinceStar(pattern, p + 1, n + 1, sp, sn)
           /\ SinceStar(pattern, p + 1, n, p, n)
<1>1. \A q \in (sp + 1)..(p + 1 - 1) : q = p \/ q \in (sp + 1)..(p - 1)
  OBVIOUS
<1>2. SinceStar(pattern, p, n, sp, sn) /\ pattern[p] # "*" =>
         SinceStar(pattern, p + 1, n + 1, sp, sn)
  <2> SUFFICES ASSUME SinceStar(pattern, p, n, sp, sn), pattern[p] # "*", sp # 0
               PROVE  /\ sp < p + 1
                      /\ n + 1 - sn = p + 1 - (sp + 1)
                      /\ \A q \in (sp + 1)..(p + 1 - 1) : pattern[q] # "*"
    BY DEF SinceStar
  <2>1. /\ sp < p /\ n - sn = p - (sp + 1)
        /\ \A q \in (sp + 1)..(p - 1) : pattern[q] # "*"
    BY DEF SinceStar
  <2>2. sp < p + 1 /\ n + 1 - sn = p + 1 - (sp + 1)
    BY <2>1
  <2>3. QED
    BY <1>1, <2>1, <2>2
<1>3. SinceStar(pattern, p + 1, n, p, n)
  <2>1. p < p + 1 /\ n - n = p + 1 - (p + 1) /\ (p + 1)..(p + 1 - 1) = {}
    OBVIOUS
  <2>2. QED
    BY <2>1 DEF SinceStar
<1>4. QED
  BY <1>2, <1>3

LEMMA LoopTypes ==
    ASSUME NEW P \in Nat, NEW N \in Nat, NEW s \in GlobLoop(P, N)
    PROVE  /\ s.p \in Nat /\ s.p >= 1 /\ s.p <= P + 1 /\ s.n \in Nat /\ s.n >= 1 /\ s.n <= N + 1
           /\ s.sp \in Nat /\ s.sp <= P /\ s.sn \in Nat /\ s.sn <= s.n
  BY DEF GlobLoop

\* A later retry arrives later at the present element.
LEMMA RetryArrives ==
    ASSUME NEW pattern, NEW name, Len(pattern) \in Nat, Len(name) \in Nat,
           NEW s \in GlobLoop(Len(pattern), Len(name)), LoopInv(pattern, s), s.sp # 0,
           NEW k \in Cuts(name), s.sn < k, Rest(pattern, name, s.sp + 1, k)
    PROVE  \E w \in Cuts(name) : s.n < w /\ Rest(pattern, name, s.p, w)
<1> DEFINE P == Len(pattern)
           w == k + (s.p - (s.sp + 1))
<1>1. /\ s.p \in Nat /\ s.p <= P + 1 /\ s.n \in Nat /\ s.sp \in Nat /\ s.sn \in Nat /\ k \in Nat
      /\ s.p >= 1 /\ s.sp < s.p /\ s.n - s.sn = s.p - (s.sp + 1)
  BY LoopTypes DEF LoopInv, SinceStar, Cuts
<1>2. /\ s.sp + 1 \in 1..(P + 1) /\ s.p \in 1..(P + 1) /\ s.sp + 1 <= s.p
  BY <1>1
<1>3. \A q \in (s.sp + 1)..(s.p - 1) : pattern[q] # "*"
  BY DEF LoopInv, SinceStar
<1>4. w \in Cuts(name) /\ Rest(pattern, name, s.p, w)
  BY <1>2, <1>3, Slide
<1>5. s.n < w
  BY <1>1
<1>6. QED
  BY <1>4, <1>5

LEMMA HopeOver ==
    ASSUME NEW pattern, NEW name, Len(pattern) \in Nat, Len(name) \in Nat,
           NEW s \in GlobLoop(Len(pattern), Len(name)), LoopInv(pattern, s), s.n > Len(name)
    PROVE  Hope(pattern, name, s) <=> OnlyStars(pattern, s)
<1>1. s.n = Len(name) + 1 /\ s.p \in 1..(Len(pattern) + 1)
  BY LoopTypes
<1>2. Rest(pattern, name, s.p, s.n) <=> OnlyStars(pattern, s)
  BY <1>1, StarsRest DEF OnlyStars
<1>3. ~(s.sp # 0 /\ \E k \in Cuts(name) : s.sn < k /\ Rest(pattern, name, s.sp + 1, k))
  <2>1. \A w \in Cuts(name) : ~(s.n < w)
    BY <1>1 DEF Cuts
  <2>2. QED
    BY <2>1, RetryArrives
<1>4. QED
  BY <1>2, <1>3 DEF Hope

\* Neither the element nor a star fits.
LEMMA NoRest ==
    ASSUME NEW pattern, NEW name, Len(pattern) \in Nat, Len(name) \in Nat,
           NEW s \in GlobLoop(Len(pattern), Len(name)), s.n <= Len(name),
           ~Eats(pattern, name, s), ~AtStar(pattern, s)
    PROVE  ~Rest(pattern, name, s.p, s.n)
<1>1. /\ s.p \in 1..(Len(pattern) + 1) /\ s.n \in Cuts(name) /\ s.n # Len(name) + 1
      /\ s.p = Len(pattern) + 1 \/ s.p <= Len(pattern)
  <2>1. /\ s.p \in Nat /\ s.p >= 1 /\ s.p <= Len(pattern) + 1
        /\ s.n \in Nat /\ s.n >= 1
    BY LoopTypes
  <2>2. s.p \in 1..(Len(pattern) + 1) /\ (s.p = Len(pattern) + 1 \/ s.p <= Len(pattern))
    BY <2>1
  <2>3. s.n \in Cuts(name) /\ s.n # Len(name) + 1
    BY <2>1 DEF Cuts
  <2>4. QED
    BY <2>2, <2>3
<1>2. CASE s.p = Len(pattern) + 1
  BY <1>1, <1>2, RestCases
<1>3. CASE s.p <= Len(pattern)
  <2>1. pattern[s.p] # "*" /\ pattern[s.p] \notin {"?", name[s.n]}
    BY <1>3 DEF Eats, AtStar
  <2>2. QED
    BY <1>1, <1>3, <2>1, RestCases
<1>4. QED
  BY <1>1, <1>2, <1>3

LEMMA HopeKept ==
    ASSUME NEW pattern, NEW name, Len(pattern) \in Nat, Len(name) \in Nat,
           \A i \in 1..Len(name) : name[i] # "*",
           NEW s \in GlobLoop(Len(pattern), Len(name)), LoopInv(pattern, s),
           ~Over(pattern, name, s)
    PROVE  /\ LoopInv(pattern, After(pattern, name, s))
           /\ Hope(pattern, name, After(pattern, name, s)) <=> Hope(pattern, name, s)
<1> DEFINE P == Len(pattern)
           N == Len(name)
           t == After(pattern, name, s)
<1>1. /\ s.p \in Nat /\ s.p >= 1 /\ s.p <= P + 1 /\ s.n \in Nat /\ s.n >= 1 /\ s.n <= N
      /\ s.sp \in Nat /\ s.sp <= P /\ s.sn \in Nat /\ s.sn <= s.n
  BY LoopTypes DEF Over
<1>2. s.p \in 1..(P + 1) /\ s.n \in Cuts(name) /\ s.n \in 1..N /\ s.n + 1 \in Cuts(name)
  BY <1>1 DEF Cuts
<1>3. CASE Eats(pattern, name, s)
  <2>1. s.p <= P /\ pattern[s.p] \in {"?", name[s.n]} /\ pattern[s.p] # "*"
    BY <1>2, <1>3 DEF Eats
  <2>2. t = [s EXCEPT !.p = @ + 1, !.n = @ + 1]
    BY <1>3 DEF After, Eaten
  <2>3. t.p = s.p + 1 /\ t.n = s.n + 1 /\ t.sp = s.sp /\ t.sn = s.sn
    BY <2>2 DEF GlobLoop
  <2> HIDE DEF t
  <2>4. LoopInv(pattern, t)
    BY <1>1, <2>1, <2>3, SinceStarKept DEF LoopInv
  <2>5. Rest(pattern, name, s.p, s.n) <=> Rest(pattern, name, s.p + 1, s.n + 1)
    BY <1>1, <1>2, <2>1, RestCases
  <2>6. QED
    BY <2>3, <2>4, <2>5 DEF Hope, t
<1>4. CASE ~Eats(pattern, name, s) /\ AtStar(pattern, s)
  <2>1. /\ s.p <= P /\ pattern[s.p] = "*"
        /\ t = [p |-> s.p + 1, n |-> s.n, sp |-> s.p, sn |-> s.n]
    BY <1>4 DEF AtStar, After, Starred
  <2>2. t.p = s.p + 1 /\ t.n = s.n /\ t.sp = s.p /\ t.sn = s.n
    BY <2>1
  <2> HIDE DEF t
  <2>3. LoopInv(pattern, t)
    BY <1>1, <2>2, SinceStarKept DEF LoopInv
  <2>4. Rest(pattern, name, s.p, s.n) <=>
           \E w \in Cuts(name) : s.n <= w /\ Rest(pattern, name, s.p + 1, w)
    BY <1>2, <2>1, RestCases
  <2>5. Hope(pattern, name, t) <=>
           \/ Rest(pattern, name, s.p + 1, s.n)
           \/ \E k \in Cuts(name) : s.n < k /\ Rest(pattern, name, s.p + 1, k)
    BY <1>1, <2>2 DEF Hope
  <2>6. \A w \in Cuts(name) : s.n <= w <=> (w = s.n \/ s.n < w)
    BY <1>1 DEF Cuts
  <2>7. Hope(pattern, name, t) <=> Rest(pattern, name, s.p, s.n)
    BY <1>2, <2>4, <2>5, <2>6
  <2>8. ASSUME s.sp # 0, NEW k \in Cuts(name), s.sn < k, Rest(pattern, name, s.sp + 1, k)
        PROVE  Rest(pattern, name, s.p, s.n)
    <3>1. PICK w \in Cuts(name) : s.n < w /\ Rest(pattern, name, s.p, w)
      BY <2>8, RetryArrives
    <3>2. PICK e \in Cuts(name) : w <= e /\ Rest(pattern, name, s.p + 1, e)
      BY <1>2, <2>1, <3>1, RestCases
    <3>3. s.n <= e
      BY <1>1, <3>1, <3>2 DEF Cuts
    <3>4. QED
      BY <2>4, <3>2, <3>3
  <2>9. Hope(pattern, name, s) <=> Rest(pattern, name, s.p, s.n)
    BY <2>8 DEF Hope
  <2>10. QED
    BY <2>3, <2>7, <2>9 DEF t
<1>5. CASE ~Eats(pattern, name, s) /\ ~AtStar(pattern, s)
  <2>1. s.sp # 0 /\ t = [p |-> s.sp + 1, n |-> s.sn + 1, sp |-> s.sp, sn |-> s.sn + 1]
    BY <1>5 DEF Over, After, Retried
  <2>2. t.p = s.sp + 1 /\ t.n = s.sn + 1 /\ t.sp = s.sp /\ t.sn = s.sn + 1
    BY <2>1
  <2> HIDE DEF t
  <2>3. LoopInv(pattern, t)
    <3>1. s.sn + 1 \in Nat
      BY <1>1
    <3>2. QED
      BY <1>1, <2>2, <3>1, SinceStarKept DEF LoopInv
  <2>4. ~Rest(pattern, name, s.p, s.n)
    BY <1>1, <1>5, NoRest
  <2>5. \A k \in Cuts(name) : s.sn < k <=> (k = s.sn + 1 \/ s.sn + 1 < k)
    BY <1>1 DEF Cuts
  <2>6. s.sn + 1 \in Cuts(name)
    BY <1>1 DEF Cuts
  <2>7. QED
    BY <2>1, <2>2, <2>3, <2>4, <2>5, <2>6 DEF Hope, t
<1>6. QED
  BY <1>3, <1>4, <1>5

\* glob_match decides whether there is an alignment: retrying only the star
\* seen last loses none.
LEMMA GlobMatchMeaning ==
    ASSUME NEW pattern, NEW name, Len(pattern) \in Nat, Len(name) \in Nat,
           \A i \in 1..Len(name) : name[i] # "*"
    PROVE  GlobMatch(pattern, name) <=>
              Aligned(pattern, name, 1, 1, Len(pattern) + 1, Len(name) + 1)
<1> DEFINE P == Len(pattern)
           N == Len(name)
           D == GlobLoop(P, N)
           start == [p |-> 1, n |-> 1, sp |-> 0, sn |-> 0]
           f == CHOOSE g : g = [s \in D |-> LoopBody(pattern, name, g, s)]
<1>1. GlobMatch(pattern, name) = f[start]
  BY DEF GlobMatch, LoopBody
<1>2. f = [s \in D |-> LoopBody(pattern, name, f, s)]
  <2>1. \E g : g = [s \in D |-> LoopBody(pattern, name, g, s)]
    BY LoopExists
  <2>2. QED
    BY <2>1, Zenon
<1> HIDE DEF f
<1>3. ASSUME NEW s \in D
      PROVE  /\ s.n > N => (f[s] <=> OnlyStars(pattern, s))
             /\ ~(s.n > N) /\ Over(pattern, name, s) => ~f[s]
             /\ ~Over(pattern, name, s) => f[s] = f[After(pattern, name, s)]
  <2>1. f[s] = LoopBody(pattern, name, f, s)
    BY <1>2
  <2>2. s.n > N => (f[s] <=> OnlyStars(pattern, s))
    BY <2>1 DEF LoopBody, OnlyStars
  <2>3. ~(s.n > N) /\ Over(pattern, name, s) => ~f[s]
    BY <2>1 DEF LoopBody, Over, Eats, AtStar
  <2>4. ~Over(pattern, name, s) => f[s] = f[After(pattern, name, s)]
    BY <2>1 DEF LoopBody, Over, Eats, AtStar, After, Eaten, Starred, Retried
  <2>5. QED
    BY <2>2, <2>3, <2>4
<1> DEFINE Bad(s) == LoopInv(pattern, s) /\ ~(f[s] <=> Hope(pattern, name, s))
           T == {d \in Nat : \E s \in D : Remaining(P, N, s) = d /\ Bad(s)}
<1>4. T = {}
  <2>1. SUFFICES ASSUME T # {}
                 PROVE  FALSE
    OBVIOUS
  <2>2. T \in SUBSET Nat
    OBVIOUS
  <2>3. PICK d \in T : \A e \in T : d <= e
    BY <2>1, <2>2, Least
  <2>4. PICK s \in D : Remaining(P, N, s) = d /\ Bad(s)
    BY <2>3
  <2>5. CASE s.n > N
    BY <1>3, <2>4, <2>5, HopeOver
  <2>6. CASE ~(s.n > N) /\ Over(pattern, name, s)
    <3>1. /\ s.sp = 0 /\ ~Eats(pattern, name, s) /\ ~AtStar(pattern, s) /\ s.n <= N
      BY <2>6, LoopTypes DEF Over
    <3>2. ~Hope(pattern, name, s)
      BY <3>1, NoRest DEF Hope
    <3>3. QED
      BY <1>3, <2>4, <2>6, <3>2
  <2>7. CASE ~Over(pattern, name, s)
    <3> DEFINE t == After(pattern, name, s)
    <3>1. t \in D /\ Remaining(P, N, t) < d
      BY <2>4, <2>7, LoopAdvances
    <3>2. LoopInv(pattern, t) /\ (Hope(pattern, name, t) <=> Hope(pattern, name, s))
      BY <2>4, <2>7, HopeKept
    <3>3. f[s] = f[t]
      BY <1>3, <2>7
    <3>4. Bad(t)
      BY <2>4, <3>2, <3>3
    <3> HIDE DEF t, Bad
    <3>5. Remaining(P, N, t) \in Nat /\ d \in Nat /\ ~(d <= Remaining(P, N, t))
      BY <2>2, <3>1, RemainingNat
    <3>6. Remaining(P, N, t) \in T
      BY <3>1, <3>4, <3>5
    <3>7. QED
      BY <2>3, <3>5, <3>6
  <2>8. QED
    BY <2>5, <2>6, <2>7
<1>5. start \in D /\ LoopInv(pattern, start)
  BY DEF GlobLoop, LoopInv, SinceStar
<1>6. f[start] <=> Hope(pattern, name, start)
  <2> HIDE DEF start
  <2>1. Remaining(P, N, start) \in Nat
    BY <1>5, RemainingNat
  <2>2. ~Bad(start)
    BY <1>4, <1>5, <2>1
  <2>3. QED
    BY <1>5, <2>2
<1>7. Hope(pattern, name, start) <=> Rest(pattern, name, 1, 1)
  BY DEF Hope
<1>8. QED
  BY <1>1, <1>6, <1>7 DEF Rest

\* For every pattern and every name without "*" in it, glob_match and
\* glob_ref, the reference of the fuzz target, give the same answer: both say
\* whether there is an alignment (glob_match, glob_ref).
THEOREM GlobExact ==
    ASSUME NEW pattern, NEW name, Len(pattern) \in Nat, Len(name) \in Nat,
           \A i \in 1..Len(name) : name[i] # "*"
    PROVE  GlobMatch(pattern, name) <=> GlobRef(pattern, name)
  BY GlobMatchMeaning, GlobRefMeaning

LEMMA FunctionIsSeq ==
    ASSUME NEW S, NEW n \in Nat, NEW t \in [1..n -> S]
    PROVE  t \in Seq(S)
<1>1. t \in UNION {[1..k -> S] : k \in Nat}
  OBVIOUS
<1>2. QED
  BY <1>1, SeqDef

LEMMA LowerCaseSeq ==
    ASSUME NEW S, NEW s \in Seq(S), "a" \in S, "b" \in S
    PROVE  ToAsciiLowercase(s) \in Seq(S)
<1> DEFINE low(c) == IF c \in DOMAIN LowerCase THEN LowerCase[c] ELSE c
           t == [i \in 1..Len(s) |-> low(s[i])]
<1>1. Len(s) \in Nat /\ DOMAIN s = 1..Len(s) /\ \A i \in 1..Len(s) : s[i] \in S
  OBVIOUS
<1>2. DOMAIN LowerCase = {"A", "B"} /\ LowerCase["A"] = "a" /\ LowerCase["B"] = "b"
  BY DEF LowerCase
<1>3. \A c \in S : low(c) \in S
  BY <1>2
<1>4. ToAsciiLowercase(s) = t
  BY <1>1 DEF ToAsciiLowercase
<1> HIDE DEF low
<1>5. t \in [1..Len(s) -> S]
  BY <1>1, <1>3
<1> HIDE DEF t
<1>6. QED
  BY <1>1, <1>4, <1>5, FunctionIsSeq

LEMMA BracketSeq ==
    ASSUME NEW S, NEW s \in Seq(S), NEW a \in S, NEW b \in S, NEW c \in S, NEW d \in S
    PROVE  <<a>> \o s \o <<b, c, d>> \in Seq(S)
<1>1. <<a>> \in Seq(S) /\ <<b, c, d>> \in Seq(S)
  OBVIOUS
<1>2. <<a>> \o s \in Seq(S)
  BY <1>1, ConcatProperties
<1>3. QED
  BY <1>1, <1>2, ConcatProperties

\* What the name of an accepted host is made of: no "*".
NameCharacters == (STRING \cup {"a", "b", "[", "]", ":"}) \ {"*"}

LEMMA NameHasNoStar ==
    ASSUME NEW host \in Seq(STRING), NEW port \in STRING \ {"*"}, LookupNameOk(host, port)
    PROVE  NameOf(host, port) \in Seq(NameCharacters)
<1>1. /\ "a" \in NameCharacters /\ "b" \in NameCharacters /\ "[" \in NameCharacters
      /\ "]" \in NameCharacters /\ ":" \in NameCharacters
  BY Zenon DEF NameCharacters
<1>2. port \in NameCharacters
  BY Zenon DEF NameCharacters
<1>3. host \in Seq(NameCharacters)
  <2>1. Len(host) \in Nat /\ DOMAIN host = 1..Len(host) /\ host \in [1..Len(host) -> STRING]
    BY LenProperties
  <2>2. \A i \in DOMAIN host : host[i] # "*"
    BY Zenon DEF LookupNameOk, InvalidCharacters
  <2>3. \A c \in STRING : c # "*" => c \in NameCharacters
    BY Zenon DEF NameCharacters
  <2>4. host \in [1..Len(host) -> NameCharacters]
    BY <2>1, <2>2, <2>3
  <2>5. QED
    BY <2>1, <2>4, FunctionIsSeq
<1>4. ToAsciiLowercase(host) \in Seq(NameCharacters)
  BY <1>1, <1>3, LowerCaseSeq, Zenon
<1>5. CASE port = DefaultPort
  BY <1>4, <1>5, Zenon DEF NameOf
<1>6. CASE port # DefaultPort
  <2>1. <<"[">> \o ToAsciiLowercase(host) \o <<"]", ":", port>> \in Seq(NameCharacters)
    BY <1>1, <1>2, <1>4, BracketSeq, Zenon
  <2>2. QED
    BY <1>6, <2>1, Zenon DEF NameOf
<1>7. QED
  BY <1>5, <1>6

\* glob_match and glob_ref agree on the patterns and names there are.
LEMMA GlobAgrees ==
    ASSUME NEW lines \in Files, NEW host \in Hosts, NEW port \in Ports,
           LookupNameOk(host, port), NEW i \in DOMAIN lines,
           NEW j \in DOMAIN lines[i].hosts.list
    PROVE  GlobMatch(ToAsciiLowercase(lines[i].hosts.list[j].text), NameOf(host, port)) <=>
           GlobRef(ToAsciiLowercase(lines[i].hosts.list[j].text), NameOf(host, port))
<1> DEFINE text == lines[i].hosts.list[j].text
           name == NameOf(host, port)
<1>1. text \in Seq(STRING) /\ host \in Seq(STRING) /\ port \in STRING \ {"*"}
  BY ClientConfig
<1>2. Len(ToAsciiLowercase(text)) \in Nat
  <2> DEFINE S == STRING \cup {"a", "b"}
  <2>1. text \in Seq(S)
    BY <1>1, SeqMonotonic
  <2>2. "a" \in S /\ "b" \in S
    OBVIOUS
  <2> HIDE DEF S, text
  <2>3. ToAsciiLowercase(text) \in Seq(S)
    BY <2>1, <2>2, LowerCaseSeq
  <2>4. QED
    BY <2>3, LenProperties
<1>3. Len(name) \in Nat /\ \A k \in 1..Len(name) : name[k] # "*"
  <2>1. name \in Seq(NameCharacters)
    BY <1>1, NameHasNoStar
  <2>2. Len(name) \in Nat /\ \A k \in 1..Len(name) : name[k] \in NameCharacters
    BY <2>1, LenProperties, ElementOfSeq
  <2>3. \A c \in NameCharacters : c # "*"
    BY Zenon DEF NameCharacters
  <2>4. QED
    BY <2>2, <2>3
<1> HIDE DEF text, name
<1>4. GlobMatch(ToAsciiLowercase(text), name) <=> GlobRef(ToAsciiLowercase(text), name)
  BY <1>2, <1>3, GlobExact
<1>5. QED
  BY <1>4 DEF text, name

----------------------------------------------------------------------------
(* The known_hosts policy and the reference reading of the file.           *)

EntryOf(lines, i) == [line |-> i, marker |-> lines[i].marker, hosts |-> lines[i].hosts,
                      key |-> lines[i].key]
RuleOf(lines, i) == [line |-> i, marker |-> lines[i].marker, key |-> lines[i].key]
About(lines, name) == {i \in DOMAIN lines : Applies(lines[i], name)}

LEMMA AppliesAgree ==
    ASSUME NEW lines \in Files, NEW host \in Hosts, NEW port \in Ports,
           LookupNameOk(host, port), NEW i \in DOMAIN lines, IsEntry(lines[i])
    PROVE  AppliesTo(EntryOf(lines, i), NameOf(host, port)) <=> Applies(lines[i], NameOf(host, port))
<1> DEFINE name == NameOf(host, port)
           list == lines[i].hosts.list
           match(j) == GlobMatch(ToAsciiLowercase(list[j].text), name)
           ref(j) == GlobRef(ToAsciiLowercase(list[j].text), name)
           matching == {j \in DOMAIN list : match(j)}
<1>1. EntryOf(lines, i).hosts = lines[i].hosts
  BY DEF EntryOf
<1>2. AppliesTo(EntryOf(lines, i), name) <=>
         IF lines[i].hosts.hashed THEN lines[i].hosts.name = name
         ELSE matching # {} /\ \A j \in matching : ~list[j].negated
  BY <1>1 DEF AppliesTo
<1>3. Applies(lines[i], name) <=>
         IF lines[i].hosts.hashed THEN lines[i].hosts.name = name
         ELSE /\ \E j \in DOMAIN list : list[j].negated = FALSE /\ ref(j)
              /\ ~\E j \in DOMAIN list : list[j].negated = TRUE /\ ref(j)
  BY DEF Applies
<1>4. \A j \in DOMAIN list : match(j) <=> ref(j)
  BY GlobAgrees
<1>5. \A j \in DOMAIN list : list[j].negated \in BOOLEAN
  BY ClientConfig
<1> HIDE DEF name, list, match, ref
<1>6. (matching # {} /\ \A j \in matching : ~list[j].negated) <=>
         /\ \E j \in DOMAIN list : list[j].negated = FALSE /\ ref(j)
         /\ ~\E j \in DOMAIN list : list[j].negated = TRUE /\ ref(j)
  BY <1>4, <1>5
<1>7. QED
  BY <1>2, <1>3, <1>6 DEF name

LEMMA PolicyRules ==
    ASSUME NEW lines \in Files, NEW host \in Hosts, NEW port \in Ports,
           LookupNameOk(host, port)
    PROVE  PolicyForName(Entries(lines), NameOf(host, port))
              = {RuleOf(lines, i) : i \in About(lines, NameOf(host, port))}
<1> DEFINE name == NameOf(host, port)
<1>1. Len(name) <= MaxLookupNameBytes
  BY DEF LookupNameOk
<1>2. Entries(lines) = {EntryOf(lines, i) : i \in {j \in DOMAIN lines : IsEntry(lines[j])}}
  BY DEF Entries, EntryOf
<1>3. PolicyForName(Entries(lines), name)
         = {[line |-> e.line, marker |-> e.marker, key |-> e.key] :
               e \in {f \in Entries(lines) : AppliesTo(f, name)}}
  BY <1>1 DEF PolicyForName
<1>4. \A i : /\ EntryOf(lines, i).line = i /\ EntryOf(lines, i).marker = lines[i].marker
             /\ EntryOf(lines, i).key = lines[i].key
  BY DEF EntryOf
<1>5. \A i \in DOMAIN lines : Applies(lines[i], name) => IsEntry(lines[i])
  BY DEF Applies
<1>6. \A i \in DOMAIN lines : IsEntry(lines[i]) =>
         (AppliesTo(EntryOf(lines, i), name) <=> Applies(lines[i], name))
  BY AppliesAgree
<1> HIDE DEF name
<1>7. {f \in Entries(lines) : AppliesTo(f, name)}
         = {EntryOf(lines, i) : i \in About(lines, name)}
  BY <1>2, <1>5, <1>6 DEF About
<1>8. QED
  BY <1>3, <1>4, <1>7 DEF RuleOf, name

LEMMA RulesOf ==
    ASSUME NEW lines \in Files, NEW A \in SUBSET DOMAIN lines, NEW m, NEW K
    PROVE  LET rules == {a \in {RuleOf(lines, i) : i \in A} : a.marker = m /\ a.key \in K}
               about == {i \in A : lines[i].marker = m /\ lines[i].key \in K}
           IN {a.line : a \in rules} = about /\ (rules = {} <=> about = {})
<1>1. \A i : /\ RuleOf(lines, i).line = i /\ RuleOf(lines, i).marker = lines[i].marker
             /\ RuleOf(lines, i).key = lines[i].key
  BY DEF RuleOf
<1>2. QED
  BY <1>1

LEMMA DecideExact ==
    ASSUME NEW lines \in Files, NEW host \in Hosts, NEW port \in Ports,
           LookupNameOk(host, port), NEW key \in Keys
    PROVE  Decide(PolicyForName(Entries(lines), NameOf(host, port)), key)
              = Expected(lines, NameOf(host, port))[key]
<1> DEFINE name == NameOf(host, port)
           A == About(lines, name)
           rules == {RuleOf(lines, i) : i \in A}
           sel(m, K) == {a \in rules : a.marker = m /\ a.key \in K}
           about(m, K) == {i \in A : lines[i].marker = m /\ lines[i].key \in K}
           alike == {k \in Keys : KeyType[k] = KeyType[key]}
<1>1. PolicyForName(Entries(lines), name) = rules
  BY PolicyRules
<1>2. A \in SUBSET DOMAIN lines
  BY DEF About
<1>3. \A m, K : FirstLine(sel(m, K)) = Min(about(m, K)) /\ (sel(m, K) = {} <=> about(m, K) = {})
  <2> TAKE m, K
  <2>1. {a.line : a \in sel(m, K)} = about(m, K) /\ (sel(m, K) = {} <=> about(m, K) = {})
    BY <1>2, RulesOf, ZenonT(30)
  <2>2. QED
    BY <2>1, Zenon DEF FirstLine
<1>4. \A a \in rules : a.key \in Keys
  BY <1>2, ClientConfig DEF RuleOf
<1>5. Expected(lines, name)[key]
        = IF about("revoked", {key}) # {} THEN Untrusted("revoked", Min(about("revoked", {key})))
          ELSE IF about("none", {key}) # {} THEN Trusted("known_hosts", Min(about("none", {key})))
          ELSE IF about("none", alike) # {} THEN Untrusted("key_changed", Min(about("none", alike)))
          ELSE IF about("none", Keys) # {} THEN Untrusted("no_key_for_algorithm", NoLine)
          ELSE IF about("cert_authority", Keys) # {}
          THEN Untrusted("certificate_authority_only", NoLine)
          ELSE Untrusted("unknown_host", NoLine)
  BY DEF Expected, About
<1> HIDE DEF rules, A, name
<1>6. /\ \A m : {a \in {b \in rules : b.marker = m} : a.key = key} = sel(m, {key})
      /\ \A m : {a \in rules : a.marker = m} = sel(m, Keys)
      /\ {a \in {b \in rules : b.marker = "none"} : KeyType[a.key] = KeyType[key]}
            = sel("none", alike)
  BY <1>4
<1>7. Decide(rules, key)
        = IF sel("revoked", {key}) # {} THEN Untrusted("revoked", FirstLine(sel("revoked", {key})))
          ELSE IF sel("none", {key}) # {} THEN Trusted("known_hosts", FirstLine(sel("none", {key})))
          ELSE IF sel("none", alike) # {} THEN Untrusted("key_changed", FirstLine(sel("none", alike)))
          ELSE IF sel("none", Keys) # {} THEN Untrusted("no_key_for_algorithm", NoLine)
          ELSE IF sel("cert_authority", Keys) # {}
          THEN Untrusted("certificate_authority_only", NoLine)
          ELSE Untrusted("unknown_host", NoLine)
  <2> HIDE DEF sel, alike
  <2>1. QED
    BY <1>6 DEF Decide
<1> HIDE DEF sel, about, alike
<1>8. QED
  BY <1>1, <1>3, <1>5, <1>7 DEF name

PolicyInv == PolicyExact /\ (pc \in {"Start", "Prepare"} => trust.mode = "none")

LEMMA NextPolicy ==
    ASSUME PolicyInv, [Next]_vars
    PROVE  PolicyInv'
<1>1. CASE PreparePin
  <2>1. trust'.mode # "known_hosts" /\ pc' = "Connect"
    BY <1>1 DEF PreparePin
  <2>2. QED
    BY <2>1 DEF PolicyInv, PolicyExact
<1>2. CASE PrepareFile
  <2>1. PICK lines \in Files, host \in Hosts, port \in Ports :
          /\ vouched' = Expected(lines, NameOf(host, port))
          /\ \/ pc' = "Emit" /\ trust' = trust
             \/ /\ LookupNameOk(host, port)
                /\ trust' = [mode |-> "known_hosts",
                             applicable |-> PolicyForName(Entries(lines), NameOf(host, port))]
                /\ pc' = "Connect"
    BY <1>2 DEF PrepareFile, Report
  <2>2. CASE pc' = "Emit" /\ trust' = trust
    <3>1. trust'.mode = "none"
      BY <1>2, <2>2 DEF PrepareFile, PolicyInv
    <3>2. QED
      BY <2>2, <3>1 DEF PolicyInv, PolicyExact
  <2>3. CASE /\ LookupNameOk(host, port) /\ pc' = "Connect"
             /\ trust' = [mode |-> "known_hosts",
                          applicable |-> PolicyForName(Entries(lines), NameOf(host, port))]
    <3>1. trust'.applicable = PolicyForName(Entries(lines), NameOf(host, port))
      BY <2>3
    <3>2. \A k \in Keys : Decide(trust'.applicable, k) = vouched'[k]
      BY <2>1, <2>3, <3>1, DecideExact
    <3>3. PolicyExact'
      BY <3>2 DEF PolicyExact, Decide
    <3>4. QED
      BY <2>3, <3>3 DEF PolicyInv
  <2>4. QED
    BY <2>1, <2>2, <2>3
<1>3. CASE UNCHANGED <<trust, vouched>> /\ (pc' \in {"Start", "Prepare"} => pc \in {"Start", "Prepare"})
  BY <1>3 DEF PolicyInv, PolicyExact
<1>4. CASE Main \/ FileUnreadable \/ ConnectFails \/ QuicRun \/ QuicStep \/ QuicReport
           \/ TcpHandshake \/ ProbeRun \/ Emit \/ Clock \/ UNCHANGED vars
  <2>1. UNCHANGED <<trust, vouched>>
    BY <1>4 DEF Main, FileUnreadable, ConnectFails, QuicRun, QuicStep, QuicReport, TcpHandshake,
                ProbeRun, Emit, Clock, RunStep, SendAll, Receive, HandleTimeouts, DeadlinePasses,
                LingerPasses, clientVars, mainVars, vars
  <2>2. pc' \in {"Start", "Prepare"} => pc \in {"Start", "Prepare"}
    BY <1>4 DEF Main, FileUnreadable, ConnectFails, QuicRun, QuicStep, QuicReport, TcpHandshake,
                ProbeRun, Emit, Clock, Report, Exit, mainVars, vars
  <2>3. QED
    BY <1>3, <2>1, <2>2
<1>5. QED
  BY <1>1, <1>2, <1>4 DEF Next, Program, Exited

LEMMA InitPolicy == Init => PolicyInv
  BY DEF Init, ClientInit, PolicyInv, PolicyExact

\* For every known_hosts file, host and port the policy decides every key as
\* the reference reads the file, with the reason and the line
\* (KnownHosts::parse, policy_for_name, Entry::applies_to,
\* KnownHostsPolicy::decide).
THEOREM PolicyCorrect ==
    Spec => []PolicyExact
<1>1. PolicyInv /\ [Next]_vars => PolicyInv'
  BY NextPolicy
<1>2. PolicyInv => PolicyExact
  BY DEF PolicyInv
<1>3. QED
  BY <1>1, <1>2, InitPolicy, PTL DEF Spec

----------------------------------------------------------------------------
(* The command line.                                                       *)

\* f is the run of ParseOptions over the first n arguments.
ParseStep(mode, args, f, i) ==
    IF i = 0 THEN NoOptions ELSE ParseArg(mode, f[i - 1], args[i])
IsParse(mode, args, n, f) == f = [i \in 0..n |-> ParseStep(mode, args, f, i)]

LEMMA ParseExists ==
    ASSUME NEW mode, NEW args, NEW len \in Nat
    PROVE  \E f : IsParse(mode, args, len, f)
<1> DEFINE T == {n \in Nat : ~\E f : IsParse(mode, args, n, f)}
<1>1. SUFFICES ASSUME T # {}
               PROVE  FALSE
  OBVIOUS
<1>2. T \in SUBSET Nat
  OBVIOUS
<1>3. PICK m \in T : \A y \in T : m <= y
  BY <1>1, <1>2, Least
<1>4. CASE m = 0
  <2> DEFINE g == [i \in 0..0 |-> NoOptions]
  <2>1. g = [i \in 0..0 |-> ParseStep(mode, args, g, i)]
    BY DEF ParseStep
  <2>2. IsParse(mode, args, 0, g)
    BY <2>1 DEF IsParse
  <2>3. QED
    BY <1>4, <2>2
<1>5. CASE m # 0
  <2>1. m \in Nat /\ m - 1 \in Nat /\ m - 1 \notin T
    BY <1>2, <1>3, <1>5
  <2>2. PICK f : IsParse(mode, args, m - 1, f)
    BY <2>1
  <2> DEFINE g == [i \in 0..m |-> IF i = m THEN ParseArg(mode, f[m - 1], args[m]) ELSE f[i]]
  <2>3. \A i \in 0..m : g[i] = ParseStep(mode, args, g, i)
    <3> TAKE i \in 0..m
    <3>1. CASE i = m
      <4>1. g[i] = ParseArg(mode, f[m - 1], args[m]) /\ g[m - 1] = f[m - 1]
        BY <2>1, <3>1
      <4>2. QED
        BY <1>5, <3>1, <4>1 DEF ParseStep
    <3>2. CASE i # m
      <4>1. i \in 0..(m - 1) /\ g[i] = f[i] /\ (i # 0 => i - 1 \in 0..(m - 1))
        BY <2>1, <3>2
      <4>2. f[i] = ParseStep(mode, args, f, i)
        BY <2>2, <4>1 DEF IsParse
      <4>3. i # 0 => g[i - 1] = f[i - 1]
        BY <2>1, <4>1
      <4>4. QED
        BY <4>1, <4>2, <4>3 DEF ParseStep
    <3>3. QED
      BY <3>1, <3>2
  <2>4. g = [i \in 0..m |-> g[i]]
    OBVIOUS
  <2> HIDE DEF g
  <2>5. g = [i \in 0..m |-> ParseStep(mode, args, g, i)]
    BY <2>3, <2>4, Zenon
  <2>6. IsParse(mode, args, m, g)
    BY <2>5 DEF IsParse
  <2>7. QED
    BY <1>3, <2>6
<1>6. QED
  BY <1>4, <1>5

LEMMA ParseOptionsRuns ==
    ASSUME NEW mode, NEW args, Len(args) \in Nat
    PROVE  \E f : IsParse(mode, args, Len(args), f) /\ ParseOptions(mode, args) = f[Len(args)]
<1> DEFINE g == CHOOSE f : f = [i \in 0..Len(args) |->
                  IF i = 0 THEN NoOptions ELSE ParseArg(mode, f[i - 1], args[i])]
<1>1. \E f : f = [i \in 0..Len(args) |->
                  IF i = 0 THEN NoOptions ELSE ParseArg(mode, f[i - 1], args[i])]
  <2>1. \E f : IsParse(mode, args, Len(args), f)
    BY ParseExists, Zenon
  <2>2. QED
    BY <2>1 DEF IsParse, ParseStep
<1>2. g = [i \in 0..Len(args) |->
                  IF i = 0 THEN NoOptions ELSE ParseArg(mode, g[i - 1], args[i])]
  BY <1>1, Zenon
<1>3. ParseOptions(mode, args) = g[Len(args)]
  BY DEF ParseOptions
<1> HIDE DEF g
<1>4. IsParse(mode, args, Len(args), g)
  BY <1>2 DEF IsParse, ParseStep
<1>5. QED
  BY <1>3, <1>4

\* What the options say of the first n arguments while parsing goes on.
OnlyAt(args, n, j) ==
    \A k \in 1..n : args[k] \in TrustOptions => k = j
ParsedSo(mode, args, n, o) ==
    /\ o \in [stop : {"no", "help", "error"}, host : BOOLEAN, alpn : BOOLEAN,
              trust : {"none"} \cup TrustOptions]
    /\ o.stop = "no" =>
          /\ \A j \in 1..n : args[j] \in Takes[mode]
          /\ o.trust = "none" => \A j \in 1..n : args[j] \notin TrustOptions
          /\ o.trust # "none" => \E j \in 1..n : args[j] = o.trust /\ OnlyAt(args, n, j)

LEMMA ParseArgSo ==
    ASSUME NEW mode, NEW args, NEW n \in Nat, NEW o, ParsedSo(mode, args, n, o)
    PROVE  ParsedSo(mode, args, n + 1, ParseArg(mode, o, args[n + 1]))
<1> DEFINE arg == args[n + 1]
           r == ParseArg(mode, o, arg)
           Opts == [stop : {"no", "help", "error"}, host : BOOLEAN, alpn : BOOLEAN,
                    trust : {"none"} \cup TrustOptions]
<1>1. "none" \notin TrustOptions /\ "host" \notin TrustOptions /\ "alpn" \notin TrustOptions
  BY DEF TrustOptions, CertificateOptions
<1>2. o \in Opts
  BY DEF ParsedSo
<1>3. /\ r \in Opts
      /\ r.stop = "no" =>
            /\ o.stop = "no" /\ arg \in Takes[mode]
            /\ arg \in TrustOptions => o.trust = "none" /\ r.trust = arg
            /\ arg \notin TrustOptions => r.trust = o.trust
  BY <1>1, <1>2 DEF ParseArg, SetOnce
<1> HIDE DEF r
<1>4. CASE r.stop # "no"
  BY <1>3, <1>4 DEF ParsedSo, r
<1>5. CASE r.stop = "no"
  <2>1. o.stop = "no" /\ (\A j \in 1..n : args[j] \in Takes[mode]) /\ arg \in Takes[mode]
    BY <1>3, <1>5 DEF ParsedSo
  <2>2. \A j \in 1..(n + 1) : args[j] \in Takes[mode]
    BY <2>1
  <2>3. CASE arg \in TrustOptions
    <3>1. r.trust = arg /\ r.trust # "none" /\ \A j \in 1..n : args[j] \notin TrustOptions
      BY <1>1, <1>3, <1>5, <2>1, <2>3 DEF ParsedSo
    <3>2. n + 1 \in 1..(n + 1) /\ OnlyAt(args, n + 1, n + 1)
      BY <3>1 DEF OnlyAt
    <3>3. \E j \in 1..(n + 1) : args[j] = r.trust /\ OnlyAt(args, n + 1, j)
      BY <3>1, <3>2
    <3>4. QED
      BY <1>3, <2>2, <3>1, <3>3 DEF ParsedSo, r
  <2>4. CASE arg \notin TrustOptions
    <3>1. r.trust = o.trust
      BY <1>3, <1>5, <2>4
    <3>2. r.trust = "none" => \A j \in 1..(n + 1) : args[j] \notin TrustOptions
      BY <2>1, <2>4, <3>1 DEF ParsedSo
    <3>3. ASSUME r.trust # "none"
          PROVE  \E j \in 1..(n + 1) : args[j] = r.trust /\ OnlyAt(args, n + 1, j)
      <4>1. PICK j \in 1..n : args[j] = o.trust /\ OnlyAt(args, n, j)
        BY <2>1, <3>1, <3>3 DEF ParsedSo
      <4>2. OnlyAt(args, n + 1, j)
        BY <2>4, <4>1 DEF OnlyAt
      <4>3. j \in 1..(n + 1)
        OBVIOUS
      <4>4. QED
        BY <3>1, <4>1, <4>2, <4>3
    <3>4. QED
      BY <1>3, <2>2, <3>2, <3>3 DEF ParsedSo, r
  <2>5. QED
    BY <2>3, <2>4
<1>6. QED
  BY <1>4, <1>5

LEMMA ParseOptionsSo ==
    ASSUME NEW mode, NEW args, Len(args) \in Nat
    PROVE  ParsedSo(mode, args, Len(args), ParseOptions(mode, args))
<1> DEFINE len == Len(args)
<1>1. PICK f : IsParse(mode, args, len, f) /\ ParseOptions(mode, args) = f[len]
  BY ParseOptionsRuns
<1>2. \A i \in 0..len : f[i] = ParseStep(mode, args, f, i)
  BY <1>1 DEF IsParse
<1> DEFINE T == {n \in Nat : n <= len /\ ~ParsedSo(mode, args, n, f[n])}
<1> HIDE DEF len
<1>3. SUFFICES ASSUME T # {}
               PROVE  FALSE
  BY <1>1 DEF len
<1>4. T \in SUBSET Nat
  OBVIOUS
<1>5. PICK m \in T : \A y \in T : m <= y
  BY <1>3, <1>4, Least
<1>6. CASE m = 0
  <2>1. f[0] = NoOptions
    BY <1>2, <1>5, <1>6 DEF ParseStep, len
  <2>2. ParsedSo(mode, args, 0, NoOptions)
    BY DEF ParsedSo, NoOptions
  <2>3. QED
    BY <1>6, <2>1, <2>2
<1>7. CASE m # 0
  <2>1. m \in Nat /\ m <= len /\ m \in 0..len /\ m - 1 \in Nat /\ m - 1 <= len /\ m - 1 \notin T
    BY <1>4, <1>5, <1>7 DEF len
  <2>2. ParsedSo(mode, args, m - 1, f[m - 1])
    BY <2>1
  <2>3. f[m] = ParseArg(mode, f[m - 1], args[m])
    BY <1>2, <1>7, <2>1 DEF ParseStep
  <2>4. ParsedSo(mode, args, (m - 1) + 1, ParseArg(mode, f[m - 1], args[(m - 1) + 1]))
    BY <2>1, <2>2, ParseArgSo
  <2>5. (m - 1) + 1 = m
    BY <2>1
  <2>6. ParsedSo(mode, args, m, f[m])
    BY <2>3, <2>4, <2>5
  <2>7. QED
    BY <2>6
<1>8. QED
  BY <1>6, <1>7

\* What a handshake command stands for in the arguments it was read from.
ReadFrom(cmd, args) ==
    /\ cmd.name \in Transports
    /\ cmd.trust \in TrustOptions \cap Takes[cmd.name]
    /\ \A a \in TrustOptions : Cardinality(Places(args, a)) = IF a = cmd.trust THEN 1 ELSE 0
    /\ \A t \in Transports : Places(args, t) # {} => t = cmd.name

LEMMA OptionsReadFrom ==
    ASSUME NEW args \in Seq(STRING), args # <<>>, Head(args) = "handshake",
           NEW mode \in Transports,
           ParseOptions(mode, Tail(args)).stop = "no",
           ParseOptions(mode, Tail(args)).trust # "none"
    PROVE  ReadFrom([name |-> mode, trust |-> ParseOptions(mode, Tail(args)).trust], args)
<1> DEFINE rest == Tail(args)
           o == ParseOptions(mode, rest)
           n == Len(rest)
<1>1. /\ DOMAIN args = 1..Len(args) /\ Len(args) \in Nat /\ Len(args) # 0
      /\ args[1] = "handshake"
  <2>1. Len(args) \in Nat /\ DOMAIN args = 1..Len(args)
    OBVIOUS
  <2>2. Len(args) # 0
    BY EmptySeq
  <2>3. QED
    BY <2>1, <2>2
<1>2. n = Len(args) - 1 /\ n \in Nat /\ \A i \in 1..n : rest[i] = args[i + 1]
  <2>1. Len(rest) = Len(args) - 1 /\ \A i \in 1..Len(rest) : rest[i] = args[i + 1]
    BY HeadTailProperties
  <2>2. QED
    BY <1>1, <2>1
<1> HIDE DEF n
<1>3. ParsedSo(mode, rest, n, o)
  BY <1>2, ParseOptionsSo DEF n
<1> HIDE DEF rest
<1>4. o.stop = "no" /\ o.trust # "none"
  BY DEF rest
<1> HIDE DEF o
<1>5. o.trust \in TrustOptions /\ \A j \in 1..n : rest[j] \in Takes[mode]
  BY <1>3, <1>4 DEF ParsedSo
<1>6. PICK j \in 1..n : rest[j] = o.trust /\ OnlyAt(rest, n, j)
  BY <1>3, <1>4 DEF ParsedSo
<1>7. \A i \in DOMAIN args : i = 1 \/ (i - 1 \in 1..n /\ rest[i - 1] = args[i])
  BY <1>1, <1>2
<1>8. args[1] \notin TrustOptions /\ args[1] \notin Transports
  BY <1>1 DEF TrustOptions, CertificateOptions, Transports
<1>9. j + 1 \in DOMAIN args /\ args[j + 1] = o.trust
  BY <1>1, <1>2, <1>6
<1>10. \A i \in DOMAIN args : args[i] \in TrustOptions => i = j + 1
  <2> TAKE i \in DOMAIN args
  <2> HAVE args[i] \in TrustOptions
  <2>1. i - 1 \in 1..n /\ rest[i - 1] \in TrustOptions
    BY <1>7, <1>8
  <2>2. i - 1 = j
    BY <1>6, <2>1 DEF OnlyAt
  <2>3. QED
    BY <1>1, <2>1, <2>2
<1>11. \A a \in TrustOptions : Cardinality(Places(args, a)) = IF a = o.trust THEN 1 ELSE 0
  <2> TAKE a \in TrustOptions
  <2>1. CASE a = o.trust
    <3>1. Places(args, a) = {j + 1}
      BY <1>9, <1>10, <2>1 DEF Places
    <3>2. QED
      BY <2>1, <3>1, FS_Singleton
  <2>2. CASE a # o.trust
    <3>1. Places(args, a) = {}
      BY <1>9, <1>10, <2>2 DEF Places
    <3>2. QED
      BY <2>2, <3>1, FS_EmptySet
  <2>3. QED
    BY <2>1, <2>2
<1>12. \A t \in Transports : Places(args, t) # {} => t = mode
  <2> TAKE t \in Transports
  <2> HAVE Places(args, t) # {}
  <2>1. PICK i \in DOMAIN args : args[i] = t
    BY DEF Places
  <2>2. t \in Takes[mode]
    BY <1>5, <1>7, <1>8, <2>1
  <2>3. QED
    BY <2>2 DEF Takes, Transports, TrustOptions, CertificateOptions
<1>13. o.trust \in Takes[mode]
  BY <1>5, <1>6
<1>14. QED
  BY <1>5, <1>11, <1>12, <1>13 DEF ReadFrom, o, rest

\* Only "probe", or a handshake read from one trust option and one transport,
\* goes on to connect.
LEMMA ParseArgsShape ==
    ASSUME NEW args \in Seq(STRING)
    PROVE  \/ ParseArgs(args).name \in {"help", "usage", "probe"}
           \/ ReadFrom(ParseArgs(args), args)
<1>1. \A mode : \/ Parsed(mode, Tail(args)).name \in {"help", "usage"}
                \/ /\ Complete(mode, ParseOptions(mode, Tail(args)))
                   /\ Parsed(mode, Tail(args)) =
                         [name |-> mode, trust |-> ParseOptions(mode, Tail(args)).trust]
  BY DEF Parsed
<1>2. \/ ParseArgs(args).name \in {"help", "usage"}
      \/ /\ args # <<>>
         /\ \/ ParseArgs(args) = Parsed("probe", Tail(args))
            \/ /\ Head(args) = "handshake" /\ Selected(Tail(args)) \in Transports
               /\ ParseArgs(args) = Parsed(Selected(Tail(args)), Tail(args))
  BY DEF ParseArgs
<1>3. CASE ParseArgs(args) = Parsed("probe", Tail(args))
  BY <1>1, <1>3
<1>4. CASE /\ args # <<>> /\ Head(args) = "handshake" /\ Selected(Tail(args)) \in Transports
           /\ ParseArgs(args) = Parsed(Selected(Tail(args)), Tail(args))
  <2> DEFINE mode == Selected(Tail(args))
             o == ParseOptions(mode, Tail(args))
  <2>1. mode \in Transports /\ mode # "probe"
    BY <1>4 DEF Transports
  <2> HIDE DEF mode
  <2>2. \/ ParseArgs(args).name \in {"help", "usage"}
        \/ Complete(mode, o) /\ ParseArgs(args) = [name |-> mode, trust |-> o.trust]
    BY <1>1, <1>4 DEF mode
  <2>3. ASSUME Complete(mode, o)
        PROVE  ReadFrom([name |-> mode, trust |-> o.trust], args)
    <3>1. o.stop = "no" /\ o.trust # "none"
      BY <2>1, <2>3 DEF Complete
    <3>2. QED
      BY <1>4, <2>1, <3>1, OptionsReadFrom
  <2>4. QED
    BY <2>2, <2>3
<1>5. QED
  BY <1>2, <1>3, <1>4

----------------------------------------------------------------------------
(* Trust: what the exit status of a handshake means.                       *)

ModeOf(option) ==
    CASE option = "host-key-sha256" -> "pin"
      [] option = "known-hosts" -> "known_hosts"
      [] OTHER -> "certificate"

\* given is what the arguments say, and command was read from them.
GivenInv ==
    pc \in {"Prepare", "Connect", "Handshake"} =>
        \/ command.name = "probe" /\ pc = "Connect"
        \/ /\ command.name \in Transports
           /\ command.trust \in TrustOptions \cap Takes[command.name]
           /\ given.trusts = [a \in TrustOptions |-> IF a = command.trust THEN 1 ELSE 0]
           /\ given.transports \subseteq {command.name}
           /\ pc = "Handshake" => command.name = "quic"

\* What the report of a completed handshake rests on.
Vouched ==
    /\ presented.valid /\ vouched[presented.key].trusted
    /\ ~unusable
    /\ command.trust \notin CertificateOptions /\ command.name = "quic" =>
          presented.form = "raw"

TrustInv ==
    /\ pc \in {"Start", "Prepare"} => trust.mode = "none" /\ ~unusable
    /\ pc \in {"Start", "Prepare", "Connect", "Handshake"} => report = "none"
    /\ pc # "Exit" => status = -1
    /\ status = 0 => report = "complete" \/ command.name = "help"
    /\ pc \in {"Connect", "Handshake"} /\ command.name # "probe" =>
          ~unusable /\ trust.mode = ModeOf(command.trust)
    /\ trust.mode \in {"pin", "certificate"} =>
          vouched = [k \in Keys |-> DecidePin(trust.pin, k)]
    /\ report = "complete" /\ command.name \in Transports => Vouched

LEMMA InitTrust == Init => TrustInv /\ GivenInv
  BY DEF Init, ClientInit, TrustInv, GivenInv

LEMMA NextGiven ==
    ASSUME GivenInv, [Next]_vars
    PROVE  GivenInv'
<1>1. CASE Main
  <2>1. PICK args \in CommandLines :
          /\ command' = ParseArgs(args)
          /\ given' = [trusts |-> [a \in TrustOptions |-> Cardinality(Places(args, a))],
                       transports |-> {t \in Transports : Places(args, t) # {}}]
    BY <1>1 DEF Main
  <2>2. /\ pc' \in {"Exit", "Connect", "Prepare"}
        /\ command'.name \in {"help", "usage"} => pc' = "Exit"
        /\ command'.name = "probe" => pc' = "Connect"
    BY <1>1 DEF Main, Exit
  <2>3. command'.name \in {"help", "usage", "probe"} \/ ReadFrom(command', args)
    BY <2>1, ParseArgsShape, ClientConfig
  <2>4. CASE command'.name \in {"help", "usage", "probe"}
    BY <2>2, <2>4 DEF GivenInv
  <2>5. CASE ReadFrom(command', args)
    <3>1. given'.trusts = [a \in TrustOptions |-> IF a = command'.trust THEN 1 ELSE 0]
      BY <2>1, <2>5 DEF ReadFrom
    <3>2. given'.transports \subseteq {command'.name}
      BY <2>1, <2>5 DEF ReadFrom
    <3>3. QED
      BY <2>2, <2>5, <3>1, <3>2 DEF GivenInv, ReadFrom
  <2>6. QED
    BY <2>3, <2>4, <2>5
<1>2. CASE PreparePin \/ PrepareFile
  <2>1. /\ pc = "Prepare" /\ pc' \in {"Connect", "Emit"}
        /\ UNCHANGED <<command, given>>
    BY <1>2 DEF PreparePin, PrepareFile, Report
  <2>2. QED
    BY <2>1 DEF GivenInv
<1>3. CASE FileUnreadable \/ ConnectFails \/ TcpHandshake \/ ProbeRun \/ QuicReport \/ Emit
  <2>1. pc' \in {"Emit", "Exit"}
    BY <1>3 DEF FileUnreadable, ConnectFails, TcpHandshake, ProbeRun, QuicReport, Emit, Report, Exit
  <2>2. QED
    BY <2>1 DEF GivenInv
<1>4. CASE QuicRun
  <2>1. /\ pc = "Connect" /\ command.name = "quic" /\ UNCHANGED <<command, given>>
    BY <1>4 DEF QuicRun
  <2>2. QED
    BY <2>1 DEF GivenInv
<1>5. CASE QuicStep \/ Clock \/ UNCHANGED vars
  <2>1. UNCHANGED <<pc, command, given>>
    BY <1>5 DEF QuicStep, Clock, mainVars, vars
  <2>2. QED
    BY <2>1 DEF GivenInv
<1>6. QED
  BY <1>1, <1>2, <1>3, <1>4, <1>5 DEF Next, Program, Exited

\* A policy decides a key as the trust source vouches for it.
LEMMA DecidesVouched ==
    ASSUME TrustInv, PolicyExact, trust.mode \in {"pin", "known_hosts"}, NEW k \in Keys
    PROVE  PolicyDecides(trust, k) = vouched[k]
  BY DEF PolicyDecides, PolicyExact, TrustInv

LEMMA CompletedVouched ==
    ASSUME ClientInv, TrustInv, PolicyExact, pc = "Handshake", command.name = "quic",
           command.trust \in TrustOptions, outcome.handshake = "Completed"
    PROVE  Vouched
<1>1. Authenticated(presented, outcome.identity)
  BY DEF ClientInv, Sound, State
<1>2. /\ presented \in Presentable /\ presented.key \in Keys
      /\ VerifyServerCert(presented).ok /\ presented.valid
  BY <1>1 DEF Authenticated, VerifySignature, Presentable
<1>3. ~unusable /\ trust.mode = ModeOf(command.trust)
  BY DEF TrustInv
<1>4. CASE command.trust \in CertificateOptions
  <2>0. trust.mode = "certificate"
    BY <1>3, <1>4 DEF ModeOf, CertificateOptions
  <2>1. presented.key = trust.pin
    BY <1>2, <2>0 DEF VerifyServerCert
  <2>2. vouched[presented.key] = DecidePin(trust.pin, presented.key)
    BY <1>2, <2>0 DEF TrustInv
  <2>3. QED
    BY <1>2, <1>3, <1>4, <2>1, <2>2 DEF Vouched, DecidePin, Trusted
<1>5. CASE command.trust \notin CertificateOptions
  <2>0. trust.mode \in {"pin", "known_hosts"}
    BY <1>3, <1>5 DEF ModeOf, CertificateOptions, TrustOptions
  <2>1. presented.form = "raw" /\ PolicyDecides(trust, presented.key).trusted
    BY <1>2, <2>0 DEF VerifyServerCert, Judged
  <2>2. PolicyDecides(trust, presented.key) = vouched[presented.key]
    BY <1>2, <2>0, DecidesVouched
  <2>3. QED
    BY <1>2, <1>3, <2>1, <2>2 DEF Vouched
<1>6. QED
  BY <1>4, <1>5

LEMMA NextTrust ==
    ASSUME ClientInv, TrustInv, GivenInv, PolicyExact, [Next]_vars
    PROVE  TrustInv'
<1>1. CASE Main
  <2>1. PICK args \in CommandLines : command' = ParseArgs(args)
    BY <1>1 DEF Main
  <2>2. /\ pc = "Start" /\ UNCHANGED <<trust, vouched, unusable, report>>
        /\ \/ command'.name = "help" /\ pc' = "Exit" /\ status' = 0
           \/ pc' = "Exit" /\ status' = 2
           \/ command'.name = "probe" /\ pc' = "Connect" /\ status' = status
           \/ pc' = "Prepare" /\ status' = status
    BY <1>1 DEF Main, Exit, clientVars
  <2>3. QED
    BY <2>2 DEF TrustInv
<1>2. CASE PreparePin
  <2>1. PICK pin \in Pins :
           /\ trust' = [mode |-> IF command.trust \in CertificateOptions
                                 THEN "certificate" ELSE "pin",
                        pin |-> pin]
           /\ vouched' = [k \in Keys |-> DecidePin(pin, k)]
    BY <1>2 DEF PreparePin
  <2>2. pc = "Prepare" /\ pc' = "Connect" /\ UNCHANGED <<command, unusable, report, status>>
    BY <1>2 DEF PreparePin
  <2>3. trust'.pin = pin /\ trust'.mode = ModeOf(command.trust)
    <3>1. command.trust \in TrustOptions /\ command.trust # "known-hosts"
      BY <1>2 DEF PreparePin, GivenInv
    <3>2. QED
      BY <2>1, <3>1 DEF ModeOf, TrustOptions, CertificateOptions
  <2>4. vouched' = [k \in Keys |-> DecidePin(trust'.pin, k)]
    BY <2>1, <2>3
  <2>5. QED
    BY <2>2, <2>3, <2>4 DEF TrustInv, DecidePin
<1>3. CASE PrepareFile
  <2>1. PICK lines \in Files, host \in Hosts, port \in Ports :
          /\ unusable' = \E i \in DOMAIN lines : ErrorAt(lines, i) # "none"
          /\ CASE ParseError(lines) # "none" -> Report(ParseError(lines)) /\ UNCHANGED trust
               [] ParseError(lines) = "none" /\ ~LookupNameOk(host, port) ->
                     Report("invalid_lookup_name") /\ UNCHANGED trust
               [] OTHER -> /\ trust' = [mode |-> "known_hosts",
                                        applicable |-> PolicyForName(Entries(lines),
                                                                     NameOf(host, port))]
                           /\ pc' = "Connect"
                           /\ UNCHANGED report
    BY <1>3 DEF PrepareFile
  <2>2. pc = "Prepare" /\ command.trust = "known-hosts" /\ UNCHANGED <<command, status>>
    BY <1>3 DEF PrepareFile
  <2>3. CASE report' # "complete" /\ pc' = "Emit" /\ trust' = trust
    BY <2>2, <2>3 DEF TrustInv
  <2>4. CASE /\ ParseError(lines) = "none" /\ trust'.mode = "known_hosts"
             /\ pc' = "Connect" /\ report' = report
    <3>1. ~unusable'
      BY <2>1, <2>4, ParseErrorNone
    <3>2. QED
      BY <2>2, <2>4, <3>1 DEF TrustInv, ModeOf
  <2>5. QED
    BY <2>1, <2>3, <2>4, ParseErrorRange DEF Report
<1>4. CASE FileUnreadable \/ ConnectFails
  <2>1. /\ pc \in {"Prepare", "Connect"} /\ pc' = "Emit" /\ report' # "complete"
        /\ UNCHANGED <<trust, command, vouched, unusable, status>>
    BY <1>4 DEF FileUnreadable, ConnectFails, Report, clientVars
  <2>2. QED
    BY <2>1 DEF TrustInv
<1>5. CASE TcpHandshake
  <2>1. /\ pc = "Connect" /\ pc' = "Emit" /\ command.name = "tcp"
        /\ UNCHANGED <<trust, command, vouched, unusable, status>>
        /\ presented' \in Presentable
        /\ report' = "complete" =>
              presented'.valid /\ PolicyDecides(trust, presented'.key).trusted
    BY <1>5 DEF TcpHandshake, Report
  <2>2. ~unusable /\ trust.mode \in {"pin", "known_hosts"}
    <3>1. command.trust \in {"host-key-sha256", "known-hosts"}
      BY <2>1 DEF GivenInv, Takes, TrustOptions, CertificateOptions
    <3>2. ~unusable /\ trust.mode = ModeOf(command.trust)
      BY <2>1 DEF TrustInv
    <3>3. QED
      BY <3>1, <3>2 DEF ModeOf
  <2>3. presented'.key \in Keys
    BY <2>1 DEF Presentable
  <2>4. PolicyDecides(trust, presented'.key) = vouched[presented'.key]
    BY <2>2, <2>3, DecidesVouched
  <2>5. report' = "complete" => Vouched'
    BY <2>1, <2>2, <2>4 DEF Vouched
  <2>6. QED
    BY <2>1, <2>5 DEF TrustInv
<1>6. CASE ProbeRun
  <2>1. /\ pc = "Connect" /\ pc' = "Emit" /\ command.name = "probe"
        /\ UNCHANGED <<trust, command, vouched, unusable, status>>
    BY <1>6 DEF ProbeRun, Report, clientVars
  <2>2. QED
    BY <2>1 DEF TrustInv, Transports
<1>7. CASE QuicRun \/ QuicStep
  <2>1. /\ pc \in {"Connect", "Handshake"} /\ pc' = "Handshake"
        /\ UNCHANGED <<trust, command, vouched, unusable, report, status>>
    BY <1>7 DEF QuicRun, QuicStep, RunStep, SendAll, Receive, HandleTimeouts, mainVars
  <2>2. QED
    BY <2>1 DEF TrustInv
<1>8. CASE QuicReport
  <2>1. /\ pc = "Handshake" /\ pc' = "Emit"
        /\ UNCHANGED <<trust, presented, command, vouched, unusable, status>>
        /\ report' = "complete" => outcome.handshake = "Completed"
    BY <1>8 DEF QuicReport, Report, clientVars
  <2>2. report' = "complete" => Vouched'
    <3>1. command.name = "quic" /\ command.trust \in TrustOptions
      BY <2>1 DEF GivenInv
    <3>2. report' = "complete" => Vouched
      BY <2>1, <3>1, CompletedVouched
    <3>3. QED
      BY <2>1, <3>2 DEF Vouched
  <2>3. QED
    BY <2>1, <2>2 DEF TrustInv
<1>9. CASE Emit
  <2>1. /\ pc' = "Exit" /\ UNCHANGED <<trust, presented, command, vouched, unusable, report>>
        /\ status' = 0 => report = "complete"
    BY <1>9 DEF Emit, Exit, clientVars
  <2>2. QED
    BY <2>1 DEF TrustInv, Vouched
<1>10. CASE Clock \/ UNCHANGED vars
  <2>1. UNCHANGED <<pc, trust, presented, command, vouched, unusable, report, status>>
    BY <1>10 DEF Clock, DeadlinePasses, LingerPasses, mainVars, vars, clientVars
  <2>2. QED
    BY <2>1 DEF TrustInv, Vouched
<1>11. QED
  BY <1>1, <1>2, <1>3, <1>4, <1>5, <1>6, <1>7, <1>8, <1>9, <1>10 DEF Next, Program, Exited

\* For every command line, server, pin and known_hosts file: nothing is
\* connected to unless exactly one trust option and one transport were given
\* and the policy in force is that of the option, and status 0 of a handshake
\* means that the server proved that it holds a key this one source vouches
\* for, no line of a known_hosts file being in error (parse_args, set_once,
\* TrustConfig::prepare, SshHostKeyVerifier, run_handshake,
\* run_quic_handshake).
THEOREM TrustCorrect ==
    Spec => []TrustAsConfigured
<1>1. ClientInv /\ TrustInv /\ GivenInv /\ PolicyExact /\ [Next]_vars => TrustInv'
  BY NextTrust
<1>2. GivenInv /\ [Next]_vars => GivenInv'
  BY NextGiven
<1>3. GivenInv /\ TrustInv => TrustAsConfigured
  <2>1. TrustInv => TrustedOnlyAsListed
    BY DEF TrustInv, Vouched, TrustedOnlyAsListed, Transports
  <2>2. GivenInv /\ TrustInv => OneTrustSource
    BY DEF GivenInv, TrustInv, OneTrustSource, ModeOf
  <2>3. QED
    BY <2>1, <2>2 DEF TrustAsConfigured
<1>4. QED
  BY <1>1, <1>2, <1>3, InitTrust, ClientInvariance, PolicyCorrect, PTL DEF Spec

=============================================================================
