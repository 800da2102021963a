------------------------- MODULE OpeningPairProofs -------------------------
(***************************************************************************)
(* Two engines face to face, for every value of the limits and of the      *)
(* number space: neither accuses the other, every open has one answer      *)
(* coming, and both sides know the same channels.                          *)
(***************************************************************************)
EXTENDS OpeningPair, TLAPS, SequenceTheorems, FiniteSetTheorems

----------------------------------------------------------------------------
(* The invariant.  A side is what the other can know of an engine: its     *)
(* numbers by phase, the numbers it has allocated, its tombstones and the  *)
(* opens it cancelled.  One direction is about the opens of side x, which  *)
(* side y answers; mx is what is under way from x to y and my from y to x, *)
(* and g holds the sides told of a loss, and "up" while the transport is.  *)

\* The engine's numbers and messages.
Number == 0..MaxNumber
OpenMsg(n) == [kind |-> "OPEN", sender |-> n, recipient |-> -1]
ConfirmMsg(p, n) == [kind |-> "CONFIRMATION", sender |-> n, recipient |-> p]
FailureMsg(p) == [kind |-> "FAILURE", sender |-> -1, recipient |-> p]

\* m gives away its sender's number n, as an OPEN or a CONFIRMATION does; m
\* answers the open n.
Announces(m, n) == m.kind # "FAILURE" /\ m.sender = n
Answers(m, n) == m.kind # "OPEN" /\ m.recipient = n
IsAnswered(my, n) == \E m \in my : Answers(m, n)

WellFormed(mx) ==
    \A m \in mx : \/ \E n \in Number : m = OpenMsg(n)
                  \/ \E n, p \in Number : m = ConfirmMsg(p, n)
                  \/ \E p \in Number : m = FailureMsg(p)

\* Only numbers that x allocated are under way or known to y.
Known(x, y, mx, my) ==
    /\ \A m \in mx, n \in Number : Announces(m, n) => n \in x.alloc
    /\ \A n \in Number : IsAnswered(my, n) => n \in x.alloc
    /\ y.wait \subseteq x.alloc
    /\ \A c \in y.chan : c[2] \in x.alloc

\* A number of x is under way or at y, and once.
Announced(y, mx) ==
    /\ \A m, k \in mx, n \in Number : Announces(m, n) /\ Announces(k, n) => m = k
    /\ \A m \in mx, n \in Number :
          Announces(m, n) => n \notin y.wait /\ \A c \in y.chan : c[2] # n

\* One answer is coming, at most.
AtMostOne(y, mx, my) ==
    /\ \A m, k \in my, n \in Number : Answers(m, n) /\ Answers(k, n) => m = k
    /\ \A n \in Number : OpenMsg(n) \in mx => ~IsAnswered(my, n)
    /\ \A n \in y.wait : ~IsAnswered(my, n)

LongAgo(x, n) == \E k \in 1..(Len(x.canc) - MaxTombstones) : x.canc[k] = n

\* x still knows what an answer to n is about, or cancelled n long ago.
Knows(x, n) ==
    n \in x.pend \/ (\E k \in DOMAIN x.tomb : x.tomb[k] = n) \/ LongAgo(x, n)

Opened(x, mx) == \A n \in Number : OpenMsg(n) \in mx => Knows(x, n)

\* A tombstone is of a cancelled open, with as many cancelled after it as
\* there are tombstones after it, at least.
Buried(x) ==
    /\ x.canc \in Seq(Number) /\ x.tomb \in Seq(Number)
    /\ \A j \in DOMAIN x.tomb : \E k \in DOMAIN x.canc :
          x.canc[k] = x.tomb[j] /\ k <= Len(x.canc) - (Len(x.tomb) - j)

Direction(x, y, mx, my) ==
    /\ WellFormed(mx)
    /\ Known(x, y, mx, my)
    /\ Announced(y, mx)
    /\ AtMostOne(y, mx, my)
    /\ Opened(x, mx)
    /\ Buried(x)

\* With the transport up, the answer to a pending open is coming.
Coming(x, y, mx, my) ==
    \A n \in x.pend : OpenMsg(n) \in mx \/ n \in y.wait \/ IsAnswered(my, n)

\* What y calls established is so at x, or x will hear of it, or cancelled.
Agreed(x, y, my) ==
    /\ \A n, p \in Number : ConfirmMsg(n, p) \in my => <<p, n>> \in y.chan
    /\ \A c \in y.chan : \/ <<c[2], c[1]>> \in x.chan
                         \/ ConfirmMsg(c[2], c[1]) \in my
                         \/ \E k \in DOMAIN x.canc : x.canc[k] = c[2]

\* Told of the loss, x has pending only what it will send, y nothing of x's.
Queued(x, mx) == \A n \in x.pend : OpenMsg(n) \in mx
Forgotten(y, my) == y.wait = {} /\ y.chan = {} /\ \A m \in my : m.kind = "OPEN"

\* Until x is told, it knows what y is about to answer.
Expected(x, y, my) ==
    /\ \A n \in y.wait : Knows(x, n)
    /\ \A n \in Number : IsAnswered(my, n) => Knows(x, n)

Guarded(x, y, mx, my, g) ==
    /\ "up" \in g => Coming(x, y, mx, my) /\ Agreed(x, y, my)
    /\ x.name \in g => Queued(x, mx)
    /\ x.name \notin g => Expected(x, y, my)
    /\ y.name \in g => Forgotten(y, my)

OneWay(x, y, mx, my, g) == Direction(x, y, mx, my) /\ Guarded(x, y, mx, my, g)

BothWays(x, y, mx, my, g) ==
    /\ OneWay(x, y, mx, my, g) /\ OneWay(y, x, my, mx, g)
    /\ "up" \in g => x.name \notin g /\ y.name \notin g
    /\ x.alloc \subseteq Number /\ x.pend \subseteq Number
    /\ y.alloc \subseteq Number /\ y.pend \subseteq Number

----------------------------------------------------------------------------
(* What each event does to the direction of the one whose event it is: x.  *)

\* The fields of the three messages.
LEMMA MessageFields ==
    /\ \A n : /\ OpenMsg(n).kind = "OPEN" /\ OpenMsg(n).sender = n
              /\ FailureMsg(n).kind = "FAILURE" /\ FailureMsg(n).recipient = n
    /\ \A n, p : /\ ConfirmMsg(p, n).kind = "CONFIRMATION"
                 /\ ConfirmMsg(p, n).sender = n /\ ConfirmMsg(p, n).recipient = p
BY DEF OpenMsg, ConfirmMsg, FailureMsg

\* open: a number never used before.
LEMMA OpenerOpens ==
    ASSUME NEW x, NEW x2, NEW y, NEW mx, NEW my, NEW g, NEW n \in Number,
           OneWay(x, y, mx, my, g), x2.name = x.name,
           n \notin x.alloc, x2.alloc = x.alloc \cup {n}, x2.pend = x.pend \cup {n},
           x2.chan = x.chan, x2.tomb = x.tomb, x2.canc = x.canc
    PROVE  OneWay(x2, y, mx \cup {OpenMsg(n)}, my, g)
<1> DEFINE mx2 == mx \cup {OpenMsg(n)}
<1>0. /\ \A k : Knows(x, k) \/ k = n => Knows(x2, k)
      /\ \A k : LongAgo(x2, k) <=> LongAgo(x, k)
  BY DEF Knows, LongAgo
<1>1. WellFormed(mx2)
  BY DEF OneWay, Direction, WellFormed
<1>2. Known(x2, y, mx2, my)
  BY MessageFields DEF OneWay, Direction, Known, Announces
<1>3. Announced(y, mx2)
  BY MessageFields DEF OneWay, Direction, Known, Announced, Announces
<1>4. AtMostOne(y, mx2, my)
  BY MessageFields DEF OneWay, Direction, Known, AtMostOne
<1>5. Opened(x2, mx2)
  BY <1>0, MessageFields DEF OneWay, Direction, Opened
<1>6. Buried(x2)
  BY DEF OneWay, Direction, Buried
<1>7. Coming(x, y, mx, my) => Coming(x2, y, mx2, my)
  BY DEF Coming
<1>8. Agreed(x, y, my) => Agreed(x2, y, my)
  BY DEF Agreed
<1>9. Queued(x, mx) => Queued(x2, mx2)
  BY DEF Queued
<1>10. Expected(x, y, my) => Expected(x2, y, my)
  BY <1>0 DEF Expected
<1> QED BY <1>1, <1>2, <1>3, <1>4, <1>5, <1>6, <1>7, <1>8, <1>9, <1>10
        DEF OneWay, Direction, Guarded

\* x answers an open of y or takes one up, or y's messages are lost: of x's
\* own opens nothing changes.
LEMMA OpenerAside ==
    ASSUME NEW x, NEW x2, NEW y, NEW mx, NEW mx2, NEW my, NEW my2, NEW g,
           OneWay(x, y, mx, my, g), x2.name = x.name,
           x2.alloc = x.alloc, x2.pend = x.pend,
           x2.chan = x.chan, x2.tomb = x.tomb, x2.canc = x.canc,
           mx2 = mx \/ \E p \in Number : mx2 = mx \cup {FailureMsg(p)},
           my2 = my \/ \E p \in Number : my2 = my \ {OpenMsg(p)}
    PROVE  OneWay(x2, y, mx2, my2, g)
<1>0. /\ \A k : Knows(x2, k) <=> Knows(x, k)
      /\ \A m \in mx2 : m \in mx \/ \E p \in Number : m = FailureMsg(p)
      /\ \A m \in mx : m \in mx2
      /\ \A m \in my2 : m \in my
      /\ \A m \in my : m.kind # "OPEN" => m \in my2
  BY MessageFields DEF Knows, LongAgo
<1>a. \A k : IsAnswered(my2, k) <=> IsAnswered(my, k)
  BY <1>0 DEF IsAnswered, Answers
<1>b. \A m \in mx2 : \A k : Announces(m, k) => m \in mx
  BY <1>0, MessageFields DEF Announces
<1>c. \A k : OpenMsg(k) \in mx2 <=> OpenMsg(k) \in mx
  BY <1>0, MessageFields
<1>d. \A k, p : ConfirmMsg(k, p) \in my2 <=> ConfirmMsg(k, p) \in my
  BY <1>0, MessageFields
<1>1. WellFormed(mx2)
  BY <1>0 DEF OneWay, Direction, WellFormed
<1>2. Known(x2, y, mx2, my2)
  BY <1>0, <1>a, <1>b DEF OneWay, Direction, Known
<1>3. Announced(y, mx2)
  BY <1>b DEF OneWay, Direction, Known, Announced
<1>4. AtMostOne(y, mx2, my2)
  BY <1>0, <1>a, <1>c DEF OneWay, Direction, AtMostOne
<1>5. Opened(x2, mx2)
  BY <1>0, <1>c DEF OneWay, Direction, Opened
<1>6. Buried(x2)
  BY DEF OneWay, Direction, Buried
<1>7. Coming(x, y, mx, my) => Coming(x2, y, mx2, my2)
  BY <1>a, <1>c DEF Coming
<1>8. Agreed(x, y, my) => Agreed(x2, y, my2)
  BY <1>d DEF Agreed
<1>9. Queued(x, mx) => Queued(x2, mx2)
  BY <1>c DEF Queued
<1>10. Expected(x, y, my) => Expected(x2, y, my2)
  BY <1>0, <1>a DEF Expected
<1>11. Forgotten(y, my) => Forgotten(y, my2)
  BY <1>0 DEF Forgotten
<1> QED BY <1>1, <1>2, <1>3, <1>4, <1>5, <1>6, <1>7, <1>8, <1>9, <1>10, <1>11
        DEF OneWay, Direction, Guarded

\* accept: x gives away a number never used before, in its answer.
LEMMA OpenerAccepts ==
    ASSUME NEW x, NEW x2, NEW y, NEW mx, NEW my, NEW g,
           NEW n \in Number, NEW p \in Number,
           OneWay(x, y, mx, my, g), x2.name = x.name,
           n \notin x.alloc, x2.alloc = x.alloc \cup {n}, x2.pend = x.pend,
           x2.chan = x.chan \cup {<<n, p>>}, x2.tomb = x.tomb, x2.canc = x.canc
    PROVE  OneWay(x2, y, mx \cup {ConfirmMsg(p, n)}, my, g)
<1> DEFINE mx2 == mx \cup {ConfirmMsg(p, n)}
<1>0. \A k : Knows(x, k) => Knows(x2, k)
  BY DEF Knows, LongAgo
<1>c. \A k : OpenMsg(k) \in mx2 <=> OpenMsg(k) \in mx
  BY MessageFields
<1>1. WellFormed(mx2)
  BY DEF OneWay, Direction, WellFormed
<1>2. Known(x2, y, mx2, my)
  BY MessageFields DEF OneWay, Direction, Known, Announces
<1>3. Announced(y, mx2)
  BY MessageFields DEF OneWay, Direction, Known, Announced, Announces
<1>4. AtMostOne(y, mx2, my)
  BY <1>c DEF OneWay, Direction, AtMostOne
<1>5. Opened(x2, mx2)
  BY <1>0, <1>c DEF OneWay, Direction, Opened
<1>6. Buried(x2)
  BY DEF OneWay, Direction, Buried
<1>7. Coming(x, y, mx, my) => Coming(x2, y, mx2, my)
  BY DEF Coming
<1>8. Agreed(x, y, my) => Agreed(x2, y, my)
  BY DEF Agreed
<1>9. Queued(x, mx) => Queued(x2, mx2)
  BY DEF Queued
<1>10. Expected(x, y, my) => Expected(x2, y, my)
  BY <1>0 DEF Expected
<1> QED BY <1>1, <1>2, <1>3, <1>4, <1>5, <1>6, <1>7, <1>8, <1>9, <1>10
        DEF OneWay, Direction, Guarded

\* cancel: what x knows stays known, or becomes long ago.
LEMMA OpenerCancels ==
    ASSUME NEW x, NEW x2, NEW y, NEW mx, NEW my, NEW g,
           OneWay(x, y, mx, my, g), x2.name = x.name,
           x2.alloc = x.alloc, x2.pend \subseteq x.pend, x2.chan = x.chan,
           Buried(x2), \A k : Knows(x, k) => Knows(x2, k),
           \A k : (\E j \in DOMAIN x.canc : x.canc[j] = k) =>
                      \E j \in DOMAIN x2.canc : x2.canc[j] = k
    PROVE  OneWay(x2, y, mx, my, g)
<1>2. Known(x2, y, mx, my)
  BY DEF OneWay, Direction, Known
<1>5. Opened(x2, mx)
  BY DEF OneWay, Direction, Opened
<1>7. Coming(x, y, mx, my) => Coming(x2, y, mx, my)
  BY DEF Coming
<1>8. Agreed(x, y, my) => Agreed(x2, y, my)
  BY DEF Agreed
<1>9. Queued(x, mx) => Queued(x2, mx)
  BY DEF Queued
<1>10. Expected(x, y, my) => Expected(x2, y, my)
  BY DEF Expected
<1> QED BY <1>2, <1>5, <1>7, <1>8, <1>9, <1>10 DEF OneWay, Direction, Guarded

\* The answer m to n arrives.
LEMMA OpenerAnswered ==
    ASSUME NEW x, NEW x2, NEW y, NEW mx, NEW my, NEW g, NEW m \in my, NEW n \in Number,
           OneWay(x, y, mx, my, g), x2.name = x.name,
           x.pend \subseteq Number, y.wait \subseteq Number, Answers(m, n),
           x2.alloc = x.alloc, x2.pend = x.pend \ {n}, x.chan \subseteq x2.chan,
           x2.canc = x.canc, Buried(x2),
           \A k : k # n /\ Knows(x, k) => Knows(x2, k),
           \A p : m = ConfirmMsg(n, p) =>
              <<n, p>> \in x2.chan \/ \E j \in DOMAIN x.canc : x.canc[j] = n
    PROVE  OneWay(x2, y, mx, my \ {m}, g)
<1> DEFINE my2 == my \ {m}
<1>0. \A k \in Number : IsAnswered(my2, k) <=> k # n /\ IsAnswered(my, k)
  <2>1. \A k : Answers(m, k) => k = n
    BY DEF Answers
  <2> QED BY <2>1 DEF OneWay, Direction, AtMostOne, IsAnswered
<1>a. \A k \in Number : OpenMsg(k) \in mx \/ k \in y.wait => k # n
  BY DEF OneWay, Direction, AtMostOne, IsAnswered
<1>2. Known(x2, y, mx, my2)
  BY <1>0 DEF OneWay, Direction, Known
<1>4. AtMostOne(y, mx, my2)
  BY <1>0 DEF OneWay, Direction, AtMostOne
<1>5. Opened(x2, mx)
  BY <1>a DEF OneWay, Direction, Opened
<1>7. Coming(x, y, mx, my) => Coming(x2, y, mx, my2)
  BY <1>0 DEF Coming
<1>8. Agreed(x, y, my) => Agreed(x2, y, my2)
  BY MessageFields DEF Agreed, Answers
<1>9. Queued(x, mx) => Queued(x2, mx)
  BY DEF Queued
<1>10. Expected(x, y, my) => Expected(x2, y, my2)
  BY <1>0, <1>a DEF Expected
<1>11. Forgotten(y, my) => Forgotten(y, my2)
  BY DEF Forgotten
<1> QED BY <1>2, <1>4, <1>5, <1>7, <1>8, <1>9, <1>10, <1>11
        DEF OneWay, Direction, Guarded

\* transport_lost: x has nothing left to send and nothing pending.
LEMMA OpenerLost ==
    ASSUME NEW x, NEW x2, NEW y, NEW mx, NEW my, NEW g, NEW g2,
           OneWay(x, y, mx, my, g), x2.name = x.name, "up" \notin g,
           g2 = g \cup {x.name}, x.name # y.name, x.name # "up",
           x2.alloc = x.alloc, x2.pend = {}, x2.tomb = x.tomb, x2.canc = x.canc
    PROVE  OneWay(x2, y, {}, my, g2)
<1>1. WellFormed({})
  BY DEF WellFormed
<1>2. Known(x2, y, {}, my)
  BY DEF OneWay, Direction, Known
<1>3. Announced(y, {})
  BY DEF Announced
<1>4. AtMostOne(y, {}, my)
  BY DEF OneWay, Direction, AtMostOne
<1>5. Opened(x2, {})
  BY DEF Opened
<1>6. Buried(x2)
  BY DEF OneWay, Direction, Buried
<1>7. Queued(x2, {})
  BY DEF Queued
<1> QED BY <1>1, <1>2, <1>3, <1>4, <1>5, <1>6, <1>7
        DEF OneWay, Direction, Guarded

----------------------------------------------------------------------------
(* What each event of y does to the direction of x, whose opens y answers. *)

\* open and cancel: y's own opens are nothing to x's.
LEMMA ResponderOpens ==
    ASSUME NEW x, NEW y, NEW y2, NEW mx, NEW my, NEW my2, NEW g,
           OneWay(x, y, mx, my, g), y2.name = y.name,
           y2.wait = y.wait, y2.chan = y.chan,
           my2 = my \/ \E n : my2 = my \cup {OpenMsg(n)}
    PROVE  OneWay(x, y2, mx, my2, g)
<1>0. /\ \A m \in my2 : m \in my \/ m.kind = "OPEN"
      /\ my \subseteq my2
  BY MessageFields
<1>a. \A k : IsAnswered(my2, k) <=> IsAnswered(my, k)
  BY <1>0 DEF IsAnswered, Answers
<1>b. \A k, p : ConfirmMsg(k, p) \in my2 <=> ConfirmMsg(k, p) \in my
  BY <1>0, MessageFields
<1>2. Known(x, y2, mx, my2)
  BY <1>a DEF OneWay, Direction, Known
<1>3. Announced(y2, mx)
  BY DEF OneWay, Direction, Announced
<1>4. AtMostOne(y2, mx, my2)
  BY <1>0, <1>a DEF OneWay, Direction, AtMostOne, Answers
<1>7. Coming(x, y, mx, my) => Coming(x, y2, mx, my2)
  BY <1>a DEF Coming
<1>8. Agreed(x, y, my) => Agreed(x, y2, my2)
  BY <1>b DEF Agreed
<1>10. Expected(x, y, my) => Expected(x, y2, my2)
  BY <1>a DEF Expected
<1>11. Forgotten(y, my) => Forgotten(y2, my2)
  BY <1>0 DEF Forgotten
<1> QED BY <1>2, <1>3, <1>4, <1>7, <1>8, <1>10, <1>11 DEF OneWay, Direction, Guarded

\* The open p of x, which waits at y or arrives there, is answered with m.
LEMMA ResponderAnswers ==
    ASSUME NEW x, NEW y, NEW y2, NEW mx, NEW mx2, NEW my, NEW g, NEW p \in Number, NEW m,
           OneWay(x, y, mx, my, g), y2.name = y.name, y.wait \subseteq Number,
           \/ p \in y.wait /\ y2.wait = y.wait \ {p} /\ mx2 = mx
           \/ /\ OpenMsg(p) \in mx /\ y2.wait = y.wait /\ mx2 = mx \ {OpenMsg(p)}
              /\ x.name \notin g /\ y.name \notin g,
           \/ m = FailureMsg(p) /\ y2.chan = y.chan
           \/ \E n \in Number : m = ConfirmMsg(p, n) /\ p \in y.wait
                                /\ y2.chan = y.chan \cup {<<n, p>>}
    PROVE  m \notin my /\ OneWay(x, y2, mx2, my \cup {m}, g)
<1> DEFINE my2 == my \cup {m}
<1>0. m.kind # "OPEN" /\ m.recipient = p
  BY MessageFields
<1>a. \A k : Answers(m, k) <=> k = p
  BY <1>0 DEF Answers
<1>b. /\ ~IsAnswered(my, p)
      /\ \A k \in Number : OpenMsg(k) \in mx2 \/ k \in y2.wait => k # p
      /\ p \in x.alloc
  <2>1. CASE p \in y.wait /\ y2.wait = y.wait \ {p} /\ mx2 = mx
    <3>1. OpenMsg(p) \notin mx
      BY <2>1, MessageFields DEF OneWay, Direction, Announced, Announces
    <3> QED BY <2>1, <3>1 DEF OneWay, Direction, Known, AtMostOne
  <2>2. CASE OpenMsg(p) \in mx /\ y2.wait = y.wait /\ mx2 = mx \ {OpenMsg(p)}
    <3>1. p \notin y.wait /\ p \in x.alloc
      BY <2>2, MessageFields DEF OneWay, Direction, Announced, Known, Announces
    <3> QED BY <2>2, <3>1 DEF OneWay, Direction, AtMostOne
  <2> QED BY <2>1, <2>2
<1>c. \A k : IsAnswered(my2, k) <=> k = p \/ IsAnswered(my, k)
  BY <1>a DEF IsAnswered
<1>d. mx2 \subseteq mx /\ y2.wait \subseteq y.wait
      /\ \A k : k # p => /\ OpenMsg(k) \in mx => OpenMsg(k) \in mx2
                         /\ k \in y.wait => k \in y2.wait
  BY MessageFields
<1>1. WellFormed(mx2)
  BY <1>d DEF OneWay, Direction, WellFormed
<1>2. Known(x, y2, mx2, my2)
  <2>1. \A c \in y2.chan : c[2] \in x.alloc
    BY <1>b DEF OneWay, Direction, Known
  <2> QED BY <1>b, <1>c, <1>d, <2>1 DEF OneWay, Direction, Known
<1>3. Announced(y2, mx2)
  <2>1. \A k \in mx2, j \in Number : Announces(k, j) => \A c \in y2.chan : c[2] # j
    BY <1>d DEF OneWay, Direction, Announced
  <2> QED BY <1>d, <2>1 DEF OneWay, Direction, Announced
<1>4. AtMostOne(y2, mx2, my2)
  <2>1. \A k \in my, j \in Number : Answers(k, j) => j # p
    BY <1>b DEF IsAnswered
  <2>2. \A h, k \in my2, j \in Number : Answers(h, j) /\ Answers(k, j) => h = k
    BY <1>a, <2>1 DEF OneWay, Direction, AtMostOne
  <2> QED BY <1>b, <1>c, <1>d, <2>2 DEF OneWay, Direction, AtMostOne
<1>5. Opened(x, mx2)
  BY <1>d DEF OneWay, Direction, Opened
<1>7. Coming(x, y, mx, my) => Coming(x, y2, mx2, my2)
  BY <1>c, <1>d DEF Coming
<1>8. Agreed(x, y, my) => Agreed(x, y2, my2)
  BY MessageFields DEF Agreed
<1>9. x.name \in g /\ Queued(x, mx) => Queued(x, mx2)
  BY DEF Queued
<1>10. Expected(x, y, my) => Expected(x, y2, my2)
  BY <1>c, <1>d DEF Expected, OneWay, Direction, Opened
<1>11. y.name \in g => ~Forgotten(y, my)
  BY DEF Forgotten
<1>12. m \notin my
  BY <1>a, <1>b DEF IsAnswered
<1> QED BY <1>1, <1>2, <1>3, <1>4, <1>5, <1>7, <1>8, <1>9, <1>10, <1>11, <1>12
        DEF OneWay, Direction, Guarded

\* handle_open: the open p of x arrives and waits for the application.
LEMMA ResponderTakes ==
    ASSUME NEW x, NEW y, NEW y2, NEW mx, NEW my, NEW g, NEW p \in Number,
           OneWay(x, y, mx, my, g), y2.name = y.name,
           OpenMsg(p) \in mx, y2.wait = y.wait \cup {p}, y2.chan = y.chan,
           x.name \notin g, y.name \notin g
    PROVE  OneWay(x, y2, mx \ {OpenMsg(p)}, my, g)
<1> DEFINE mx2 == mx \ {OpenMsg(p)}
<1>a. \A k : OpenMsg(k) \in mx2 <=> k # p /\ OpenMsg(k) \in mx
  BY MessageFields
<1>b. \A m \in mx2 : ~Announces(m, p)
  BY MessageFields DEF OneWay, Direction, Announced, Announces
<1>1. WellFormed(mx2)
  BY DEF OneWay, Direction, WellFormed
<1>2. Known(x, y2, mx2, my)
  BY MessageFields DEF OneWay, Direction, Known, Announces
<1>3. Announced(y2, mx2)
  BY <1>b DEF OneWay, Direction, Announced
<1>4. AtMostOne(y2, mx2, my)
  BY <1>a DEF OneWay, Direction, AtMostOne
<1>5. Opened(x, mx2)
  BY <1>a DEF OneWay, Direction, Opened
<1>7. Coming(x, y, mx, my) => Coming(x, y2, mx2, my)
  BY <1>a DEF Coming
<1>8. Agreed(x, y, my) => Agreed(x, y2, my)
  BY DEF Agreed
<1>10. Expected(x, y, my) => Expected(x, y2, my)
  BY DEF Expected, OneWay, Direction, Opened
<1> QED BY <1>1, <1>2, <1>3, <1>4, <1>5, <1>7, <1>8, <1>10
        DEF OneWay, Direction, Guarded

\* An answer of x's to an open of y's arrives: y establishes the channel that
\* x has, or nothing.
LEMMA ResponderHears ==
    ASSUME NEW x, NEW y, NEW y2, NEW mx, NEW my, NEW g, NEW m \in mx,
           OneWay(x, y, mx, my, g), y2.name = y.name, m.kind # "OPEN",
           y2.wait = y.wait, y.name \notin g,
           \/ y2.chan = y.chan
           \/ \E n, p \in Number : /\ m = ConfirmMsg(n, p)
                                   /\ y2.chan = y.chan \cup {<<n, p>>}
                                   /\ <<p, n>> \in x.chan
    PROVE  OneWay(x, y2, mx \ {m}, my, g)
<1> DEFINE mx2 == mx \ {m}
<1>a. \A k : OpenMsg(k) \in mx2 <=> OpenMsg(k) \in mx
  BY MessageFields
<1>b. \A c \in y2.chan : \/ c \in y.chan
                         \/ \E n, p \in Number : /\ m = ConfirmMsg(n, p) /\ c = <<n, p>>
                                                 /\ <<p, n>> \in x.chan
  OBVIOUS
<1>c. \A c \in y2.chan : c \in y.chan \/ (Announces(m, c[2]) /\ c[2] \in Number
                                          /\ <<c[2], c[1]>> \in x.chan)
  <2> SUFFICES ASSUME NEW c \in y2.chan, c \notin y.chan
               PROVE  Announces(m, c[2]) /\ c[2] \in Number /\ <<c[2], c[1]>> \in x.chan
    OBVIOUS
  <2>1. PICK n, p \in Number : m = ConfirmMsg(n, p) /\ c = <<n, p>> /\ <<p, n>> \in x.chan
    BY <1>b
  <2>2. c[1] = n /\ c[2] = p
    BY <2>1
  <2>3. Announces(m, p)
    BY <2>1, MessageFields DEF Announces
  <2> QED BY <2>1, <2>2, <2>3
<1>1. WellFormed(mx2)
  BY DEF OneWay, Direction, WellFormed
<1>2. Known(x, y2, mx2, my)
  BY <1>c DEF OneWay, Direction, Known
<1>3. Announced(y2, mx2)
  BY <1>c DEF OneWay, Direction, Announced, Announces
<1>4. AtMostOne(y2, mx2, my)
  BY <1>a DEF OneWay, Direction, AtMostOne
<1>5. Opened(x, mx2)
  BY <1>a DEF OneWay, Direction, Opened
<1>7. Coming(x, y, mx, my) => Coming(x, y2, mx2, my)
  BY <1>a DEF Coming
<1>8. Agreed(x, y, my) => Agreed(x, y2, my)
  BY <1>c DEF Agreed
<1>9. Queued(x, mx) => Queued(x, mx2)
  BY <1>a DEF Queued
<1>10. Expected(x, y, my) => Expected(x, y2, my)
  BY DEF Expected
<1> QED BY <1>1, <1>2, <1>3, <1>4, <1>5, <1>7, <1>8, <1>9, <1>10
        DEF OneWay, Direction, Guarded

\* transport_lost: y forgets what it had of x.
LEMMA ResponderLost ==
    ASSUME NEW x, NEW y, NEW y2, NEW mx, NEW my, NEW g, NEW g2,
           OneWay(x, y, mx, my, g), y2.name = y.name, "up" \notin g,
           g2 = g \cup {y.name}, x.name # y.name, y.name # "up",
           y2.wait = {}, y2.chan = {}
    PROVE  OneWay(x, y2, mx, {}, g2)
<1>a. \A k : ~IsAnswered({}, k)
  BY DEF IsAnswered
<1>2. Known(x, y2, mx, {})
  BY <1>a DEF OneWay, Direction, Known
<1>3. Announced(y2, mx)
  BY DEF OneWay, Direction, Announced
<1>4. AtMostOne(y2, mx, {})
  BY <1>a DEF OneWay, Direction, AtMostOne
<1>10. Expected(x, y2, {})
  BY <1>a DEF Expected
<1>11. Forgotten(y2, {})
  BY DEF Forgotten
<1> QED BY <1>2, <1>3, <1>4, <1>10, <1>11 DEF OneWay, Direction, Guarded

----------------------------------------------------------------------------
(* Both directions, for every event of x.                                  *)

\* Nothing tells the two sides apart.
LEMMA Turned ==
    ASSUME NEW x, NEW y, NEW mx, NEW my, NEW g, BothWays(x, y, mx, my, g)
    PROVE  BothWays(y, x, my, mx, g)
BY DEF BothWays

\* open: x queues an OPEN with a number it never used.
LEMMA BothOpen ==
    ASSUME NEW x, NEW x2, NEW y, NEW mx, NEW my, NEW g, NEW n \in Number,
           BothWays(x, y, mx, my, g), x2.name = x.name,
           n \notin x.alloc, x2.alloc = x.alloc \cup {n}, x2.pend = x.pend \cup {n},
           x2.wait = x.wait, x2.chan = x.chan, x2.tomb = x.tomb, x2.canc = x.canc
    PROVE  /\ OpenMsg(n) \notin mx
           /\ BothWays(x2, y, mx \cup {OpenMsg(n)}, my, g)
<1>1. OneWay(x, y, mx, my, g) /\ OneWay(y, x, my, mx, g)
  BY DEF BothWays
<1>2. OneWay(x2, y, mx \cup {OpenMsg(n)}, my, g)
  BY <1>1, OpenerOpens
<1>3. OneWay(y, x2, my, mx \cup {OpenMsg(n)}, g)
  BY <1>1, ResponderOpens
<1>4. OpenMsg(n) \notin mx
  BY <1>1, MessageFields DEF OneWay, Direction, Known, Announces
<1> QED BY <1>2, <1>3, <1>4 DEF BothWays

\* accept: x answers a waiting open with a number it never used.
LEMMA BothAccept ==
    ASSUME NEW x, NEW x2, NEW y, NEW mx, NEW my, NEW g, NEW n \in Number, NEW p,
           BothWays(x, y, mx, my, g), x2.name = x.name,
           n \notin x.alloc, x2.alloc = x.alloc \cup {n}, x2.pend = x.pend,
           p \in x.wait, x2.wait = x.wait \ {p},
           x2.chan = x.chan \cup {<<n, p>>}, x2.tomb = x.tomb, x2.canc = x.canc
    PROVE  /\ ConfirmMsg(p, n) \notin mx
           /\ BothWays(x2, y, mx \cup {ConfirmMsg(p, n)}, my, g)
<1>1. OneWay(x, y, mx, my, g) /\ OneWay(y, x, my, mx, g)
  BY DEF BothWays
<1>2. x.wait \subseteq Number /\ p \in Number
  BY DEF BothWays, OneWay, Direction, Known
<1>3. OneWay(x2, y, mx \cup {ConfirmMsg(p, n)}, my, g)
  BY <1>1, <1>2, OpenerAccepts
<1>4. ConfirmMsg(p, n) \notin mx /\ OneWay(y, x2, my, mx \cup {ConfirmMsg(p, n)}, g)
  BY <1>1, <1>2, ResponderAnswers
<1> QED BY <1>3, <1>4 DEF BothWays

\* refuse: x answers a waiting open with a failure.
LEMMA BothRefuse ==
    ASSUME NEW x, NEW x2, NEW y, NEW mx, NEW my, NEW g, NEW p,
           BothWays(x, y, mx, my, g), x2.name = x.name,
           x2.alloc = x.alloc, x2.pend = x.pend,
           p \in x.wait, x2.wait = x.wait \ {p},
           x2.chan = x.chan, x2.tomb = x.tomb, x2.canc = x.canc
    PROVE  /\ FailureMsg(p) \notin mx
           /\ BothWays(x2, y, mx \cup {FailureMsg(p)}, my, g)
<1>1. OneWay(x, y, mx, my, g) /\ OneWay(y, x, my, mx, g)
  BY DEF BothWays
<1>2. x.wait \subseteq Number /\ p \in Number
  BY DEF BothWays, OneWay, Direction, Known
<1>3. OneWay(x2, y, mx \cup {FailureMsg(p)}, my, g)
  BY <1>1, <1>2, OpenerAside
<1>4. FailureMsg(p) \notin mx /\ OneWay(y, x2, my, mx \cup {FailureMsg(p)}, g)
  BY <1>1, <1>2, ResponderAnswers
<1> QED BY <1>3, <1>4 DEF BothWays

\* handle_open at a limit.
LEMMA BothRefuseAtLimit ==
    ASSUME NEW x, NEW x2, NEW y, NEW mx, NEW my, NEW g, NEW p \in Number,
           BothWays(x, y, mx, my, g), x2.name = x.name, "up" \in g,
           OpenMsg(p) \in my, x2.alloc = x.alloc, x2.pend = x.pend,
           x2.wait = x.wait, x2.chan = x.chan, x2.tomb = x.tomb, x2.canc = x.canc
    PROVE  /\ FailureMsg(p) \notin mx
           /\ BothWays(x2, y, mx \cup {FailureMsg(p)}, my \ {OpenMsg(p)}, g)
<1>1. OneWay(x, y, mx, my, g) /\ OneWay(y, x, my, mx, g)
      /\ x.name \notin g /\ y.name \notin g
  BY DEF BothWays
<1>2. x.wait \subseteq Number
  BY DEF BothWays, OneWay, Direction, Known
<1>3. OneWay(x2, y, mx \cup {FailureMsg(p)}, my \ {OpenMsg(p)}, g)
  BY <1>1, <1>2, OpenerAside
<1>4. /\ FailureMsg(p) \notin mx
      /\ OneWay(y, x2, my \ {OpenMsg(p)}, mx \cup {FailureMsg(p)}, g)
  BY <1>1, <1>2, ResponderAnswers
<1> QED BY <1>3, <1>4 DEF BothWays

\* handle_open below the limits: the open of y waits at x.
LEMMA BothTake ==
    ASSUME NEW x, NEW x2, NEW y, NEW mx, NEW my, NEW g, NEW p \in Number,
           BothWays(x, y, mx, my, g), x2.name = x.name, "up" \in g,
           OpenMsg(p) \in my, x2.alloc = x.alloc, x2.pend = x.pend,
           x2.wait = x.wait \cup {p}, x2.chan = x.chan, x2.tomb = x.tomb,
           x2.canc = x.canc
    PROVE  BothWays(x2, y, mx, my \ {OpenMsg(p)}, g)
<1>1. OneWay(x, y, mx, my, g) /\ OneWay(y, x, my, mx, g)
      /\ x.name \notin g /\ y.name \notin g
  BY DEF BothWays
<1>2. OneWay(x2, y, mx, my \ {OpenMsg(p)}, g)
  BY <1>1, OpenerAside
<1>3. OneWay(y, x2, my \ {OpenMsg(p)}, mx, g)
  BY <1>1, ResponderTakes
<1> QED BY <1>2, <1>3 DEF BothWays

\* An answer arrives: x establishes the channel, drops the open, takes note
\* of the late reply, or has forgotten.
LEMMA BothHear ==
    ASSUME NEW x, NEW x2, NEW y, NEW mx, NEW my, NEW g, NEW m \in my, NEW n \in Number,
           BothWays(x, y, mx, my, g), x2.name = x.name, "up" \in g, Answers(m, n),
           x2.alloc = x.alloc, x2.pend = x.pend \ {n}, x2.wait = x.wait,
           x2.canc = x.canc, Buried(x2),
           \A k : k # n /\ Knows(x, k) => Knows(x2, k),
           \/ \E p \in Number : m = ConfirmMsg(n, p) /\ x2.chan = x.chan \cup {<<n, p>>}
           \/ m.kind = "FAILURE" /\ x2.chan = x.chan
           \/ x2.chan = x.chan /\ \E j \in DOMAIN x.canc : x.canc[j] = n
    PROVE  BothWays(x2, y, mx, my \ {m}, g)
<1>1. OneWay(x, y, mx, my, g) /\ OneWay(y, x, my, mx, g)
      /\ x.name \notin g /\ y.name \notin g
      /\ x.pend \subseteq Number /\ x2.pend \subseteq Number /\ y.wait \subseteq Number
  BY DEF BothWays, OneWay, Direction, Known
<1>2. \A p : m = ConfirmMsg(n, p) =>
         <<n, p>> \in x2.chan \/ \E j \in DOMAIN x.canc : x.canc[j] = n
  BY MessageFields
<1>3. x.chan \subseteq x2.chan
  OBVIOUS
<1>4. OneWay(x2, y, mx, my \ {m}, g)
  BY <1>1, <1>2, <1>3, OpenerAnswered
<1>5. \A p \in Number : m = ConfirmMsg(n, p) => <<p, n>> \in y.chan
  BY <1>1 DEF OneWay, Guarded, Agreed
<1>6. \/ x2.chan = x.chan
      \/ \E k, p \in Number : /\ m = ConfirmMsg(k, p) /\ x2.chan = x.chan \cup {<<k, p>>}
                              /\ <<p, k>> \in y.chan
  BY <1>5
<1>7. m.kind # "OPEN"
  BY DEF Answers
<1>8. OneWay(y, x2, my \ {m}, mx, g)
  BY <1>1, <1>6, <1>7, ResponderHears
<1> QED BY <1>1, <1>4, <1>8 DEF BothWays

\* transport_lost: x forgets everything but numbers and tombstones.
LEMMA BothLost ==
    ASSUME NEW x, NEW x2, NEW y, NEW mx, NEW my, NEW g,
           BothWays(x, y, mx, my, g), x2.name = x.name, "up" \notin g,
           x.name # y.name, x.name # "up",
           x2.alloc = x.alloc, x2.pend = {}, x2.wait = {}, x2.chan = {},
           x2.tomb = x.tomb, x2.canc = x.canc
    PROVE  BothWays(x2, y, {}, my, g \cup {x.name})
<1>1. OneWay(x, y, mx, my, g) /\ OneWay(y, x, my, mx, g)
  BY DEF BothWays
<1>2. OneWay(x2, y, {}, my, g \cup {x.name})
  BY <1>1, OpenerLost
<1>3. OneWay(y, x2, my, {}, g \cup {x.name})
  BY <1>1, ResponderLost
<1>4. "up" \notin g \cup {x.name}
  OBVIOUS
<1> QED BY <1>2, <1>3, <1>4 DEF BothWays

\* The transport is lost: nobody knows yet.
LEMMA LoseOneWay ==
    ASSUME NEW x, NEW y, NEW mx, NEW mx2, NEW my, NEW my2, NEW g,
           OneWay(x, y, mx, my, g), x.name \notin g, y.name \notin g,
           mx2 \subseteq mx, my2 \subseteq my
    PROVE  OneWay(x, y, mx2, my2, {})
<1>a. \A k : IsAnswered(my2, k) => IsAnswered(my, k)
  BY DEF IsAnswered
<1>1. WellFormed(mx2)
  BY DEF OneWay, Direction, WellFormed
<1>2. Known(x, y, mx2, my2)
  BY <1>a DEF OneWay, Direction, Known
<1>3. Announced(y, mx2)
  BY DEF OneWay, Direction, Announced
<1>4. AtMostOne(y, mx2, my2)
  BY <1>a DEF OneWay, Direction, AtMostOne
<1>5. Opened(x, mx2)
  BY DEF OneWay, Direction, Opened
<1>6. Expected(x, y, my2)
  BY <1>a DEF OneWay, Guarded, Expected
<1> QED BY <1>1, <1>2, <1>3, <1>4, <1>5, <1>6 DEF OneWay, Direction, Guarded

\* What was in flight is gone, and neither side knows yet.
LEMMA BothLose ==
    ASSUME NEW x, NEW y, NEW mx, NEW mx2, NEW my, NEW my2, NEW g,
           BothWays(x, y, mx, my, g), "up" \in g, mx2 \subseteq mx, my2 \subseteq my
    PROVE  BothWays(x, y, mx2, my2, {})
BY LoseOneWay DEF BothWays

\* The transport is back, both having been told.
LEMMA BackOneWay ==
    ASSUME NEW x, NEW y, NEW mx, NEW my, NEW g,
           OneWay(x, y, mx, my, g), x.name \in g, y.name \in g,
           x.name # "up", y.name # "up"
    PROVE  OneWay(x, y, mx, my, {"up"})
<1>1. Queued(x, mx) /\ Forgotten(y, my)
  BY DEF OneWay, Guarded
<1>a. \A k : ~IsAnswered(my, k)
  BY <1>1 DEF Forgotten, IsAnswered, Answers
<1>2. Coming(x, y, mx, my)
  BY <1>1 DEF Queued, Coming
<1>3. Agreed(x, y, my)
  BY <1>1, MessageFields DEF Forgotten, Agreed
<1>4. Expected(x, y, my)
  BY <1>1, <1>a DEF Forgotten, Expected
<1>5. x.name \notin {"up"} /\ y.name \notin {"up"}
  OBVIOUS
<1> QED BY <1>2, <1>3, <1>4, <1>5 DEF OneWay, Guarded

\* Both were told: whatever is pending is still to be sent.
LEMMA BothBack ==
    ASSUME NEW x, NEW y, NEW mx, NEW my, NEW g,
           BothWays(x, y, mx, my, g), x.name \in g, y.name \in g,
           x.name # "up", y.name # "up"
    PROVE  BothWays(x, y, mx, my, {"up"})
BY BackOneWay DEF BothWays

----------------------------------------------------------------------------
(* Tombstones.                                                             *)

Bury(t, n) == IF Len(t) < MaxTombstones THEN Append(t, n) ELSE Tail(Append(t, n))
Cancels(x, x2, n) ==
    /\ x2.pend = x.pend \ {n}
    /\ x2.canc = Append(x.canc, n)
    /\ x2.tomb = Bury(x.tomb, n)

\* cancel: the oldest tombstone is dropped when there are too many, and then
\* as many have been cancelled since.
LEMMA CancelBuries ==
    ASSUME NEW x, NEW x2, NEW n \in Number, Buried(x), Len(x.tomb) <= MaxTombstones,
           Cancels(x, x2, n)
    PROVE  /\ Buried(x2)
           /\ \A k : Knows(x, k) => Knows(x2, k)
           /\ \A k : (\E j \in DOMAIN x.canc : x.canc[j] = k) =>
                         \E j \in DOMAIN x2.canc : x2.canc[j] = k
<1> DEFINE c == x.canc  c2 == x2.canc  t == x.tomb  t2 == x2.tomb
           u == Append(t, n)
           L == Len(t)  M == Len(c)
<1>0. MaxTombstones \in Nat
  BY PairConstants
<1>b. /\ x2.pend = x.pend \ {n} /\ x2.canc = Append(x.canc, n)
      /\ x2.tomb = Bury(x.tomb, n)
  BY DEF Cancels
<1>1. /\ c \in Seq(Number) /\ DOMAIN c = 1..M /\ M \in Nat
      /\ t \in Seq(Number) /\ DOMAIN t = 1..L /\ L \in Nat
  BY LenProperties DEF Buried
<1>2. /\ c2 \in Seq(Number) /\ Len(c2) = M + 1 /\ DOMAIN c2 = 1..(M + 1)
      /\ \A k \in 1..M : c2[k] = c[k]
      /\ c2[M + 1] = n
  BY <1>1, <1>b, AppendProperties, LenProperties
<1>3. /\ u \in Seq(Number) /\ Len(u) = L + 1 /\ DOMAIN u = 1..(L + 1)
      /\ \A k \in 1..L : u[k] = t[k]
      /\ u[L + 1] = n
  BY <1>1, AppendProperties, LenProperties
<1>a. /\ \A j \in 1..L : \E k \in 1..M : c[k] = t[j] /\ k <= M - (L - j)
      /\ t2 = IF L < MaxTombstones THEN u ELSE Tail(u)
      /\ L <= MaxTombstones
      /\ Len(c2) = M + 1
  BY <1>1, <1>2, <1>b DEF Buried, Bury
<1> HIDE DEF c, c2, t, t2, u, L, M
<1>4. \A j \in 1..(L + 1) : \E k \in 1..(M + 1) :
         c2[k] = u[j] /\ k <= M + 1 - (L + 1 - j)
  <2> TAKE j \in 1..(L + 1)
  <2>1. CASE j = L + 1
    <3>1. M + 1 \in 1..(M + 1) /\ M + 1 <= M + 1 - (L + 1 - j)
      BY <1>1, <2>1
    <3> QED BY <1>2, <1>3, <2>1, <3>1
  <2>2. CASE j # L + 1
    <3>1. j \in 1..L
      BY <1>1, <2>2
    <3>2. PICK k \in 1..M : c[k] = t[j] /\ k <= M - (L - j)
      BY <1>a, <3>1
    <3>3. k \in 1..(M + 1) /\ c2[k] = c[k] /\ u[j] = t[j]
      BY <1>1, <1>2, <1>3, <3>1, <3>2
    <3>4. k <= M + 1 - (L + 1 - j)
      BY <1>1, <3>1, <3>2
    <3> QED BY <3>2, <3>3, <3>4
  <2> QED BY <2>1, <2>2
<1>5. /\ \A k \in DOMAIN c : k \in DOMAIN c2 /\ c2[k] = c[k]
      /\ \A k : LongAgo(x, k) => LongAgo(x2, k)
  <2>1. \A k \in 1..M : k \in DOMAIN c2 /\ c2[k] = c[k]
    BY <1>1, <1>2
  <2>2. \A k \in 1..(M - MaxTombstones) : k \in 1..M /\ k \in 1..(Len(c2) - MaxTombstones)
    BY <1>0, <1>1, <1>2
  <2> QED BY <1>1, <2>1, <2>2 DEF LongAgo, c, c2, M
<1>6. CASE L < MaxTombstones
  <2>1. t2 = u
    BY <1>6, <1>a
  <2>2. \A k : (\E j \in DOMAIN t : t[j] = k) \/ k = n => \E j \in DOMAIN t2 : t2[j] = k
    <3>1. \A j \in 1..L : j \in 1..(L + 1)
      BY <1>1
    <3>2. L + 1 \in 1..(L + 1)
      BY <1>1
    <3> QED BY <1>1, <1>3, <2>1, <3>1, <3>2
  <2>3. \A k : Knows(x, k) => Knows(x2, k)
    BY <1>5, <1>b, <2>2 DEF Knows, t, t2
  <2>4. Buried(x2)
    <3>1. ASSUME NEW j \in DOMAIN t2
          PROVE  \E k \in DOMAIN c2 : c2[k] = t2[j] /\ k <= Len(c2) - (Len(t2) - j)
      <4>1. PICK k \in 1..(M + 1) : c2[k] = u[j] /\ k <= M + 1 - (L + 1 - j)
        BY <1>3, <1>4, <2>1
      <4>2. k \in DOMAIN c2 /\ c2[k] = t2[j]
        BY <1>2, <2>1, <4>1
      <4>3. k <= Len(c2) - (Len(t2) - j)
        <5>1. Len(c2) = M + 1 /\ Len(t2) = L + 1
          BY <1>2, <1>3, <2>1
        <5>2. j \in 1..(L + 1) /\ M \in Nat /\ L \in Nat
          BY <1>1, <1>3, <2>1
        <5> QED BY <4>1, <5>1, <5>2
      <4> QED BY <4>2, <4>3
    <3> QED BY <1>2, <1>3, <2>1, <3>1 DEF Buried, c2, t2
  <2> QED BY <1>5, <2>3, <2>4 DEF c, c2
<1>7. CASE ~(L < MaxTombstones)
  <2>1. L = MaxTombstones /\ t2 = Tail(u)
    BY <1>0, <1>1, <1>7, <1>a
  <2>2. /\ t2 \in Seq(Number) /\ Len(t2) = L /\ DOMAIN t2 = 1..L
        /\ \A j \in 1..L : t2[j] = u[j + 1]
    <3>1. u # <<>>
      <4>1. L + 1 # 0
        BY <1>1
      <4> QED BY <1>3, <4>1, EmptySeq
    <3>2. Tail(u) \in Seq(Number) /\ Len(Tail(u)) = Len(u) - 1
          /\ \A j \in 1..Len(Tail(u)) : Tail(u)[j] = u[j + 1]
      BY <1>3, <3>1, HeadTailProperties
    <3>3. DOMAIN t2 = 1..Len(t2)
      BY <2>1, <3>2, LenProperties
    <3> QED BY <1>1, <1>3, <2>1, <3>2, <3>3
  <2>3. Buried(x2)
    <3>1. ASSUME NEW j \in DOMAIN t2
          PROVE  \E k \in DOMAIN c2 : c2[k] = t2[j] /\ k <= Len(c2) - (Len(t2) - j)
      <4>1. j + 1 \in 1..(L + 1) /\ L + 1 - (j + 1) = L - j
        <5>1. j \in 1..L
          BY <2>2
        <5> QED BY <1>1, <5>1
      <4>2. PICK k \in 1..(M + 1) : c2[k] = u[j + 1] /\ k <= M + 1 - (L + 1 - (j + 1))
        BY <1>4, <4>1
      <4>3. k \in DOMAIN c2 /\ c2[k] = t2[j]
        BY <1>2, <2>2, <4>2
      <4>4. k <= Len(c2) - (Len(t2) - j)
        <5>1. Len(c2) = M + 1 /\ Len(t2) = L
          BY <1>2, <2>2
        <5>2. j \in 1..L /\ M \in Nat /\ L \in Nat
          BY <1>1, <2>2
        <5> QED BY <4>1, <4>2, <5>1, <5>2
      <4> QED BY <4>3, <4>4
    <3> QED BY <1>2, <2>2, <3>1 DEF Buried, c2, t2
  <2>4. ASSUME NEW j \in 1..L
        PROVE  Knows(x2, t[j])
    <3>1. CASE j = 1
      <4>1. PICK k \in 1..M : c[k] = t[1] /\ k <= M - (L - 1)
        BY <1>a, <3>1
      <4>2. k \in 1..(Len(c2) - MaxTombstones) /\ c2[k] = t[1]
        BY <1>0, <1>1, <1>2, <2>1, <4>1
      <4> QED BY <3>1, <4>2 DEF Knows, LongAgo, c2
    <3>2. CASE j # 1
      <4>1. j - 1 \in 1..L /\ t2[j - 1] = u[j - 1 + 1] /\ j - 1 + 1 = j /\ u[j] = t[j]
        BY <1>1, <1>3, <2>2, <3>2
      <4> QED BY <2>2, <4>1 DEF Knows, t2
    <3> QED BY <3>1, <3>2
  <2>5. Knows(x2, n)
    <3>1. CASE L = 0
      <4>1. M + 1 \in 1..(Len(c2) - MaxTombstones)
        BY <1>0, <1>1, <1>2, <2>1, <3>1
      <4> QED BY <1>2, <4>1 DEF Knows, LongAgo, c2
    <3>2. CASE L # 0
      <4>1. L \in DOMAIN t2 /\ t2[L] = n
        BY <1>1, <1>3, <2>2, <3>2
      <4> QED BY <4>1 DEF Knows, t2
    <3> QED BY <3>1, <3>2
  <2>6. \A k : Knows(x, k) => Knows(x2, k)
    <3> SUFFICES ASSUME NEW k, Knows(x, k) PROVE Knows(x2, k)
      OBVIOUS
    <3>1. CASE k \in x.pend
      BY <1>b, <2>5, <3>1 DEF Knows
    <3>2. CASE \E j \in DOMAIN t : t[j] = k
      BY <1>1, <2>4, <3>2
    <3>3. CASE LongAgo(x, k)
      BY <1>5, <3>3 DEF Knows
    <3> QED BY <3>1, <3>2, <3>3 DEF Knows, t
  <2> QED BY <1>5, <2>3, <2>6 DEF c, c2
<1> QED BY <1>6, <1>7

\* The k-th tombstone is taken out.
Taken(t, t2, k) ==
    /\ k \in DOMAIN t
    /\ Len(t2) = Len(t) - 1
    /\ \A i \in DOMAIN t2 :
          IF i < k THEN i \in DOMAIN t /\ t2[i] = t[i]
          ELSE i + 1 \in DOMAIN t /\ t2[i] = t[i + 1]

\* A late reply: a tombstone is consumed and the others stay.
LEMMA LateConsumes ==
    ASSUME NEW x, NEW x2, NEW k, Buried(x),
           x2.pend = x.pend, x2.canc = x.canc, x2.tomb \in Seq(Number),
           Taken(x.tomb, x2.tomb, k)
    PROVE  /\ Buried(x2)
           /\ \A n : n # x.tomb[k] /\ Knows(x, n) => Knows(x2, n)
           /\ \E j \in DOMAIN x.canc : x.canc[j] = x.tomb[k]
<1> USE DEF Taken
<1> DEFINE c == x.canc  t == x.tomb  t2 == x2.tomb  L == Len(t)  M == Len(c)
<1>1. /\ c \in Seq(Number) /\ DOMAIN c = 1..M /\ M \in Nat
      /\ t \in Seq(Number) /\ DOMAIN t = 1..L /\ L \in Nat
      /\ DOMAIN t2 = 1..(L - 1) /\ k \in 1..L
  BY LenProperties DEF Buried
<1>2. ASSUME NEW i \in DOMAIN t2
      PROVE  \E j \in DOMAIN c : c[j] = t2[i] /\ j <= M - (L - 1 - i)
  <2>1. CASE i < k
    <3>1. PICK j \in DOMAIN c : c[j] = t[i] /\ j <= M - (L - i)
      BY <1>2, <2>1 DEF Buried
    <3>2. j <= M - (L - 1 - i)
      BY <1>1, <1>2, <3>1
    <3> QED BY <1>2, <2>1, <3>1, <3>2
  <2>2. CASE ~(i < k)
    <3>1. i + 1 \in DOMAIN t /\ t2[i] = t[i + 1]
      BY <1>2, <2>2
    <3>2. PICK j \in DOMAIN c : c[j] = t[i + 1] /\ j <= M - (L - (i + 1))
      BY <3>1 DEF Buried
    <3>3. j <= M - (L - 1 - i)
      BY <1>1, <1>2, <3>2
    <3> QED BY <3>1, <3>2, <3>3
  <2> QED BY <2>1, <2>2
<1>3. Buried(x2)
  BY <1>1, <1>2 DEF Buried
<1>4. ASSUME NEW i \in 1..L, i # k
      PROVE  \E j \in DOMAIN t2 : t2[j] = t[i]
  <2>1. CASE i < k
    BY <1>1, <1>4, <2>1
  <2>2. CASE ~(i < k)
    <3>1. i - 1 \in DOMAIN t2 /\ ~(i - 1 < k) /\ i - 1 + 1 = i
      BY <1>1, <1>4, <2>2
    <3> QED BY <3>1
  <2> QED BY <2>1, <2>2
<1>5. \A n : LongAgo(x2, n) <=> LongAgo(x, n)
  BY DEF LongAgo
<1>6. \A n : n # t[k] /\ Knows(x, n) => Knows(x2, n)
  BY <1>1, <1>4, <1>5 DEF Knows
<1>7. \E j \in DOMAIN c : c[j] = t[k]
  BY DEF Buried
<1> QED BY <1>3, <1>6, <1>7

\* cancel: the open is buried, and its answer still coming.
LEMMA BothCancel ==
    ASSUME NEW x, NEW x2, NEW y, NEW mx, NEW my, NEW g, NEW n \in Number,
           BothWays(x, y, mx, my, g), x2.name = x.name, Len(x.tomb) <= MaxTombstones,
           x2.alloc = x.alloc, x2.wait = x.wait, x2.chan = x.chan, Cancels(x, x2, n)
    PROVE  BothWays(x2, y, mx, my, g)
<1>1. OneWay(x, y, mx, my, g) /\ OneWay(y, x, my, mx, g) /\ Buried(x)
  BY DEF BothWays, OneWay, Direction
<1>2. /\ Buried(x2)
      /\ \A k : Knows(x, k) => Knows(x2, k)
      /\ \A k : (\E j \in DOMAIN x.canc : x.canc[j] = k) =>
                    \E j \in DOMAIN x2.canc : x2.canc[j] = k
  BY <1>1, CancelBuries
<1>a. x2.pend \subseteq x.pend
  BY DEF Cancels
<1>3. OneWay(x2, y, mx, my, g)
  BY <1>1, <1>2, <1>a, OpenerCancels
<1>4. OneWay(y, x2, my, mx, g)
  BY <1>1, ResponderOpens
<1> QED BY <1>3, <1>4, <1>a DEF BothWays

----------------------------------------------------------------------------
(* A stream of messages: what is in flight, then what is queued.           *)

Message == [kind : {"OPEN", "CONFIRMATION", "FAILURE"},
            sender : Number \cup {-1}, recipient : Number \cup {-1}]
Messages(s) == {s[i] : i \in DOMAIN s}
Distinct(s) == \A i, j \in DOMAIN s : s[i] = s[j] => i = j

\* The messages have the type of the queues.
LEMMA MessageTyped ==
    ASSUME NEW n \in Number, NEW p \in Number
    PROVE  OpenMsg(n) \in Message /\ ConfirmMsg(p, n) \in Message /\ FailureMsg(p) \in Message
BY DEF OpenMsg, ConfirmMsg, FailureMsg, Message

\* Which message is where in a stream.
LEMMA StreamParts ==
    ASSUME NEW S, NEW l \in Seq(S), NEW o \in Seq(S)
    PROVE  /\ l \o o \in Seq(S) /\ DOMAIN (l \o o) = 1..(Len(l) + Len(o))
           /\ Len(l) \in Nat /\ Len(o) \in Nat
           /\ DOMAIN l = 1..Len(l) /\ DOMAIN o = 1..Len(o)
           /\ \A i \in 1..(Len(l) + Len(o)) :
                 (l \o o)[i] = IF i <= Len(l) THEN l[i] ELSE o[i - Len(l)]
<1>1. /\ l \o o \in Seq(S) /\ Len(l \o o) = Len(l) + Len(o)
      /\ \A i \in 1..(Len(l) + Len(o)) :
            (l \o o)[i] = IF i <= Len(l) THEN l[i] ELSE o[i - Len(l)]
  BY ConcatProperties
<1>2. /\ DOMAIN (l \o o) = 1..Len(l \o o) /\ DOMAIN l = 1..Len(l) /\ DOMAIN o = 1..Len(o)
      /\ Len(l) \in Nat /\ Len(o) \in Nat
  BY <1>1, LenProperties
<1> QED BY <1>1, <1>2

\* A message is queued.
LEMMA StreamQueue ==
    ASSUME NEW S, NEW l \in Seq(S), NEW o \in Seq(S), NEW m \in S
    PROVE  /\ Append(o, m) \in Seq(S)
           /\ Messages(l \o Append(o, m)) = Messages(l \o o) \cup {m}
           /\ Distinct(l \o o) /\ m \notin Messages(l \o o) =>
                 Distinct(l \o Append(o, m))
<1> DEFINE s == l \o o  o2 == Append(o, m)  t == l \o o2  N == Len(l) + Len(o)
<1>1. /\ o2 \in Seq(S) /\ Len(o2) = Len(o) + 1 /\ o2[Len(o) + 1] = m
      /\ \A i \in 1..Len(o) : o2[i] = o[i]
  BY AppendProperties
<1>2. /\ DOMAIN s = 1..N /\ Len(l) \in Nat /\ Len(o) \in Nat
      /\ \A i \in 1..N : s[i] = IF i <= Len(l) THEN l[i] ELSE o[i - Len(l)]
  BY StreamParts
<1>3. /\ DOMAIN t = 1..(Len(l) + Len(o2))
      /\ \A i \in 1..(Len(l) + Len(o2)) :
            t[i] = IF i <= Len(l) THEN l[i] ELSE o2[i - Len(l)]
  BY <1>1, StreamParts
<1> HIDE DEF s, t, o2
<1>4. DOMAIN t = 1..(N + 1) /\ N \in Nat
  BY <1>1, <1>2, <1>3
<1>5. t[N + 1] = m
  <2>1. N + 1 \in 1..(Len(l) + Len(o2)) /\ ~(N + 1 <= Len(l)) /\ N + 1 - Len(l) = Len(o) + 1
    BY <1>1, <1>2
  <2> QED BY <1>1, <1>3, <2>1
<1>6. \A i \in 1..N : t[i] = s[i]
  <2> TAKE i \in 1..N
  <2>1. i \in 1..(Len(l) + Len(o2))
    BY <1>1, <1>2
  <2>2. ~(i <= Len(l)) => i - Len(l) \in 1..Len(o)
    BY <1>2
  <2> QED BY <1>1, <1>2, <1>3, <2>1, <2>2
<1> HIDE DEF N
<1>7. \A i : i \in DOMAIN t <=> i \in DOMAIN s \/ i = N + 1
  BY <1>2, <1>4
<1>8. /\ N + 1 \notin DOMAIN s
      /\ \A i \in DOMAIN s : t[i] = s[i]
  BY <1>2, <1>4, <1>6
<1>9. Messages(t) = Messages(s) \cup {m}
  BY <1>5, <1>7, <1>8 DEF Messages
<1>10. Distinct(s) /\ m \notin Messages(s) => Distinct(t)
  BY <1>5, <1>7, <1>8 DEF Messages, Distinct
<1> QED BY <1>1, <1>9, <1>10 DEF s, t, o2

\* A message is delivered.
LEMMA StreamDeliver ==
    ASSUME NEW S, NEW l \in Seq(S), NEW o \in Seq(S), l # <<>>, Distinct(l \o o)
    PROVE  /\ Tail(l) \in Seq(S)
           /\ Head(l) \in Messages(l \o o)
           /\ Messages(Tail(l) \o o) = Messages(l \o o) \ {Head(l)}
           /\ Distinct(Tail(l) \o o)
<1> DEFINE s == l \o o  l2 == Tail(l)  t == l2 \o o  N == Len(l) + Len(o)
<1>1. /\ l2 \in Seq(S) /\ Len(l2) = Len(l) - 1
      /\ \A i \in 1..Len(l2) : l2[i] = l[i + 1]
      /\ Head(l) = l[1]
  BY HeadTailProperties
<1>2. /\ DOMAIN s = 1..N /\ Len(l) \in Nat /\ Len(o) \in Nat /\ DOMAIN l = 1..Len(l)
      /\ \A i \in 1..N : s[i] = IF i <= Len(l) THEN l[i] ELSE o[i - Len(l)]
  BY StreamParts
<1>3. /\ DOMAIN t = 1..(Len(l2) + Len(o))
      /\ \A i \in 1..(Len(l2) + Len(o)) :
            t[i] = IF i <= Len(l2) THEN l2[i] ELSE o[i - Len(l2)]
  BY <1>1, StreamParts
<1> HIDE DEF s, t, l2
<1>4. /\ Len(l) > 0 /\ DOMAIN t = 1..(N - 1) /\ N \in Nat
  <2>1. Len(l) # 0
    BY EmptySeq
  <2> QED BY <1>1, <1>2, <1>3, <2>1
<1>5. s[1] = Head(l) /\ 1 \in 1..N
  BY <1>1, <1>2, <1>4
<1>6. \A i \in 1..(N - 1) : t[i] = s[i + 1]
  <2> TAKE i \in 1..(N - 1)
  <2>1. i \in 1..(Len(l2) + Len(o)) /\ i + 1 \in 1..N
    BY <1>1, <1>2, <1>4
  <2>2. CASE i <= Len(l2)
    <3>1. i + 1 <= Len(l) /\ i \in 1..Len(l2)
      BY <1>1, <1>2, <2>2
    <3> QED BY <1>1, <1>2, <1>3, <2>1, <2>2, <3>1
  <2>3. CASE ~(i <= Len(l2))
    <3>1. ~(i + 1 <= Len(l)) /\ i + 1 - Len(l) = i - Len(l2)
      BY <1>1, <1>2, <2>3
    <3> QED BY <1>2, <1>3, <2>1, <2>3, <3>1
  <2> QED BY <2>2, <2>3
<1> HIDE DEF N
<1>7. \A i \in 1..N : i = 1 \/ (i - 1 \in 1..(N - 1) /\ i - 1 + 1 = i)
  BY <1>4
<1>8. \A i \in 1..(N - 1) : i + 1 \in 1..N /\ i + 1 # 1
  BY <1>4
<1>9. \A i, j \in 1..N : s[i] = s[j] => i = j
  BY <1>2 DEF Distinct, s
<1>10. Messages(s) = {s[i] : i \in 1..N} /\ Messages(t) = {t[i] : i \in 1..(N - 1)}
  BY <1>2, <1>4 DEF Messages
<1>11. Messages(t) = Messages(s) \ {Head(l)}
  <2>1. ASSUME NEW i \in 1..(N - 1) PROVE t[i] \in Messages(s) \ {Head(l)}
    <3>1. t[i] = s[i + 1] /\ i + 1 \in 1..N /\ i + 1 # 1
      BY <1>6, <1>8
    <3> QED BY <1>5, <1>9, <1>10, <3>1
  <2>2. ASSUME NEW i \in 1..N, s[i] # Head(l) PROVE s[i] \in Messages(t)
    <3>1. i - 1 \in 1..(N - 1) /\ i - 1 + 1 = i
      BY <1>5, <1>7, <2>2
    <3>2. t[i - 1] = s[i]
      BY <1>6, <3>1
    <3> QED BY <1>10, <3>1, <3>2
  <2> QED BY <1>10, <2>1, <2>2
<1>12. Distinct(t)
  <2>1. ASSUME NEW i \in 1..(N - 1), NEW j \in 1..(N - 1), t[i] = t[j] PROVE i = j
    <3>1. i + 1 = j + 1
      BY <1>6, <1>8, <1>9, <2>1
    <3> QED BY <1>4, <3>1
  <2> QED BY <1>4, <2>1 DEF Distinct
<1>13. Head(l) \in Messages(s)
  BY <1>5, <1>10
<1> QED BY <1>1, <1>11, <1>12, <1>13 DEF s, t, l2

\* A message is sent.
LEMMA StreamSend ==
    ASSUME NEW S, NEW l \in Seq(S), NEW o \in Seq(S), o # <<>>
    PROVE  /\ Append(l, Head(o)) \in Seq(S) /\ Tail(o) \in Seq(S)
           /\ Append(l, Head(o)) \o Tail(o) = l \o o
<1> DEFINE s == l \o o  l2 == Append(l, Head(o))  o2 == Tail(o)  t == l2 \o o2
<1>1. /\ Head(o) \in S /\ Head(o) = o[1] /\ o2 \in Seq(S) /\ Len(o2) = Len(o) - 1
      /\ \A i \in 1..Len(o2) : o2[i] = o[i + 1]
  BY HeadTailProperties
<1>2. /\ l2 \in Seq(S) /\ Len(l2) = Len(l) + 1 /\ l2[Len(l) + 1] = Head(o)
      /\ \A i \in 1..Len(l) : l2[i] = l[i]
  BY <1>1, AppendProperties
<1>3. /\ s \in Seq(S) /\ DOMAIN s = 1..(Len(l) + Len(o)) /\ Len(l) \in Nat /\ Len(o) \in Nat
      /\ \A i \in 1..(Len(l) + Len(o)) : s[i] = IF i <= Len(l) THEN l[i] ELSE o[i - Len(l)]
  BY StreamParts
<1>4. /\ t \in Seq(S) /\ DOMAIN t = 1..(Len(l2) + Len(o2))
      /\ \A i \in 1..(Len(l2) + Len(o2)) :
            t[i] = IF i <= Len(l2) THEN l2[i] ELSE o2[i - Len(l2)]
  BY <1>1, <1>2, StreamParts
<1> HIDE DEF s, t, l2, o2
<1>5. Len(l2) + Len(o2) = Len(l) + Len(o) /\ Len(o) # 0
  BY <1>1, <1>2, <1>3, EmptySeq
<1>6. ASSUME NEW i \in 1..(Len(l) + Len(o)) PROVE t[i] = s[i]
  <2>1. CASE i <= Len(l)
    <3>1. i \in 1..Len(l) /\ i <= Len(l2)
      BY <1>2, <1>3, <1>6, <2>1
    <3>2. s[i] = l[i]
      BY <1>3, <1>6, <2>1
    <3>3. t[i] = l2[i]
      BY <1>4, <1>5, <1>6, <3>1
    <3> QED BY <1>2, <3>1, <3>2, <3>3
  <2>2. CASE i = Len(l) + 1
    <3>1. s[i] = o[1]
      BY <1>3, <1>6, <2>2
    <3> QED BY <1>1, <1>2, <1>3, <1>4, <1>5, <1>6, <2>2, <3>1
  <2>3. CASE i > Len(l) + 1
    <3>1. i - Len(l2) \in 1..Len(o2) /\ i - Len(l2) + 1 = i - Len(l)
      BY <1>1, <1>2, <1>3, <1>6, <2>3
    <3>2. t[i] = o2[i - Len(l2)] /\ s[i] = o[i - Len(l)]
      BY <1>2, <1>3, <1>4, <1>5, <1>6, <2>3
    <3> QED BY <1>1, <3>1, <3>2
  <2> QED BY <1>3, <1>6, <2>1, <2>2, <2>3
<1>7. t = s
  <2>1. Len(t) = Len(s)
    BY <1>3, <1>4, <1>5, LenProperties
  <2>2. Len(t) = Len(l) + Len(o)
    BY <1>3, <2>1, StreamParts, LenProperties, ConcatProperties DEF s
  <2>3. \A i \in 1..Len(t) : t[i] = s[i]
    BY <1>6, <2>2
  <2> QED BY <1>3, <1>4, <2>1, <2>3, SeqEqual
<1> QED BY <1>1, <1>2, <1>7 DEF s, t, l2, o2

\* What was in flight is lost.
LEMMA StreamLose ==
    ASSUME NEW S, NEW l \in Seq(S), NEW o \in Seq(S), Distinct(l \o o)
    PROVE  /\ Messages(<<>> \o o) \subseteq Messages(l \o o)
           /\ Distinct(<<>> \o o)
<1> DEFINE s == l \o o
<1>1. <<>> \o o = o
  BY ConcatEmptySeq
<1>2. /\ DOMAIN s = 1..(Len(l) + Len(o)) /\ Len(l) \in Nat /\ Len(o) \in Nat
      /\ DOMAIN o = 1..Len(o)
      /\ \A i \in 1..(Len(l) + Len(o)) : s[i] = IF i <= Len(l) THEN l[i] ELSE o[i - Len(l)]
  BY StreamParts
<1> HIDE DEF s
<1>3. ASSUME NEW i \in DOMAIN o
      PROVE  i + Len(l) \in DOMAIN s /\ s[i + Len(l)] = o[i]
  <2>1. i + Len(l) \in 1..(Len(l) + Len(o)) /\ ~(i + Len(l) <= Len(l)) /\ i + Len(l) - Len(l) = i
    BY <1>2
  <2> QED BY <1>2, <2>1
<1>4. Messages(o) \subseteq Messages(s)
  BY <1>3 DEF Messages
<1>5. Distinct(o)
  <2>1. ASSUME NEW i \in DOMAIN o, NEW j \in DOMAIN o, o[i] = o[j] PROVE i = j
    <3>1. i + Len(l) = j + Len(l)
      BY <1>3, <2>1 DEF Distinct, s
    <3> QED BY <1>2, <3>1
  <2> QED BY <2>1 DEF Distinct
<1> QED BY <1>1, <1>4, <1>5 DEF s

\* The empty stream.
LEMMA StreamEmpty ==
    /\ <<>> \o <<>> = <<>>
    /\ Messages(<<>>) = {} /\ Distinct(<<>>)
BY DEF Messages, Distinct

----------------------------------------------------------------------------
(* The two sides with what is in flight (lx, ly) and what is queued (ox,   *)
(* oy), for every event of x.                                              *)

Pair(x, y, lx, ox, ly, oy, g) ==
    /\ lx \in Seq(Message) /\ ox \in Seq(Message)
    /\ ly \in Seq(Message) /\ oy \in Seq(Message)
    /\ Distinct(lx \o ox) /\ Distinct(ly \o oy)
    /\ BothWays(x, y, Messages(lx \o ox), Messages(ly \o oy), g)
    /\ "up" \notin g => lx = <<>> /\ ly = <<>>

\* Nothing tells the two sides apart, their streams included.
LEMMA PairTurned ==
    ASSUME NEW x, NEW y, NEW lx, NEW ox, NEW ly, NEW oy, NEW g,
           Pair(x, y, lx, ox, ly, oy, g)
    PROVE  Pair(y, x, ly, oy, lx, ox, g)
BY Turned DEF Pair

\* x queues the message m.
LEMMA PairQueues ==
    ASSUME NEW x, NEW x2, NEW y, NEW lx, NEW ox, NEW ly, NEW oy, NEW g, NEW m \in Message,
           Pair(x, y, lx, ox, ly, oy, g), m \notin Messages(lx \o ox),
           BothWays(x2, y, Messages(lx \o ox) \cup {m}, Messages(ly \o oy), g)
    PROVE  Pair(x2, y, lx, Append(ox, m), ly, oy, g)
<1>1. lx \in Seq(Message) /\ ox \in Seq(Message) /\ Distinct(lx \o ox)
  BY DEF Pair
<1>2. /\ Append(ox, m) \in Seq(Message)
      /\ Messages(lx \o Append(ox, m)) = Messages(lx \o ox) \cup {m}
      /\ Distinct(lx \o Append(ox, m))
  BY <1>1, StreamQueue
<1> QED BY <1>2 DEF Pair

\* x is handed the next message, and queues no other.
LEMMA PairReceives ==
    ASSUME NEW x, NEW x2, NEW y, NEW lx, NEW ox, NEW ly, NEW oy, NEW g,
           Pair(x, y, lx, ox, ly, oy, g), ly # <<>>,
           BothWays(x2, y, Messages(lx \o ox), Messages(ly \o oy) \ {Head(ly)}, g)
    PROVE  Pair(x2, y, lx, ox, Tail(ly), oy, g)
<1>1. ly \in Seq(Message) /\ oy \in Seq(Message) /\ Distinct(ly \o oy) /\ "up" \in g
  BY DEF Pair
<1>2. /\ Tail(ly) \in Seq(Message)
      /\ Messages(Tail(ly) \o oy) = Messages(ly \o oy) \ {Head(ly)}
      /\ Distinct(Tail(ly) \o oy)
  BY <1>1, StreamDeliver
<1> QED BY <1>1, <1>2 DEF Pair

\* The next message for x is one of the three kinds, and was under way.
LEMMA PairHead ==
    ASSUME NEW x, NEW y, NEW lx, NEW ox, NEW ly, NEW oy, NEW g,
           Pair(x, y, lx, ox, ly, oy, g), ly # <<>>
    PROVE  /\ Head(ly) \in Messages(ly \o oy) /\ "up" \in g
           /\ BothWays(x, y, Messages(lx \o ox), Messages(ly \o oy), g)
           /\ \/ \E n \in Number : Head(ly) = OpenMsg(n)
              \/ \E n, p \in Number : Head(ly) = ConfirmMsg(p, n)
              \/ \E p \in Number : Head(ly) = FailureMsg(p)
<1>1. /\ ly \in Seq(Message) /\ oy \in Seq(Message) /\ Distinct(ly \o oy) /\ "up" \in g
      /\ BothWays(x, y, Messages(lx \o ox), Messages(ly \o oy), g)
  BY DEF Pair
<1>2. Head(ly) \in Messages(ly \o oy)
  BY <1>1, StreamDeliver
<1>3. WellFormed(Messages(ly \o oy))
  BY <1>1 DEF BothWays, OneWay, Direction
<1> QED BY <1>1, <1>2, <1>3 DEF WellFormed

\* open
LEMMA PairOpen ==
    ASSUME NEW x, NEW x2, NEW y, NEW lx, NEW ox, NEW ly, NEW oy, NEW g, NEW n \in Number,
           Pair(x, y, lx, ox, ly, oy, g), x2.name = x.name,
           n \notin x.alloc, x2.alloc = x.alloc \cup {n}, x2.pend = x.pend \cup {n},
           x2.wait = x.wait, x2.chan = x.chan, x2.tomb = x.tomb, x2.canc = x.canc
    PROVE  Pair(x2, y, lx, Append(ox, OpenMsg(n)), ly, oy, g)
<1>1. BothWays(x, y, Messages(lx \o ox), Messages(ly \o oy), g)
  BY DEF Pair
<1>2. /\ OpenMsg(n) \notin Messages(lx \o ox)
      /\ BothWays(x2, y, Messages(lx \o ox) \cup {OpenMsg(n)}, Messages(ly \o oy), g)
  BY <1>1, BothOpen
<1>3. OpenMsg(n) \in Message
  BY MessageTyped
<1> QED BY <1>2, <1>3, PairQueues

\* accept
LEMMA PairAccept ==
    ASSUME NEW x, NEW x2, NEW y, NEW lx, NEW ox, NEW ly, NEW oy, NEW g, NEW n \in Number, NEW p,
           Pair(x, y, lx, ox, ly, oy, g), x2.name = x.name,
           n \notin x.alloc, x2.alloc = x.alloc \cup {n}, x2.pend = x.pend,
           p \in x.wait, x2.wait = x.wait \ {p},
           x2.chan = x.chan \cup {<<n, p>>}, x2.tomb = x.tomb, x2.canc = x.canc
    PROVE  Pair(x2, y, lx, Append(ox, ConfirmMsg(p, n)), ly, oy, g)
<1>1. BothWays(x, y, Messages(lx \o ox), Messages(ly \o oy), g)
  BY DEF Pair
<1>2. /\ ConfirmMsg(p, n) \notin Messages(lx \o ox)
      /\ BothWays(x2, y, Messages(lx \o ox) \cup {ConfirmMsg(p, n)}, Messages(ly \o oy), g)
  BY <1>1, BothAccept
<1>3. p \in Number
  BY <1>1 DEF BothWays, OneWay, Direction, Known
<1>4. ConfirmMsg(p, n) \in Message
  BY <1>3, MessageTyped
<1> QED BY <1>2, <1>4, PairQueues

\* refuse
LEMMA PairRefuse ==
    ASSUME NEW x, NEW x2, NEW y, NEW lx, NEW ox, NEW ly, NEW oy, NEW g, NEW p,
           Pair(x, y, lx, ox, ly, oy, g), x2.name = x.name,
           x2.alloc = x.alloc, x2.pend = x.pend,
           p \in x.wait, x2.wait = x.wait \ {p},
           x2.chan = x.chan, x2.tomb = x.tomb, x2.canc = x.canc
    PROVE  Pair(x2, y, lx, Append(ox, FailureMsg(p)), ly, oy, g)
<1>1. BothWays(x, y, Messages(lx \o ox), Messages(ly \o oy), g)
  BY DEF Pair
<1>2. /\ FailureMsg(p) \notin Messages(lx \o ox)
      /\ BothWays(x2, y, Messages(lx \o ox) \cup {FailureMsg(p)}, Messages(ly \o oy), g)
  BY <1>1, BothRefuse
<1>3. p \in Number
  BY <1>1 DEF BothWays, OneWay, Direction, Known
<1>4. FailureMsg(p) \in Message
  BY <1>3, MessageTyped
<1> QED BY <1>2, <1>4, PairQueues

\* cancel
LEMMA PairCancel ==
    ASSUME NEW x, NEW x2, NEW y, NEW lx, NEW ox, NEW ly, NEW oy, NEW g, NEW n \in Number,
           Pair(x, y, lx, ox, ly, oy, g), x2.name = x.name, Len(x.tomb) <= MaxTombstones,
           x2.alloc = x.alloc, x2.wait = x.wait, x2.chan = x.chan, Cancels(x, x2, n)
    PROVE  Pair(x2, y, lx, ox, ly, oy, g)
BY BothCancel DEF Pair

\* handle_open below the limits
LEMMA PairTake ==
    ASSUME NEW x, NEW x2, NEW y, NEW lx, NEW ox, NEW ly, NEW oy, NEW g, NEW p \in Number,
           Pair(x, y, lx, ox, ly, oy, g), x2.name = x.name,
           ly # <<>>, Head(ly) = OpenMsg(p), x2.alloc = x.alloc, x2.pend = x.pend,
           x2.wait = x.wait \cup {p}, x2.chan = x.chan, x2.tomb = x.tomb,
           x2.canc = x.canc
    PROVE  Pair(x2, y, lx, ox, Tail(ly), oy, g)
<1>1. /\ Head(ly) \in Messages(ly \o oy) /\ "up" \in g
      /\ BothWays(x, y, Messages(lx \o ox), Messages(ly \o oy), g)
  BY PairHead
<1>2. BothWays(x2, y, Messages(lx \o ox), Messages(ly \o oy) \ {OpenMsg(p)}, g)
  BY <1>1, BothTake
<1> QED BY <1>2, PairReceives

\* handle_open at a limit: a failure is queued at once.
LEMMA PairRefuseAtLimit ==
    ASSUME NEW x, NEW x2, NEW y, NEW lx, NEW ox, NEW ly, NEW oy, NEW g, NEW p \in Number,
           Pair(x, y, lx, ox, ly, oy, g), x2.name = x.name,
           ly # <<>>, Head(ly) = OpenMsg(p), x2.alloc = x.alloc, x2.pend = x.pend,
           x2.wait = x.wait, x2.chan = x.chan, x2.tomb = x.tomb, x2.canc = x.canc
    PROVE  Pair(x2, y, lx, Append(ox, FailureMsg(p)), Tail(ly), oy, g)
<1>1. /\ Head(ly) \in Messages(ly \o oy) /\ "up" \in g
      /\ BothWays(x, y, Messages(lx \o ox), Messages(ly \o oy), g)
  BY PairHead
<1>2. /\ FailureMsg(p) \notin Messages(lx \o ox)
      /\ BothWays(x2, y, Messages(lx \o ox) \cup {FailureMsg(p)},
                  Messages(ly \o oy) \ {OpenMsg(p)}, g)
  BY <1>1, BothRefuseAtLimit
<1>3. FailureMsg(p) \in Message
  BY MessageTyped
<1>4. /\ lx \in Seq(Message) /\ ox \in Seq(Message) /\ Distinct(lx \o ox)
      /\ ly \in Seq(Message) /\ oy \in Seq(Message) /\ Distinct(ly \o oy)
  BY DEF Pair
<1>5. /\ Append(ox, FailureMsg(p)) \in Seq(Message)
      /\ Messages(lx \o Append(ox, FailureMsg(p))) = Messages(lx \o ox) \cup {FailureMsg(p)}
      /\ Distinct(lx \o Append(ox, FailureMsg(p)))
  BY <1>2, <1>3, <1>4, StreamQueue
<1>6. /\ Tail(ly) \in Seq(Message)
      /\ Messages(Tail(ly) \o oy) = Messages(ly \o oy) \ {OpenMsg(p)}
      /\ Distinct(Tail(ly) \o oy)
  BY <1>4, StreamDeliver
<1> QED BY <1>1, <1>2, <1>4, <1>5, <1>6 DEF Pair

\* A reply arrives: to a pending open, to a cancelled one, or to one
\* cancelled so long ago that it is rejected.
LEMMA PairHear ==
    ASSUME NEW x, NEW x2, NEW y, NEW lx, NEW ox, NEW ly, NEW oy, NEW g, NEW n \in Number,
           Pair(x, y, lx, ox, ly, oy, g), x2.name = x.name,
           ly # <<>>, Answers(Head(ly), n),
           x2.alloc = x.alloc, x2.pend = x.pend \ {n}, x2.wait = x.wait,
           x2.canc = x.canc, Buried(x2),
           \A k : k # n /\ Knows(x, k) => Knows(x2, k),
           \/ \E p \in Number : Head(ly) = ConfirmMsg(n, p) /\ x2.chan = x.chan \cup {<<n, p>>}
           \/ Head(ly).kind = "FAILURE" /\ x2.chan = x.chan
           \/ x2.chan = x.chan /\ \E j \in DOMAIN x.canc : x.canc[j] = n
    PROVE  Pair(x2, y, lx, ox, Tail(ly), oy, g)
<1>1. /\ Head(ly) \in Messages(ly \o oy) /\ "up" \in g
      /\ BothWays(x, y, Messages(lx \o ox), Messages(ly \o oy), g)
  BY PairHead
<1>2. BothWays(x2, y, Messages(lx \o ox), Messages(ly \o oy) \ {Head(ly)}, g)
  BY <1>1, BothHear
<1> QED BY <1>2, PairReceives

\* transport_lost: the queue is emptied as well.
LEMMA PairLost ==
    ASSUME NEW x, NEW x2, NEW y, NEW lx, NEW ox, NEW ly, NEW oy, NEW g,
           Pair(x, y, lx, ox, ly, oy, g), x2.name = x.name, "up" \notin g,
           x.name # y.name, x.name # "up",
           x2.alloc = x.alloc, x2.pend = {}, x2.wait = {}, x2.chan = {},
           x2.tomb = x.tomb, x2.canc = x.canc
    PROVE  Pair(x2, y, lx, <<>>, ly, oy, g \cup {x.name})
<1>1. BothWays(x2, y, {}, Messages(ly \o oy), g \cup {x.name})
  BY BothLost DEF Pair
<1>2. lx = <<>> /\ ly = <<>>
  BY DEF Pair
<1>3. Messages(lx \o <<>>) = {} /\ Distinct(lx \o <<>>)
  BY <1>2, StreamEmpty
<1>4. <<>> \in Seq(Message)
  BY EmptySeq
<1> QED BY <1>1, <1>2, <1>3, <1>4 DEF Pair

\* The transport fails.
LEMMA PairLose ==
    ASSUME NEW x, NEW y, NEW lx, NEW ox, NEW ly, NEW oy, NEW g,
           Pair(x, y, lx, ox, ly, oy, g), "up" \in g
    PROVE  Pair(x, y, <<>>, ox, <<>>, oy, {})
<1>1. /\ lx \in Seq(Message) /\ ox \in Seq(Message) /\ Distinct(lx \o ox)
      /\ ly \in Seq(Message) /\ oy \in Seq(Message) /\ Distinct(ly \o oy)
      /\ BothWays(x, y, Messages(lx \o ox), Messages(ly \o oy), g)
  BY DEF Pair
<1>2. /\ Messages(<<>> \o ox) \subseteq Messages(lx \o ox) /\ Distinct(<<>> \o ox)
      /\ Messages(<<>> \o oy) \subseteq Messages(ly \o oy) /\ Distinct(<<>> \o oy)
  BY <1>1, StreamLose
<1>3. BothWays(x, y, Messages(<<>> \o ox), Messages(<<>> \o oy), {})
  BY <1>1, <1>2, BothLose
<1>4. <<>> \in Seq(Message)
  BY EmptySeq
<1> QED BY <1>1, <1>2, <1>3, <1>4 DEF Pair

\* The transport is replaced.
LEMMA PairBack ==
    ASSUME NEW x, NEW y, NEW lx, NEW ox, NEW ly, NEW oy, NEW g,
           Pair(x, y, lx, ox, ly, oy, g), x.name \in g, y.name \in g,
           x.name # "up", y.name # "up"
    PROVE  Pair(x, y, lx, ox, ly, oy, {"up"})
BY BothBack DEF Pair

\* next_outgoing: a message moves from the queue to the transport.
LEMMA PairSend ==
    ASSUME NEW x, NEW y, NEW lx, NEW ox, NEW ly, NEW oy, NEW g,
           Pair(x, y, lx, ox, ly, oy, g), ox # <<>>, "up" \in g
    PROVE  Pair(x, y, Append(lx, Head(ox)), Tail(ox), ly, oy, g)
<1>1. lx \in Seq(Message) /\ ox \in Seq(Message)
  BY DEF Pair
<1>2. /\ Append(lx, Head(ox)) \in Seq(Message) /\ Tail(ox) \in Seq(Message)
      /\ Append(lx, Head(ox)) \o Tail(ox) = lx \o ox
  BY <1>1, StreamSend
<1> QED BY <1>2 DEF Pair

\* What x is handed was announced by no other message, and answers only what
\* x still knows.
LEMMA PairExpects ==
    ASSUME NEW x, NEW y, NEW lx, NEW ox, NEW ly, NEW oy, NEW g,
           Pair(x, y, lx, ox, ly, oy, g), ly # <<>>
    PROVE  /\ Buried(x)
           /\ \A n \in Number : Announces(Head(ly), n) =>
                 n \notin x.wait /\ \A c \in x.chan : c[2] # n
           /\ \A n \in Number : Answers(Head(ly), n) => Knows(x, n)
<1>1. /\ Head(ly) \in Messages(ly \o oy) /\ "up" \in g
      /\ BothWays(x, y, Messages(lx \o ox), Messages(ly \o oy), g)
  BY PairHead
<1>2. Buried(x) /\ Announced(x, Messages(ly \o oy))
  BY <1>1 DEF BothWays, OneWay, Direction
<1>3. Expected(x, y, Messages(ly \o oy))
  BY <1>1 DEF BothWays, OneWay, Guarded
<1> QED BY <1>1, <1>2, <1>3 DEF Announced, Expected, IsAnswered

\* What was cancelled long ago was cancelled.
LEMMA LongAgoCancelled ==
    ASSUME NEW x, NEW n, Buried(x), LongAgo(x, n)
    PROVE  \E j \in DOMAIN x.canc : x.canc[j] = n
<1>1. PICK k \in 1..(Len(x.canc) - MaxTombstones) : x.canc[k] = n
  BY DEF LongAgo
<1>2. DOMAIN x.canc = 1..Len(x.canc) /\ Len(x.canc) \in Nat
  BY LenProperties DEF Buried
<1>3. k \in 1..Len(x.canc)
  BY <1>2, PairConstants
<1> QED BY <1>1, <1>2, <1>3

----------------------------------------------------------------------------
(* What the two sides can tell from it.                                    *)

\* The size of a set with one element at most.
LEMMA Lone ==
    ASSUME NEW S, \A a, b \in S : a = b
    PROVE  /\ S = {} => Cardinality(S) = 0
           /\ S # {} => Cardinality(S) = 1
<1>1. CASE S = {}
  BY <1>1, FS_EmptySet
<1>2. CASE S # {}
  <2>1. PICK a : a \in S
    BY <1>2
  <2>2. S = {a}
    BY <2>1
  <2> QED BY <1>2, <2>2, FS_Singleton
<1> QED BY <1>1, <1>2

\* One answer to n at most, and one to a pending n with the transport up; W
\* are the slots of y with the open n of x waiting.
LEMMA PairOneAnswer ==
    ASSUME NEW x, NEW y, NEW lx, NEW ox, NEW ly, NEW oy, NEW g, NEW n \in Number,
           Pair(x, y, lx, ox, ly, oy, g),
           NEW W, \A a, b \in W : a = b, n \in y.wait <=> W # {}
    PROVE  LET c == Cardinality(Opens(lx \o ox, n)) + Cardinality(W)
                      + Cardinality(Replies(ly \o oy, n)) IN
           c <= 1 /\ ("up" \in g /\ n \in x.pend => c = 1)
<1> DEFINE s == lx \o ox  t == ly \o oy  O == Opens(s, n)  R == Replies(t, n)
<1>1. /\ Distinct(s) /\ Distinct(t) /\ WellFormed(Messages(s))
      /\ Announced(y, Messages(s)) /\ AtMostOne(y, Messages(s), Messages(t))
      /\ "up" \in g => Coming(x, y, Messages(s), Messages(t))
  BY DEF Pair, BothWays, OneWay, Direction, Guarded
<1> HIDE DEF s, t
<1>2. \A i \in DOMAIN s : i \in O <=> s[i] = OpenMsg(n)
  <2> SUFFICES ASSUME NEW i \in DOMAIN s PROVE i \in O <=> s[i] = OpenMsg(n)
    OBVIOUS
  <2>1. s[i] \in Messages(s)
    BY DEF Messages
  <2>2. \/ \E k \in Number : s[i] = OpenMsg(k)
        \/ \E k, p \in Number : s[i] = ConfirmMsg(p, k)
        \/ \E p \in Number : s[i] = FailureMsg(p)
    BY <1>1, <2>1 DEF WellFormed
  <2> QED BY <2>2, MessageFields DEF Opens
<1>3. \A i \in DOMAIN t : i \in R <=> Answers(t[i], n)
  BY DEF Replies, Answers
<1>4. O \subseteq DOMAIN s /\ R \subseteq DOMAIN t
  BY DEF Opens, Replies
<1> HIDE DEF O, R
<1>5. \A a, b \in O : a = b
  BY <1>1, <1>2, <1>4 DEF Distinct
<1>6. \A a, b \in R : a = b
  <2>1. \A a \in DOMAIN t : t[a] \in Messages(t)
    BY DEF Messages
  <2>2. \A a, b \in R : t[a] = t[b]
    BY <1>1, <1>3, <1>4, <2>1 DEF AtMostOne
  <2> QED BY <1>1, <1>4, <2>2 DEF Distinct
<1>7. /\ O # {} <=> OpenMsg(n) \in Messages(s)
      /\ R # {} <=> IsAnswered(Messages(t), n)
  BY <1>2, <1>3, <1>4 DEF Messages, IsAnswered
<1>8. /\ O # {} => W = {} /\ R = {}
      /\ W # {} => R = {}
  <2>1. OpenMsg(n) \in Messages(s) => n \notin y.wait
    BY <1>1, MessageFields DEF Announced, Announces
  <2> QED BY <1>1, <1>7, <2>1 DEF AtMostOne
<1>9. "up" \in g /\ n \in x.pend => O # {} \/ W # {} \/ R # {}
  BY <1>1, <1>7 DEF Coming
<1> HIDE DEF Opens, Replies
<1>10. /\ O = {} => Cardinality(O) = 0
       /\ O # {} => Cardinality(O) = 1
       /\ R = {} => Cardinality(R) = 0
       /\ R # {} => Cardinality(R) = 1
       /\ W = {} => Cardinality(W) = 0
       /\ W # {} => Cardinality(W) = 1
  BY <1>5, <1>6, Lone
<1>11. /\ Cardinality(O) + Cardinality(W) + Cardinality(R) <= 1
       /\ O # {} \/ W # {} \/ R # {} => Cardinality(O) + Cardinality(W) + Cardinality(R) = 1
  BY <1>8, <1>10
<1> QED BY <1>9, <1>11 DEF O, R, s, t

\* A channel of y is one of x, or x will hear of it or cancelled it.
LEMMA PairSameChannels ==
    ASSUME NEW x, NEW y, NEW lx, NEW ox, NEW ly, NEW oy, NEW g,
           Pair(x, y, lx, ox, ly, oy, g), "up" \in g, NEW n, NEW p, <<n, p>> \in y.chan
    PROVE  \/ <<p, n>> \in x.chan
           \/ Contains(ly \o oy, ConfirmMsg(p, n))
           \/ Contains(x.canc, p)
<1> DEFINE t == ly \o oy
<1>1. /\ Agreed(x, y, Messages(t)) /\ Buried(x)
      /\ ly \in Seq(Message) /\ oy \in Seq(Message)
  BY DEF Pair, BothWays, OneWay, Direction, Guarded
<1>2. DOMAIN t = 1..Len(t) /\ DOMAIN x.canc = 1..Len(x.canc)
  BY <1>1, StreamParts, LenProperties DEF Buried
<1> HIDE DEF t
<1>3. \/ <<p, n>> \in x.chan \/ ConfirmMsg(p, n) \in Messages(t)
      \/ \E k \in DOMAIN x.canc : x.canc[k] = p
  <2>1. <<n, p>>[1] = n /\ <<n, p>>[2] = p
    OBVIOUS
  <2> QED BY <1>1, <2>1 DEF Agreed
<1> QED BY <1>2, <1>3 DEF Messages, Contains, t

\* Before anything was said.
LEMMA PairStarts ==
    ASSUME NEW x, NEW y,
           x.pend = {}, x.wait = {}, x.chan = {}, x.alloc \subseteq Number,
           x.tomb = <<>>, x.canc = <<>>, x.name # "up",
           y.pend = {}, y.wait = {}, y.chan = {}, y.alloc \subseteq Number,
           y.tomb = <<>>, y.canc = <<>>, y.name # "up"
    PROVE  Pair(x, y, <<>>, <<>>, <<>>, <<>>, {"up"})
<1>1. /\ <<>> \in Seq(Message) /\ <<>> \in Seq(Number)
      /\ <<>> \o <<>> = <<>> /\ Messages(<<>>) = {} /\ Distinct(<<>>) /\ DOMAIN <<>> = {}
  BY StreamEmpty
<1>2. Buried(x) /\ Buried(y)
  BY <1>1 DEF Buried
<1>3. OneWay(x, y, {}, {}, {"up"}) /\ OneWay(y, x, {}, {}, {"up"})
  <2>1. \A n : ~IsAnswered({}, n)
    BY DEF IsAnswered
  <2> QED BY <1>2, <2>1 DEF OneWay, Direction, Guarded, WellFormed, Known, Announced,
          AtMostOne, Opened, Coming, Agreed, Expected
<1> QED BY <1>1, <1>3 DEF Pair, BothWays

----------------------------------------------------------------------------
(* The state.                                                              *)

\* What is proved of one engine holds of each of the two.
PA == INSTANCE OpeningProofs WITH
        slots <- slotsA, free <- freeA, nextLocal <- nextLocalA,
        numbersExhausted <- numbersExhaustedA, tombstones <- tombstonesA,
        outgoing <- outgoingA, pendingOutgoing <- pendingOutgoingA,
        pendingIncoming <- pendingIncomingA, live <- liveA,
        MaxInserts <- 0, MaxQueued <- 0, issued <- {}

PB == INSTANCE OpeningProofs WITH
        slots <- slotsB, free <- freeB, nextLocal <- nextLocalB,
        numbersExhausted <- numbersExhaustedB, tombstones <- tombstonesB,
        outgoing <- outgoingB, pendingOutgoing <- pendingOutgoingB,
        pendingIncoming <- pendingIncomingB, live <- liveB,
        MaxInserts <- 0, MaxQueued <- 0, issued <- {}

\* The sides of this state, and what guards the parts of the invariant.
SideA == [name |-> "A", pend |-> PA!Pending, wait |-> PA!Waiting, chan |-> PA!Channels,
          alloc |-> PA!Numbered, tomb |-> tombstonesA, canc |-> cancelled["A"]]
SideB == [name |-> "B", pend |-> PB!Pending, wait |-> PB!Waiting, chan |-> PB!Channels,
          alloc |-> PB!Numbered, tomb |-> tombstonesB, canc |-> cancelled["B"]]
Guards == told \cup (IF up THEN {"up"} ELSE {})

\* Both engines keep their own invariant, and Pair holds of what each can
\* know of the other.
PairInv ==
    /\ PA!IndInv /\ PB!IndInv
    /\ up \in BOOLEAN /\ told \subseteq Sides /\ cancelled \in [Sides -> Seq(Number)]
    /\ Pair(SideA, SideB, linkAB, outgoingA, linkBA, outgoingB, Guards)

\* Each engine is what is proved about.
LEMMA SameA ==
    /\ A!Open => PA!Open
    /\ \A h : A!Cancel(h) => PA!Cancel(h)
    /\ \A h : A!Accept(h) => PA!Accept(h)
    /\ \A h : A!AcceptExhausted(h) => PA!AcceptExhausted(h)
    /\ \A h : A!Refuse(h) => PA!Refuse(h)
    /\ A!TransportLost => PA!TransportLost
    /\ A!NextOutgoing => PA!NextOutgoing
    /\ \A p : A!HandleOpen(p) => PA!HandleOpen(p)
    /\ \A p : A!HandleOpenByLimit(p) => PA!HandleOpenByLimit(p)
    /\ \A n, p : A!HandleConfirmation(n, p) => PA!HandleConfirmation(n, p)
    /\ \A n : A!HandleFailure(n) => PA!HandleFailure(n)
    /\ \A n, p : A!HandleLateConfirmation(n, p) => PA!HandleLateConfirmation(n, p)
    /\ \A n : A!HandleLateFailure(n) => PA!HandleLateFailure(n)
    /\ varsA = PA!vars
    /\ A!Handle = PA!Handle /\ A!Message = PA!Message
    /\ \A m : A!Violation(m) = PA!Violation(m)
<1> USE DEF
    varsA, A!Open, A!AllocateNumber, A!Insert, A!PendingOutgoing, A!OpenMsg,
    A!NoNumber, A!Holding, A!Last, A!Front, A!registry, A!counters, A!numbers,
    A!Cancel, A!Resolves, A!Phase, A!RemoveSlot, A!Vacated, A!Vacant, A!Trimmed,
    A!Accept, A!SetState, A!Established, A!ConfirmMsg, A!AcceptExhausted, A!Refuse,
    A!RefuseWith, A!FailureMsg, A!TransportLost, A!LiveSlots, A!SlotOrder,
    A!Cardinality, A!NextOutgoing, A!HandleOpen, A!PeerNumberInUse, A!HasPeer, A!In,
    A!AtIncomingLimit, A!PendingIncoming, A!HandleOpenByLimit, A!HandleConfirmation,
    A!LocatedPending, A!HandleFailure, A!HandleLateConfirmation, A!LocateReply,
    A!HasLocal, A!Contains, A!ConsumeTombstone, A!RemoveAt, A!HandleLateFailure,
    A!vars, A!Handle, A!Generation, A!Number, A!Message, A!Violation, PA!Open,
    PA!AllocateNumber, PA!Insert, PA!PendingOutgoing, PA!OpenMsg, PA!NoNumber,
    PA!Holding, PA!Last, PA!Front, PA!registry, PA!counters, PA!numbers, PA!Cancel,
    PA!Resolves, PA!Phase, PA!RemoveSlot, PA!Vacated, PA!Vacant, PA!Trimmed,
    PA!Accept, PA!SetState, PA!Established, PA!ConfirmMsg, PA!AcceptExhausted,
    PA!Refuse, PA!RefuseWith, PA!FailureMsg, PA!TransportLost, PA!LiveSlots,
    PA!SlotOrder, PA!Cardinality, PA!NextOutgoing, PA!HandleOpen,
    PA!PeerNumberInUse, PA!HasPeer, PA!In, PA!AtIncomingLimit, PA!PendingIncoming,
    PA!HandleOpenByLimit, PA!HandleConfirmation, PA!LocatedPending,
    PA!HandleFailure, PA!HandleLateConfirmation, PA!LocateReply, PA!HasLocal,
    PA!Contains, PA!ConsumeTombstone, PA!RemoveAt, PA!HandleLateFailure, PA!vars,
    PA!Handle, PA!Generation, PA!Number, PA!Message, PA!Violation
<1>1. A!Open => PA!Open
  OBVIOUS
<1>2. \A h : A!Cancel(h) => PA!Cancel(h)
  OBVIOUS
<1>3. \A h : A!Accept(h) => PA!Accept(h)
  OBVIOUS
<1>4. \A h : A!AcceptExhausted(h) => PA!AcceptExhausted(h)
  OBVIOUS
<1>5. \A h : A!Refuse(h) => PA!Refuse(h)
  OBVIOUS
<1>6. A!TransportLost => PA!TransportLost
  OBVIOUS
<1>7. A!NextOutgoing => PA!NextOutgoing
  OBVIOUS
<1>8. \A p : A!HandleOpen(p) => PA!HandleOpen(p)
  OBVIOUS
<1>9. \A p : A!HandleOpenByLimit(p) => PA!HandleOpenByLimit(p)
  OBVIOUS
<1>10. \A n, p : A!HandleConfirmation(n, p) => PA!HandleConfirmation(n, p)
  OBVIOUS
<1>11. \A n : A!HandleFailure(n) => PA!HandleFailure(n)
  OBVIOUS
<1>12. \A n, p : A!HandleLateConfirmation(n, p) => PA!HandleLateConfirmation(n, p)
  OBVIOUS
<1>13. \A n : A!HandleLateFailure(n) => PA!HandleLateFailure(n)
  OBVIOUS
<1>14. varsA = PA!vars
  OBVIOUS
<1>15. A!Handle = PA!Handle /\ A!Message = PA!Message
  OBVIOUS
<1>16. \A m : A!Violation(m) = PA!Violation(m)
  OBVIOUS
<1> QED BY <1>1, <1>2, <1>3, <1>4, <1>5, <1>6, <1>7, <1>8, <1>9, <1>10, <1>11,
        <1>12, <1>13, <1>14, <1>15, <1>16

\* The same for B.
LEMMA SameB ==
    /\ B!Open => PB!Open
    /\ \A h : B!Cancel(h) => PB!Cancel(h)
    /\ \A h : B!Accept(h) => PB!Accept(h)
    /\ \A h : B!AcceptExhausted(h) => PB!AcceptExhausted(h)
    /\ \A h : B!Refuse(h) => PB!Refuse(h)
    /\ B!TransportLost => PB!TransportLost
    /\ B!NextOutgoing => PB!NextOutgoing
    /\ \A p : B!HandleOpen(p) => PB!HandleOpen(p)
    /\ \A p : B!HandleOpenByLimit(p) => PB!HandleOpenByLimit(p)
    /\ \A n, p : B!HandleConfirmation(n, p) => PB!HandleConfirmation(n, p)
    /\ \A n : B!HandleFailure(n) => PB!HandleFailure(n)
    /\ \A n, p : B!HandleLateConfirmation(n, p) => PB!HandleLateConfirmation(n, p)
    /\ \A n : B!HandleLateFailure(n) => PB!HandleLateFailure(n)
    /\ varsB = PB!vars
    /\ A!Handle = PB!Handle /\ B!Message = PB!Message
    /\ \A m : B!Violation(m) = PB!Violation(m)
<1> USE DEF
    varsB, B!Open, B!AllocateNumber, B!Insert, B!PendingOutgoing, B!OpenMsg,
    B!NoNumber, B!Holding, B!Last, B!Front, B!registry, B!counters, B!numbers,
    B!Cancel, B!Resolves, B!Phase, B!RemoveSlot, B!Vacated, B!Vacant, B!Trimmed,
    B!Accept, B!SetState, B!Established, B!ConfirmMsg, B!AcceptExhausted, B!Refuse,
    B!RefuseWith, B!FailureMsg, B!TransportLost, B!LiveSlots, B!SlotOrder,
    B!Cardinality, B!NextOutgoing, B!HandleOpen, B!PeerNumberInUse, B!HasPeer, B!In,
    B!AtIncomingLimit, B!PendingIncoming, B!HandleOpenByLimit, B!HandleConfirmation,
    B!LocatedPending, B!HandleFailure, B!HandleLateConfirmation, B!LocateReply,
    B!HasLocal, B!Contains, B!ConsumeTombstone, B!RemoveAt, B!HandleLateFailure,
    B!vars, B!Handle, B!Generation, B!Number, B!Message, B!Violation, PB!Open,
    PB!AllocateNumber, PB!Insert, PB!PendingOutgoing, PB!OpenMsg, PB!NoNumber,
    PB!Holding, PB!Last, PB!Front, PB!registry, PB!counters, PB!numbers, PB!Cancel,
    PB!Resolves, PB!Phase, PB!RemoveSlot, PB!Vacated, PB!Vacant, PB!Trimmed,
    PB!Accept, PB!SetState, PB!Established, PB!ConfirmMsg, PB!AcceptExhausted,
    PB!Refuse, PB!RefuseWith, PB!FailureMsg, PB!TransportLost, PB!LiveSlots,
    PB!SlotOrder, PB!Cardinality, PB!NextOutgoing, PB!HandleOpen,
    PB!PeerNumberInUse, PB!HasPeer, PB!In, PB!AtIncomingLimit, PB!PendingIncoming,
    PB!HandleOpenByLimit, PB!HandleConfirmation, PB!LocatedPending,
    PB!HandleFailure, PB!HandleLateConfirmation, PB!LocateReply, PB!HasLocal,
    PB!Contains, PB!ConsumeTombstone, PB!RemoveAt, PB!HandleLateFailure, PB!vars,
    PB!Handle, PB!Generation, PB!Number, PB!Message, PB!Violation, A!Handle,
    A!Generation
<1>1. B!Open => PB!Open
  OBVIOUS
<1>2. \A h : B!Cancel(h) => PB!Cancel(h)
  OBVIOUS
<1>3. \A h : B!Accept(h) => PB!Accept(h)
  OBVIOUS
<1>4. \A h : B!AcceptExhausted(h) => PB!AcceptExhausted(h)
  OBVIOUS
<1>5. \A h : B!Refuse(h) => PB!Refuse(h)
  OBVIOUS
<1>6. B!TransportLost => PB!TransportLost
  OBVIOUS
<1>7. B!NextOutgoing => PB!NextOutgoing
  OBVIOUS
<1>8. \A p : B!HandleOpen(p) => PB!HandleOpen(p)
  OBVIOUS
<1>9. \A p : B!HandleOpenByLimit(p) => PB!HandleOpenByLimit(p)
  OBVIOUS
<1>10. \A n, p : B!HandleConfirmation(n, p) => PB!HandleConfirmation(n, p)
  OBVIOUS
<1>11. \A n : B!HandleFailure(n) => PB!HandleFailure(n)
  OBVIOUS
<1>12. \A n, p : B!HandleLateConfirmation(n, p) => PB!HandleLateConfirmation(n, p)
  OBVIOUS
<1>13. \A n : B!HandleLateFailure(n) => PB!HandleLateFailure(n)
  OBVIOUS
<1>14. varsB = PB!vars
  OBVIOUS
<1>15. A!Handle = PB!Handle /\ B!Message = PB!Message
  OBVIOUS
<1>16. \A m : B!Violation(m) = PB!Violation(m)
  OBVIOUS
<1> QED BY <1>1, <1>2, <1>3, <1>4, <1>5, <1>6, <1>7, <1>8, <1>9, <1>10, <1>11,
        <1>12, <1>13, <1>14, <1>15, <1>16

\* The constants satisfy what the engine assumes.
LEMMA EngineAssumptions ==
    /\ MaxPendingOutgoing \in Nat /\ MaxPendingIncoming \in Nat /\ MaxChannels \in Nat
    /\ MaxTombstones \in Nat /\ MaxNumber \in Nat /\ GenerationMod \in Nat \ {0}
    /\ 0 \in Nat /\ 0 < GenerationMod
BY PairConstants

\* The messages and numbers of this module are the engine's.
LEMMA SameValues ==
    /\ PA!Number = Number /\ PB!Number = Number
    /\ PA!Message = Message /\ PB!Message = Message
    /\ \A n : PA!OpenMsg(n) = OpenMsg(n) /\ PB!OpenMsg(n) = OpenMsg(n)
    /\ \A p, n : PA!ConfirmMsg(p, n) = ConfirmMsg(p, n) /\ PB!ConfirmMsg(p, n) = ConfirmMsg(p, n)
    /\ \A p : PA!FailureMsg(p) = FailureMsg(p) /\ PB!FailureMsg(p) = FailureMsg(p)
BY DEF PA!Number, PB!Number, Number, PA!Message, PB!Message, Message, PA!NoNumber, PB!NoNumber,
       PA!OpenMsg, PB!OpenMsg, OpenMsg, PA!ConfirmMsg, PB!ConfirmMsg, ConfirmMsg,
       PA!FailureMsg, PB!FailureMsg, FailureMsg

\* A step of the other side leaves A as it is.
LEMMA RestA ==
    ASSUME PairInv, UNCHANGED varsA, cancelled'["A"] = cancelled["A"]
    PROVE  PA!IndInv' /\ SideA' = SideA /\ outgoingA' = outgoingA
<1>1. PA!IndInv /\ UNCHANGED PA!vars
  BY DEF PairInv, varsA, PA!vars
<1>2. PA!IndInv'
  BY <1>1, PA!StepInv, EngineAssumptions
<1>3. slotsA' = slotsA /\ UNCHANGED PA!numbers /\ tombstonesA' = tombstonesA
      /\ outgoingA' = outgoingA
  BY DEF varsA, PA!numbers
<1>4. PA!Pending' = PA!Pending /\ PA!Waiting' = PA!Waiting
      /\ PA!Channels' = PA!Channels
  BY <1>3, PA!PhasesSame, EngineAssumptions
<1>5. PA!Numbered' = PA!Numbered
  BY <1>3, PA!NumberedSame, EngineAssumptions
<1> QED BY <1>2, <1>3, <1>4, <1>5 DEF SideA

\* A step of the other side leaves B as it is.
LEMMA RestB ==
    ASSUME PairInv, UNCHANGED varsB, cancelled'["B"] = cancelled["B"]
    PROVE  PB!IndInv' /\ SideB' = SideB /\ outgoingB' = outgoingB
<1>1. PB!IndInv /\ UNCHANGED PB!vars
  BY DEF PairInv, varsB, PB!vars
<1>2. PB!IndInv'
  BY <1>1, PB!StepInv, EngineAssumptions
<1>3. slotsB' = slotsB /\ UNCHANGED PB!numbers /\ tombstonesB' = tombstonesB
      /\ outgoingB' = outgoingB
  BY DEF varsB, PB!numbers
<1>4. PB!Pending' = PB!Pending /\ PB!Waiting' = PB!Waiting
      /\ PB!Channels' = PB!Channels
  BY <1>3, PB!PhasesSame, EngineAssumptions
<1>5. PB!Numbered' = PB!Numbered
  BY <1>3, PB!NumberedSame, EngineAssumptions
<1> QED BY <1>2, <1>3, <1>4, <1>5 DEF SideB

----------------------------------------------------------------------------
(* The steps of A.                                                         *)

\* What the invariant says with A as the one that moves.
LEMMA ViewA ==
    ASSUME PairInv
    PROVE  /\ PA!IndInv
           /\ Pair(SideA, SideB, linkAB, outgoingA, linkBA, outgoingB, Guards)
           /\ SideA.tomb = tombstonesA /\ SideA.tomb \in Seq(Number)
           /\ Len(SideA.tomb) <= MaxTombstones
<1>1. /\ PA!IndInv
      /\ Pair(SideA, SideB, linkAB, outgoingA, linkBA, outgoingB, Guards)
  BY PairTurned DEF PairInv
<1>2. tombstonesA \in Seq(PA!Number) /\ Len(tombstonesA) <= MaxTombstones
  BY <1>1, PA!ToldTyped, EngineAssumptions
<1> QED BY <1>1, <1>2, SameValues DEF SideA

\* A step of A and its streams, the transport as it was.
LEMMA MovedA ==
    ASSUME PairInv, PA!IndInv', UNCHANGED <<varsB, told, up>>,
           cancelled' \in [Sides -> Seq(Number)], cancelled'["B"] = cancelled["B"],
           Pair(SideA', SideB, linkAB', outgoingA', linkBA', outgoingB, Guards)
    PROVE  PairInv'
<1>1. PB!IndInv' /\ SideB' = SideB /\ outgoingB' = outgoingB
  BY RestB
<1>2. Guards' = Guards
  BY DEF Guards
<1>3. Pair(SideA', SideB', linkAB', outgoingA', linkBA', outgoingB', Guards')
  BY <1>1, <1>2
<1>4. Pair(SideA', SideB', linkAB', outgoingA', linkBA', outgoingB', Guards')
  BY <1>3, PairTurned
<1>5. up' \in BOOLEAN /\ told' \subseteq Sides
  BY DEF PairInv
<1> QED BY <1>1, <1>4, <1>5 DEF PairInv

\* A opens.
LEMMA OpenAInv ==
    ASSUME PairInv, OpenA
    PROVE  PairInv'
<1>1. PA!IndInv /\ PA!Open
  BY SameA DEF PairInv, OpenA
<1>2. PA!IndInv'
  BY <1>1, PA!StepInv, EngineAssumptions DEF PA!Next, PA!Command
<1> DEFINE n == nextLocalA
<1>3. /\ n \in PA!Number /\ n \notin PA!Numbered
      /\ PA!Pending' = PA!Pending \cup {n}
      /\ PA!Waiting' = PA!Waiting /\ PA!Channels' = PA!Channels
      /\ PA!Numbered' = PA!Numbered \cup {n}
      /\ tombstonesA' = tombstonesA
      /\ outgoingA' = Append(outgoingA, PA!OpenMsg(n))
  BY <1>1, PA!OpenTold, EngineAssumptions
<1>4. UNCHANGED <<varsB, linkAB, linkBA, told, up, cancelled>>
  BY DEF OpenA, transport
<1> HIDE DEF n
<1> DEFINE x == SideA  x2 == SideA'
<1>5. /\ x2.name = x.name /\ n \notin x.alloc /\ x2.alloc = x.alloc \cup {n}
      /\ x2.pend = x.pend \cup {n} /\ x2.wait = x.wait /\ x2.chan = x.chan
      /\ x2.tomb = x.tomb /\ x2.canc = x.canc
  BY <1>3, <1>4 DEF SideA
<1>6. n \in Number /\ outgoingA' = Append(outgoingA, OpenMsg(n))
  BY <1>3, SameValues
<1>7. Pair(x, SideB, linkAB, outgoingA, linkBA, outgoingB, Guards)
  BY ViewA
<1> HIDE DEF x, x2
<1>8. Pair(x2, SideB, linkAB, Append(outgoingA, OpenMsg(n)), linkBA, outgoingB, Guards)
  BY <1>5, <1>6, <1>7, PairOpen
<1>9. Pair(SideA', SideB, linkAB', outgoingA', linkBA', outgoingB, Guards)
  BY <1>4, <1>6, <1>8 DEF x2
<1>10. cancelled' \in [Sides -> Seq(Number)] /\ cancelled'["B"] = cancelled["B"]
  BY <1>4 DEF PairInv
<1> QED BY <1>2, <1>4, <1>9, <1>10, MovedA

\* A cancels a pending open.
LEMMA CancelAInv ==
    ASSUME PairInv, NEW h \in A!Handle, CancelA(h)
    PROVE  PairInv'
<1>1. PA!IndInv /\ PA!Cancel(h) /\ h \in PA!Handle
  BY SameA DEF PairInv, CancelA
<1>2. PA!IndInv'
  BY <1>1, PA!StepInv, EngineAssumptions DEF PA!Next, PA!Command
<1> DEFINE n == slotsA[h.index].state.local
<1>3. /\ n \in PA!Pending /\ PA!Pending' = PA!Pending \ {n}
      /\ PA!Waiting' = PA!Waiting /\ PA!Channels' = PA!Channels
      /\ PA!Numbered' = PA!Numbered
      /\ tombstonesA' = IF Len(tombstonesA) < MaxTombstones
                       THEN Append(tombstonesA, n) ELSE Tail(Append(tombstonesA, n))
      /\ outgoingA' = outgoingA
  BY <1>1, PA!CancelTold, EngineAssumptions
<1>4. /\ UNCHANGED <<varsB, linkAB, linkBA, told, up>>
      /\ cancelled' = [cancelled EXCEPT !["A"] = Append(@, n)]
  BY DEF CancelA, transport
<1>5. n \in Number
  BY <1>1, <1>3, SameValues, PA!ToldTyped, EngineAssumptions
<1> HIDE DEF n
<1>6. /\ cancelled' \in [Sides -> Seq(Number)] /\ cancelled'["B"] = cancelled["B"]
      /\ cancelled'["A"] = Append(cancelled["A"], n)
  <2>1. cancelled \in [Sides -> Seq(Number)] /\ "A" \in Sides /\ "B" \in Sides
    BY DEF PairInv, Sides
  <2>2. Append(cancelled["A"], n) \in Seq(Number)
    BY <1>5, <2>1, AppendProperties
  <2> QED BY <1>4, <2>1, <2>2
<1> DEFINE x == SideA  x2 == SideA'
<1>7. /\ x2.name = x.name /\ x2.alloc = x.alloc /\ x2.wait = x.wait /\ x2.chan = x.chan
      /\ x2.pend = x.pend \ {n} /\ x2.canc = Append(x.canc, n)
  BY <1>3, <1>6 DEF SideA
<1>8. tombstonesA' = Bury(tombstonesA, n)
  BY <1>3 DEF Bury
<1>9. x2.tomb = Bury(x.tomb, n)
  BY <1>8 DEF SideA
<1>10. /\ Pair(x, SideB, linkAB, outgoingA, linkBA, outgoingB, Guards)
       /\ Len(x.tomb) <= MaxTombstones
  BY ViewA
<1> HIDE DEF x, x2
<1>11. Cancels(x, x2, n)
  BY <1>7, <1>9 DEF Cancels
<1>12. Pair(x2, SideB, linkAB, outgoingA, linkBA, outgoingB, Guards)
  BY <1>5, <1>7, <1>10, <1>11, PairCancel
<1>13. Pair(SideA', SideB, linkAB', outgoingA', linkBA', outgoingB, Guards)
  BY <1>3, <1>4, <1>12 DEF x2
<1> QED BY <1>2, <1>4, <1>6, <1>13, MovedA

\* A accepts or refuses an open of B.
LEMMA DecideAInv ==
    ASSUME PairInv, NEW h \in A!Handle, DecideA(h)
    PROVE  PairInv'
<1>0. PA!IndInv /\ h \in PA!Handle
  BY SameA DEF PairInv
<1>1. UNCHANGED <<varsB, linkAB, linkBA, told, up, cancelled>>
  BY DEF DecideA, transport
<1>2. cancelled' \in [Sides -> Seq(Number)] /\ cancelled'["B"] = cancelled["B"]
  BY <1>1 DEF PairInv
<1>3. Pair(SideA, SideB, linkAB, outgoingA, linkBA, outgoingB, Guards)
  BY ViewA
<1> DEFINE x == SideA  x2 == SideA'  n == nextLocalA  p == slotsA[h.index].state.peer
<1>4. CASE PA!Accept(h)
  <2>1. PA!IndInv'
    BY <1>0, <1>4, PA!StepInv, EngineAssumptions DEF PA!Next, PA!Command
  <2>2. /\ n \in PA!Number /\ n \notin PA!Numbered
        /\ p \in PA!Waiting /\ PA!Waiting' = PA!Waiting \ {p}
        /\ PA!Pending' = PA!Pending /\ PA!Channels' = PA!Channels \cup {<<n, p>>}
        /\ PA!Numbered' = PA!Numbered \cup {n}
        /\ tombstonesA' = tombstonesA
        /\ outgoingA' = Append(outgoingA, PA!ConfirmMsg(p, n))
    BY <1>0, <1>4, PA!AcceptTold, EngineAssumptions
  <2> HIDE DEF n, p
  <2>3. /\ x2.name = x.name /\ n \notin x.alloc /\ x2.alloc = x.alloc \cup {n}
        /\ x2.pend = x.pend /\ p \in x.wait /\ x2.wait = x.wait \ {p}
        /\ x2.chan = x.chan \cup {<<n, p>>} /\ x2.tomb = x.tomb /\ x2.canc = x.canc
    BY <1>1, <2>2 DEF SideA
  <2>4. n \in Number /\ outgoingA' = Append(outgoingA, ConfirmMsg(p, n))
    BY <2>2, SameValues
  <2> HIDE DEF x, x2
  <2>5. Pair(x2, SideB, linkAB, Append(outgoingA, ConfirmMsg(p, n)), linkBA,
             outgoingB, Guards)
    <3>1. Pair(x, SideB, linkAB, outgoingA, linkBA, outgoingB, Guards)
      BY <1>3 DEF x
    <3> QED BY <2>3, <2>4, <3>1, PairAccept
  <2>6. Pair(SideA', SideB, linkAB', outgoingA', linkBA', outgoingB, Guards)
    BY <1>1, <2>4, <2>5 DEF x2
  <2> QED BY <1>1, <1>2, <2>1, <2>6, MovedA
<1>5. CASE PA!Refuse(h) \/ PA!AcceptExhausted(h)
  <2>1. PA!IndInv'
    BY <1>0, <1>5, PA!StepInv, EngineAssumptions DEF PA!Next, PA!Command
  <2>2. /\ p \in PA!Waiting /\ PA!Waiting' = PA!Waiting \ {p}
        /\ PA!Pending' = PA!Pending /\ PA!Channels' = PA!Channels
        /\ PA!Numbered' = PA!Numbered
        /\ tombstonesA' = tombstonesA
        /\ outgoingA' = Append(outgoingA, PA!FailureMsg(p))
    BY <1>0, <1>5, PA!RefuseTold, EngineAssumptions
  <2> HIDE DEF p
  <2>3. /\ x2.name = x.name /\ x2.alloc = x.alloc
        /\ x2.pend = x.pend /\ p \in x.wait /\ x2.wait = x.wait \ {p}
        /\ x2.chan = x.chan /\ x2.tomb = x.tomb /\ x2.canc = x.canc
    BY <1>1, <2>2 DEF SideA
  <2>4. outgoingA' = Append(outgoingA, FailureMsg(p))
    BY <2>2, SameValues
  <2> HIDE DEF x, x2
  <2>5. Pair(x2, SideB, linkAB, Append(outgoingA, FailureMsg(p)), linkBA,
             outgoingB, Guards)
    <3>1. Pair(x, SideB, linkAB, outgoingA, linkBA, outgoingB, Guards)
      BY <1>3 DEF x
    <3> QED BY <2>3, <3>1, PairRefuse
  <2>6. Pair(SideA', SideB, linkAB', outgoingA', linkBA', outgoingB, Guards)
    BY <1>1, <2>4, <2>5 DEF x2
  <2> QED BY <1>1, <1>2, <2>1, <2>6, MovedA
<1> QED BY <1>4, <1>5, SameA DEF DecideA

\* The binding of A sends what is next in the queue.
LEMMA SendAInv ==
    ASSUME PairInv, SendA
    PROVE  PairInv'
<1>1. PA!IndInv /\ PA!NextOutgoing
  BY SameA DEF PairInv, SendA
<1>2. PA!IndInv'
  BY <1>1, PA!StepInv, EngineAssumptions DEF PA!Next, PA!Command
<1>3. /\ slotsA' = slotsA /\ UNCHANGED PA!numbers /\ tombstonesA' = tombstonesA
      /\ outgoingA # <<>> /\ outgoingA' = Tail(outgoingA)
  BY <1>1 DEF PA!NextOutgoing, PA!registry
<1>4. PA!Pending' = PA!Pending /\ PA!Waiting' = PA!Waiting
      /\ PA!Channels' = PA!Channels
  BY <1>3, PA!PhasesSame, EngineAssumptions
<1>5. PA!Numbered' = PA!Numbered
  BY <1>3, PA!NumberedSame, EngineAssumptions
<1>6. /\ UNCHANGED <<varsB, linkBA, told, up, cancelled>>
      /\ linkAB' = Append(linkAB, Head(outgoingA)) /\ "up" \in Guards
  BY DEF SendA, Guards
<1>7. SideA' = SideA
  BY <1>3, <1>4, <1>5, <1>6 DEF SideA
<1>8. Pair(SideA, SideB, Append(linkAB, Head(outgoingA)), Tail(outgoingA),
           linkBA, outgoingB, Guards)
  <2>1. Pair(SideA, SideB, linkAB, outgoingA, linkBA, outgoingB, Guards)
    BY ViewA
  <2> QED BY <1>3, <1>6, <2>1, PairSend
<1>9. Pair(SideA', SideB, linkAB', outgoingA', linkBA', outgoingB, Guards)
  BY <1>3, <1>6, <1>7, <1>8
<1>10. cancelled' \in [Sides -> Seq(Number)] /\ cancelled'["B"] = cancelled["B"]
  BY <1>6 DEF PairInv
<1> QED BY <1>2, <1>6, <1>9, <1>10, MovedA

\* A accuses B only over an answer to an open cancelled long ago.
LEMMA HonestA ==
    ASSUME PairInv, linkBA # <<>>, PA!Violation(Head(linkBA)) # "None"
    PROVE  \E n \in Number : /\ Answers(Head(linkBA), n) /\ n \notin SideA.pend
                             /\ LongAgo(SideA, n)
<1> DEFINE m == Head(linkBA)
<1>1. /\ PA!IndInv
      /\ Pair(SideA, SideB, linkAB, outgoingA, linkBA, outgoingB, Guards)
  BY ViewA
<1>2. /\ \A n \in Number : Announces(m, n) =>
            n \notin SideA.wait /\ \A c \in SideA.chan : c[2] # n
      /\ \A n \in Number : Answers(m, n) => Knows(SideA, n)
  BY <1>1, PairExpects
<1>3. \/ \E n \in Number : m = OpenMsg(n)
      \/ \E n, p \in Number : m = ConfirmMsg(p, n)
      \/ \E p \in Number : m = FailureMsg(p)
  BY <1>1, PairHead
<1>4. \A n \in Number : Announces(m, n) => ~PA!PeerNumberInUse(n)
  <2> SUFFICES ASSUME NEW n \in Number, Announces(m, n) PROVE ~PA!PeerNumberInUse(n)
    OBVIOUS
  <2>1. PA!PeerNumberInUse(n) <=>
           n \in PA!Waiting \/ \E c \in PA!Channels : c[2] = n
    BY <1>1, PA!PeerKnown, EngineAssumptions
  <2> QED BY <1>2, <2>1 DEF SideA
<1>5. \A n \in Number :
         \/ ~Knows(SideA, n) \/ PA!LocateReply(n) \in {"Pending", "Tombstone"}
         \/ LongAgo(SideA, n) /\ n \notin SideA.pend
  <2> SUFFICES ASSUME NEW n \in Number, Knows(SideA, n)
               PROVE  \/ PA!LocateReply(n) \in {"Pending", "Tombstone"}
                      \/ LongAgo(SideA, n) /\ n \notin SideA.pend
    OBVIOUS
  <2>1. n \in PA!Number
    BY SameValues
  <2>2. /\ n \in PA!Pending => PA!LocateReply(n) = "Pending"
        /\ (\E k \in DOMAIN tombstonesA : tombstonesA[k] = n) =>
              PA!LocateReply(n) = "Tombstone"
    BY <1>1, <2>1, PA!ReplyKnown, EngineAssumptions
  <2>3. SideA.pend = PA!Pending /\ SideA.tomb = tombstonesA
    BY DEF SideA
  <2> QED BY <2>2, <2>3 DEF Knows
<1> HIDE DEF m
<1>6. PA!Violation(m) # "None"
  BY DEF m
<1>7. CASE \E n \in Number : m = OpenMsg(n)
  <2>1. PICK n \in Number : m = OpenMsg(n)
    BY <1>7
  <2>2. Announces(m, n) /\ m.kind = "OPEN" /\ m.sender = n
    BY <2>1, MessageFields DEF Announces
  <2> QED BY <1>4, <1>6, <2>2 DEF PA!Violation
<1>8. CASE \E n, p \in Number : m = ConfirmMsg(p, n)
  <2>1. PICK n \in Number, p \in Number : m = ConfirmMsg(p, n)
    BY <1>8
  <2>2. /\ Announces(m, n) /\ Answers(m, p) /\ m.kind = "CONFIRMATION"
        /\ m.sender = n /\ m.recipient = p
    BY <2>1, MessageFields DEF Announces, Answers
  <2>3. PA!LocateReply(p) \notin {"Pending", "Tombstone"}
    BY <1>4, <1>6, <2>2 DEF PA!Violation
  <2> QED BY <1>2, <1>5, <2>2, <2>3 DEF m
<1>9. CASE \E p \in Number : m = FailureMsg(p)
  <2>1. PICK p \in Number : m = FailureMsg(p)
    BY <1>9
  <2>2. Answers(m, p) /\ m.kind = "FAILURE" /\ m.recipient = p
    BY <2>1, MessageFields DEF Answers
  <2>3. PA!LocateReply(p) \notin {"Pending", "Tombstone"}
    BY <1>6, <2>2 DEF PA!Violation
  <2> QED BY <1>2, <1>5, <2>2, <2>3 DEF m
<1> QED BY <1>3, <1>7, <1>8, <1>9

\* An open arrives.
LEMMA TakeToAInv ==
    ASSUME PairInv, UNCHANGED <<varsB, linkAB, told, up, cancelled>>,
           linkBA # <<>>, linkBA' = Tail(linkBA),
           NEW p \in Number, Head(linkBA) = OpenMsg(p),
           PA!HandleOpen(p) \/ PA!HandleOpenByLimit(p)
    PROVE  PairInv'
<1>1. PA!IndInv /\ p \in PA!Number
  BY SameValues DEF PairInv
<1>2. PA!IndInv'
  BY <1>1, PA!StepInv, EngineAssumptions DEF PA!Next, PA!PeerMessage
<1> DEFINE x == SideA  x2 == SideA'
<1>3. Pair(x, SideB, linkAB, outgoingA, linkBA, outgoingB, Guards)
  BY ViewA
<1>4. cancelled' \in [Sides -> Seq(Number)] /\ cancelled'["B"] = cancelled["B"]
  BY DEF PairInv
<1>5. CASE PA!HandleOpen(p)
  <2>1. /\ PA!Waiting' = PA!Waiting \cup {p}
        /\ PA!Pending' = PA!Pending /\ PA!Channels' = PA!Channels
        /\ PA!Numbered' = PA!Numbered
        /\ tombstonesA' = tombstonesA /\ outgoingA' = outgoingA
    BY <1>1, <1>5, PA!HandleOpenTold, EngineAssumptions
  <2>2. /\ x2.name = x.name /\ x2.alloc = x.alloc /\ x2.pend = x.pend
        /\ x2.wait = x.wait \cup {p} /\ x2.chan = x.chan /\ x2.tomb = x.tomb
        /\ x2.canc = x.canc
    BY <2>1 DEF SideA
  <2> HIDE DEF x, x2
  <2>3. Pair(x2, SideB, linkAB, outgoingA, Tail(linkBA), outgoingB, Guards)
    BY <1>3, <2>2, PairTake
  <2>4. Pair(SideA', SideB, linkAB', outgoingA', linkBA', outgoingB, Guards)
    BY <2>1, <2>3 DEF x2
  <2> QED BY <1>2, <1>4, <2>4, MovedA
<1>6. CASE PA!HandleOpenByLimit(p)
  <2>1. /\ PA!Pending' = PA!Pending /\ PA!Waiting' = PA!Waiting
        /\ PA!Channels' = PA!Channels /\ PA!Numbered' = PA!Numbered
        /\ tombstonesA' = tombstonesA
        /\ outgoingA' = Append(outgoingA, PA!FailureMsg(p))
    BY <1>6, PA!HandleOpenByLimitTold, EngineAssumptions
  <2>2. /\ x2.name = x.name /\ x2.alloc = x.alloc /\ x2.pend = x.pend
        /\ x2.wait = x.wait /\ x2.chan = x.chan /\ x2.tomb = x.tomb
        /\ x2.canc = x.canc
    BY <2>1 DEF SideA
  <2>3. outgoingA' = Append(outgoingA, FailureMsg(p))
    BY <2>1, SameValues
  <2> HIDE DEF x, x2
  <2>4. Pair(x2, SideB, linkAB, Append(outgoingA, FailureMsg(p)), Tail(linkBA),
             outgoingB, Guards)
    BY <1>3, <2>2, PairRefuseAtLimit
  <2>5. Pair(SideA', SideB, linkAB', outgoingA', linkBA', outgoingB, Guards)
    BY <2>3, <2>4 DEF x2
  <2> QED BY <1>2, <1>4, <2>5, MovedA
<1> QED BY <1>5, <1>6

\* The answer to a pending open arrives.
LEMMA HearToAInv ==
    ASSUME PairInv, UNCHANGED <<varsB, linkAB, told, up, cancelled>>,
           linkBA # <<>>, linkBA' = Tail(linkBA), NEW n \in Number,
           \/ \E p \in Number : Head(linkBA) = ConfirmMsg(n, p)
                                /\ PA!HandleConfirmation(n, p)
           \/ Head(linkBA) = FailureMsg(n) /\ PA!HandleFailure(n)
    PROVE  PairInv'
<1>1. PA!IndInv /\ PA!Number = Number
  BY SameValues DEF PairInv
<1>2. PA!IndInv'
  BY <1>1, PA!StepInv, EngineAssumptions DEF PA!Next, PA!PeerMessage
<1> DEFINE x == SideA  x2 == SideA'
<1>3. /\ Pair(x, SideB, linkAB, outgoingA, linkBA, outgoingB, Guards)
      /\ Buried(x)
  BY ViewA, PairExpects
<1>4. cancelled' \in [Sides -> Seq(Number)] /\ cancelled'["B"] = cancelled["B"]
  BY DEF PairInv
<1>5. /\ PA!Pending' = PA!Pending \ {n} /\ PA!Waiting' = PA!Waiting
      /\ PA!Numbered' = PA!Numbered /\ tombstonesA' = tombstonesA
      /\ outgoingA' = outgoingA
      /\ \/ \E p \in Number : /\ Head(linkBA) = ConfirmMsg(n, p)
                              /\ PA!Channels' = PA!Channels \cup {<<n, p>>}
         \/ Head(linkBA) = FailureMsg(n) /\ PA!Channels' = PA!Channels
  <2>1. CASE \E p \in Number : Head(linkBA) = ConfirmMsg(n, p)
                               /\ PA!HandleConfirmation(n, p)
    <3>1. PICK p \in Number : Head(linkBA) = ConfirmMsg(n, p)
                              /\ PA!HandleConfirmation(n, p)
      BY <2>1
    <3>2. /\ PA!Pending' = PA!Pending \ {n} /\ PA!Waiting' = PA!Waiting
          /\ PA!Channels' = PA!Channels \cup {<<n, p>>}
          /\ PA!Numbered' = PA!Numbered /\ tombstonesA' = tombstonesA
          /\ outgoingA' = outgoingA
      BY <1>1, <3>1, PA!HandleConfirmationTold, EngineAssumptions
    <3> QED BY <3>1, <3>2
  <2>2. CASE Head(linkBA) = FailureMsg(n) /\ PA!HandleFailure(n)
    <3>1. /\ PA!Pending' = PA!Pending \ {n} /\ PA!Waiting' = PA!Waiting
          /\ PA!Channels' = PA!Channels
          /\ PA!Numbered' = PA!Numbered /\ tombstonesA' = tombstonesA
          /\ outgoingA' = outgoingA
      BY <1>1, <2>2, PA!HandleFailureTold, EngineAssumptions
    <3> QED BY <2>2, <3>1
  <2> QED BY <2>1, <2>2
<1>6. /\ x2.name = x.name /\ x2.alloc = x.alloc /\ x2.pend = x.pend \ {n}
      /\ x2.wait = x.wait /\ x2.tomb = x.tomb /\ x2.canc = x.canc
      /\ \/ \E p \in Number : Head(linkBA) = ConfirmMsg(n, p)
                              /\ x2.chan = x.chan \cup {<<n, p>>}
         \/ Head(linkBA) = FailureMsg(n) /\ x2.chan = x.chan
  BY <1>5 DEF SideA
<1> HIDE DEF x, x2
<1>7. /\ Answers(Head(linkBA), n)
      /\ \/ \E p \in Number : Head(linkBA) = ConfirmMsg(n, p)
                              /\ x2.chan = x.chan \cup {<<n, p>>}
         \/ Head(linkBA).kind = "FAILURE" /\ x2.chan = x.chan
  BY <1>6, MessageFields DEF Answers
<1>8. Buried(x2) /\ \A k : k # n /\ Knows(x, k) => Knows(x2, k)
  BY <1>3, <1>6 DEF Buried, Knows, LongAgo
<1>9. Pair(x2, SideB, linkAB, outgoingA, Tail(linkBA), outgoingB, Guards)
  BY <1>3, <1>6, <1>7, <1>8, PairHear
<1>10. Pair(SideA', SideB, linkAB', outgoingA', linkBA', outgoingB, Guards)
  BY <1>5, <1>9 DEF x2
<1> QED BY <1>2, <1>4, <1>10, MovedA

\* The answer to a cancelled open arrives.
LEMMA LateToAInv ==
    ASSUME PairInv, UNCHANGED <<varsB, linkAB, told, up, cancelled>>,
           linkBA # <<>>, linkBA' = Tail(linkBA),
           NEW n \in Number, Answers(Head(linkBA), n),
           PA!HandleLateFailure(n) \/ \E p \in Number : PA!HandleLateConfirmation(n, p)
    PROVE  PairInv'
<1>1. PA!IndInv /\ PA!Number = Number
  BY SameValues DEF PairInv
<1>2. PA!IndInv'
  BY <1>1, PA!StepInv, EngineAssumptions DEF PA!Next, PA!PeerMessage
<1> DEFINE x == SideA  x2 == SideA'
<1>3. /\ Pair(x, SideB, linkAB, outgoingA, linkBA, outgoingB, Guards)
      /\ Buried(x)
  BY ViewA, PairExpects
<1>4. cancelled' \in [Sides -> Seq(Number)] /\ cancelled'["B"] = cancelled["B"]
  BY DEF PairInv
<1>5. /\ PA!Pending' = PA!Pending /\ PA!Waiting' = PA!Waiting
      /\ PA!Channels' = PA!Channels
      /\ PA!Numbered' = PA!Numbered /\ outgoingA' = outgoingA
      /\ n \notin PA!Pending
      /\ \E k \in DOMAIN tombstonesA :
            /\ tombstonesA[k] = n
            /\ Len(tombstonesA') = Len(tombstonesA) - 1
            /\ \A i \in DOMAIN tombstonesA' :
                  IF i < k THEN i \in DOMAIN tombstonesA
                                /\ tombstonesA'[i] = tombstonesA[i]
                  ELSE i + 1 \in DOMAIN tombstonesA
                       /\ tombstonesA'[i] = tombstonesA[i + 1]
  BY <1>1, PA!LateTold, EngineAssumptions
<1>6. tombstonesA' \in Seq(Number)
  BY <1>2 DEF PA!IndInv, PA!TypeOK, PA!Number, Number
<1>7. PICK k : Taken(x.tomb, x2.tomb, k) /\ x.tomb[k] = n
  <2>1. \E k : Taken(tombstonesA, tombstonesA', k) /\ tombstonesA[k] = n
    BY <1>5 DEF Taken
  <2>2. x.tomb = tombstonesA /\ x2.tomb = tombstonesA'
    BY DEF SideA
  <2> HIDE DEF x, x2
  <2> QED BY <2>1, <2>2
<1>8. /\ x2.name = x.name /\ x2.alloc = x.alloc /\ x2.pend = x.pend /\ n \notin x.pend
      /\ x2.wait = x.wait /\ x2.chan = x.chan /\ x2.canc = x.canc
      /\ x2.tomb \in Seq(Number)
  BY <1>5, <1>6 DEF SideA
<1> HIDE DEF x, x2
<1>9. /\ Buried(x2)
      /\ \A j : j # n /\ Knows(x, j) => Knows(x2, j)
      /\ \E j \in DOMAIN x.canc : x.canc[j] = n
  BY <1>3, <1>7, <1>8, LateConsumes
<1>10. x2.pend = x.pend \ {n}
  BY <1>8
<1>11. Pair(x2, SideB, linkAB, outgoingA, Tail(linkBA), outgoingB, Guards)
  BY <1>3, <1>8, <1>9, <1>10, PairHear
<1>12. Pair(SideA', SideB, linkAB', outgoingA', linkBA', outgoingB, Guards)
  BY <1>5, <1>11 DEF x2
<1> QED BY <1>2, <1>4, <1>12, MovedA

\* A message A rejects arrives.
LEMMA RejectToAInv ==
    ASSUME PairInv, UNCHANGED <<varsB, linkAB, told, up, cancelled>>,
           linkBA # <<>>, linkBA' = Tail(linkBA),
           PA!Violation(Head(linkBA)) # "None", UNCHANGED varsA
    PROVE  PairInv'
<1>1. PICK n \in Number : /\ Answers(Head(linkBA), n) /\ n \notin SideA.pend
                          /\ LongAgo(SideA, n)
  BY HonestA
<1>2. cancelled' \in [Sides -> Seq(Number)] /\ cancelled'["A"] = cancelled["A"]
      /\ cancelled'["B"] = cancelled["B"]
  BY DEF PairInv
<1>3. PA!IndInv' /\ SideA' = SideA /\ outgoingA' = outgoingA
  BY <1>2, RestA
<1> DEFINE x == SideA
<1>4. /\ Pair(x, SideB, linkAB, outgoingA, linkBA, outgoingB, Guards)
      /\ Buried(x)
  BY ViewA, PairExpects
<1>5. \E j \in DOMAIN x.canc : x.canc[j] = n
  BY <1>1, <1>4, LongAgoCancelled
<1>6. x.pend = x.pend \ {n}
  BY <1>1
<1> HIDE DEF x
<1>7. Pair(x, SideB, linkAB, outgoingA, Tail(linkBA), outgoingB, Guards)
  BY <1>1, <1>4, <1>5, <1>6, PairHear
<1>8. Pair(SideA', SideB, linkAB', outgoingA', linkBA', outgoingB, Guards)
  BY <1>3, <1>7 DEF x
<1> QED BY <1>2, <1>3, <1>8, MovedA

\* The binding of A hands over the next message.
LEMMA DeliverToAInv ==
    ASSUME PairInv, DeliverToA
    PROVE  PairInv'
<1> DEFINE m == Head(linkBA)
<1>1. /\ UNCHANGED <<varsB, linkAB, told, up, cancelled>>
      /\ linkBA # <<>> /\ linkBA' = Tail(linkBA)
  BY DEF DeliverToA
<1>2. \/ m.kind = "OPEN" /\ (PA!HandleOpen(m.sender) \/ PA!HandleOpenByLimit(m.sender))
      \/ m.kind = "CONFIRMATION" /\
           (\/ PA!HandleConfirmation(m.recipient, m.sender)
            \/ PA!HandleLateConfirmation(m.recipient, m.sender))
      \/ m.kind = "FAILURE" /\
           (PA!HandleFailure(m.recipient) \/ PA!HandleLateFailure(m.recipient))
      \/ PA!Violation(m) # "None" /\ UNCHANGED varsA
  BY SameA DEF DeliverToA
<1>3. \/ \E n \in Number : m = OpenMsg(n)
      \/ \E n, p \in Number : m = ConfirmMsg(p, n)
      \/ \E p \in Number : m = FailureMsg(p)
  BY <1>1, ViewA, PairHead
<1>4. CASE PA!Violation(m) # "None" /\ UNCHANGED varsA
  BY <1>1, <1>4, RejectToAInv
<1>5. CASE \E n \in Number :
              m = OpenMsg(n) /\ (PA!HandleOpen(n) \/ PA!HandleOpenByLimit(n))
  BY <1>1, <1>5, TakeToAInv
<1>6. CASE \E n \in Number :
              \/ \E p \in Number : m = ConfirmMsg(n, p) /\ PA!HandleConfirmation(n, p)
              \/ m = FailureMsg(n) /\ PA!HandleFailure(n)
  BY <1>1, <1>6, HearToAInv
<1>7. CASE \E n \in Number :
              \/ \E p \in Number : m = ConfirmMsg(n, p) /\ PA!HandleLateConfirmation(n, p)
              \/ m = FailureMsg(n) /\ PA!HandleLateFailure(n)
  <2>1. PICK n \in Number :
              \/ \E p \in Number : m = ConfirmMsg(n, p) /\ PA!HandleLateConfirmation(n, p)
              \/ m = FailureMsg(n) /\ PA!HandleLateFailure(n)
    BY <1>7
  <2>2. /\ Answers(m, n)
        /\ PA!HandleLateFailure(n) \/ \E p \in Number : PA!HandleLateConfirmation(n, p)
    BY <2>1, MessageFields DEF Answers
  <2> QED BY <1>1, <2>2, LateToAInv
<1> HIDE DEF m
<1>8. CASE \E n \in Number : m = OpenMsg(n)
  BY <1>2, <1>4, <1>5, <1>8, MessageFields
<1>9. CASE \E n, p \in Number : m = ConfirmMsg(p, n)
  BY <1>2, <1>4, <1>6, <1>7, <1>9, MessageFields
<1>10. CASE \E p \in Number : m = FailureMsg(p)
  BY <1>2, <1>4, <1>6, <1>7, <1>10, MessageFields
<1> QED BY <1>3, <1>8, <1>9, <1>10

\* A is told of the loss of the transport.
LEMMA TellAInv ==
    ASSUME PairInv, TellA
    PROVE  PairInv'
<1>1. PA!IndInv /\ PA!TransportLost
  BY SameA DEF PairInv, TellA
<1>2. PA!IndInv'
  BY <1>1, PA!StepInv, EngineAssumptions DEF PA!Next, PA!Command
<1>3. /\ PA!Pending' = {} /\ PA!Waiting' = {} /\ PA!Channels' = {}
      /\ PA!Numbered' = PA!Numbered /\ tombstonesA' = tombstonesA
      /\ outgoingA' = <<>>
  BY <1>1, PA!LostTold, EngineAssumptions
<1>4. /\ UNCHANGED <<varsB, linkAB, linkBA, up, cancelled>>
      /\ ~up /\ told' = told \cup {"A"}
  BY DEF TellA
<1>5. /\ cancelled'["B"] = cancelled["B"] /\ up' \in BOOLEAN
      /\ cancelled' \in [Sides -> Seq(Number)] /\ told' \subseteq Sides
  BY <1>4 DEF PairInv, Sides
<1>6. PB!IndInv' /\ SideB' = SideB /\ outgoingB' = outgoingB
  BY <1>4, <1>5, RestB
<1>7. "up" \notin Guards /\ Guards' = Guards \cup {"A"}
  BY <1>4 DEF Guards, PairInv, Sides
<1> DEFINE x == SideA  x2 == SideA'
<1>8. /\ x2.name = x.name /\ x.name = "A" /\ SideB.name = "B"
      /\ x2.alloc = x.alloc /\ x2.pend = {} /\ x2.wait = {} /\ x2.chan = {}
      /\ x2.tomb = x.tomb /\ x2.canc = x.canc
  BY <1>3, <1>4 DEF SideA, SideB
<1>9. Pair(x, SideB, linkAB, outgoingA, linkBA, outgoingB, Guards)
  BY ViewA
<1> HIDE DEF x, x2
<1>10. Pair(x2, SideB, linkAB, <<>>, linkBA, outgoingB, Guards \cup {x.name})
  BY <1>7, <1>8, <1>9, PairLost
<1>11. Pair(SideA', SideB', linkAB', outgoingA', linkBA', outgoingB', Guards')
  BY <1>3, <1>4, <1>6, <1>7, <1>8, <1>10 DEF x2
<1>12. Pair(SideA', SideB', linkAB', outgoingA', linkBA', outgoingB', Guards')
  BY <1>11, PairTurned
<1> QED BY <1>2, <1>5, <1>6, <1>12 DEF PairInv

\* One answer is coming to an open of A.
LEMMA OneAnswerA ==
    ASSUME PairInv, NEW n \in Number
    PROVE  LET c == Carriers(linkAB \o outgoingA, slotsB, linkBA \o outgoingB, n) IN
           /\ c <= 1
           /\ up /\ (\E i \in DOMAIN slotsA : A!LocatedPending(i, n)) => c = 1
<1> DEFINE W == Awaiting(slotsB, n)
<1>1. Pair(SideA, SideB, linkAB, outgoingA, linkBA, outgoingB, Guards)
  BY ViewA
<1>2. \A a, b \in W : a = b
  BY DEF PairInv, PB!IndInv, PB!PeerNumbersUnique, PB!HasPeer, PB!In, PB!Phase,
         Awaiting
<1>3. n \in SideB.wait <=> W # {}
  <2>1. n \in PB!Waiting <=> \E i \in PB!In("PendingIncoming") : slotsB[i].state.peer = n
    BY PB!PhaseSets, EngineAssumptions
  <2>2. SideB.wait = PB!Waiting
    BY DEF SideB
  <2> QED BY <2>1, <2>2 DEF Awaiting, PB!In, PB!Phase
<1>4. (\E i \in DOMAIN slotsA : A!LocatedPending(i, n)) => n \in SideA.pend
  <2>1. n \in PA!Pending <=> \E i \in PA!In("PendingOutgoing") : slotsA[i].state.local = n
    BY PA!PhaseSets, EngineAssumptions
  <2>2. SideA.pend = PA!Pending
    BY DEF SideA
  <2> QED BY <2>1, <2>2 DEF A!LocatedPending, A!In, A!Phase, PA!In, PA!Phase
<1>5. up => "up" \in Guards
  BY DEF Guards
<1> HIDE DEF W
<1>6. LET c == Cardinality(Opens(linkAB \o outgoingA, n)) + Cardinality(W)
                 + Cardinality(Replies(linkBA \o outgoingB, n)) IN
      c <= 1 /\ ("up" \in Guards /\ n \in SideA.pend => c = 1)
  BY <1>1, <1>2, <1>3, PairOneAnswer
<1> QED BY <1>4, <1>5, <1>6 DEF Carriers, W

\* What B calls established.
LEMMA AgreeA ==
    ASSUME PairInv, up, NEW i \in B!In("Established")
    PROVE  LET n == slotsB[i].state.local  p == slotsB[i].state.peer IN
           \/ HasChannel(slotsA, p, n)
           \/ Contains(linkBA \o outgoingB, A!ConfirmMsg(p, n))
           \/ Contains(cancelled["A"], p)
<1> DEFINE n == slotsB[i].state.local  p == slotsB[i].state.peer
<1>1. /\ Pair(SideA, SideB, linkAB, outgoingA, linkBA, outgoingB, Guards)
      /\ PA!IndInv /\ "up" \in Guards
  BY ViewA DEF Guards
<1>2. <<n, p>> \in SideB.chan
  <2>1. i \in PB!In("Established")
    BY DEF B!In, PB!In, B!Phase, PB!Phase
  <2>2. <<n, p>> \in PB!Channels
    BY <2>1, PB!PhaseSets, EngineAssumptions
  <2> QED BY <2>2 DEF SideB
<1> HIDE DEF n, p
<1>3. \/ <<p, n>> \in SideA.chan
      \/ Contains(linkBA \o outgoingB, ConfirmMsg(p, n))
      \/ Contains(SideA.canc, p)
  BY <1>1, <1>2, PairSameChannels
<1>4. SideA.canc = cancelled["A"] /\ SideA.chan = PA!Channels
      /\ ConfirmMsg(p, n) = A!ConfirmMsg(p, n)
  BY DEF SideA, ConfirmMsg, A!ConfirmMsg
<1>5. <<p, n>> \in PA!Channels => HasChannel(slotsA, p, n)
  <2> SUFFICES ASSUME <<p, n>> \in PA!Channels PROVE HasChannel(slotsA, p, n)
    OBVIOUS
  <2>1. PICK j \in PA!In("Established") :
             <<p, n>> = <<slotsA[j].state.local, slotsA[j].state.peer>>
    BY PA!PhaseSets, EngineAssumptions
  <2>2. /\ j \in DOMAIN slotsA /\ slotsA[j].state.phase = "Established"
        /\ slotsA[j].state.local = p /\ slotsA[j].state.peer = n
    BY <2>1 DEF PA!In, PA!Phase
  <2>3. slotsA[j].state \in PA!State
    <3>1. slotsA \in Seq(PA!Slot)
      BY <1>1 DEF PA!IndInv, PA!TypeOK
    <3>2. \A k \in DOMAIN slotsA : slotsA[k] \in PA!Slot
      BY <3>1, ElementOfSeq, LenProperties
    <3> QED BY <2>2, <3>2 DEF PA!Slot
  <2>4. ASSUME NEW st \in PA!State, st.phase = "Established"
        PROVE  st = A!Established(st.local, st.peer)
    <3>1. PICK c \in PA!Number \X PA!Number : st = PA!Established(c[1], c[2])
      BY <2>4 DEF PA!State, PA!Vacant, PA!PendingOutgoing, PA!PendingIncoming
    <3> QED BY <3>1 DEF PA!Established, A!Established
  <2>5. slotsA[j].state = A!Established(p, n)
    BY <2>2, <2>3, <2>4
  <2> QED BY <2>2, <2>5 DEF HasChannel
<1> QED BY <1>3, <1>4, <1>5 DEF n, p

----------------------------------------------------------------------------
(* The steps of B: the same, with the sides exchanged.                     *)

\* What the invariant says with B as the one that moves.
LEMMA ViewB ==
    ASSUME PairInv
    PROVE  /\ PB!IndInv
           /\ Pair(SideB, SideA, linkBA, outgoingB, linkAB, outgoingA, Guards)
           /\ SideB.tomb = tombstonesB /\ SideB.tomb \in Seq(Number)
           /\ Len(SideB.tomb) <= MaxTombstones
<1>1. /\ PB!IndInv
      /\ Pair(SideB, SideA, linkBA, outgoingB, linkAB, outgoingA, Guards)
  BY PairTurned DEF PairInv
<1>2. tombstonesB \in Seq(PB!Number) /\ Len(tombstonesB) <= MaxTombstones
  BY <1>1, PB!ToldTyped, EngineAssumptions
<1> QED BY <1>1, <1>2, SameValues DEF SideB

\* A step of B and its streams, the transport as it was.
LEMMA MovedB ==
    ASSUME PairInv, PB!IndInv', UNCHANGED <<varsA, told, up>>,
           cancelled' \in [Sides -> Seq(Number)], cancelled'["A"] = cancelled["A"],
           Pair(SideB', SideA, linkBA', outgoingB', linkAB', outgoingA, Guards)
    PROVE  PairInv'
<1>1. PA!IndInv' /\ SideA' = SideA /\ outgoingA' = outgoingA
  BY RestA
<1>2. Guards' = Guards
  BY DEF Guards
<1>3. Pair(SideB', SideA', linkBA', outgoingB', linkAB', outgoingA', Guards')
  BY <1>1, <1>2
<1>4. Pair(SideA', SideB', linkAB', outgoingA', linkBA', outgoingB', Guards')
  BY <1>3, PairTurned
<1>5. up' \in BOOLEAN /\ told' \subseteq Sides
  BY DEF PairInv
<1> QED BY <1>1, <1>4, <1>5 DEF PairInv

\* B opens.
LEMMA OpenBInv ==
    ASSUME PairInv, OpenB
    PROVE  PairInv'
<1>1. PB!IndInv /\ PB!Open
  BY SameB DEF PairInv, OpenB
<1>2. PB!IndInv'
  BY <1>1, PB!StepInv, EngineAssumptions DEF PB!Next, PB!Command
<1> DEFINE n == nextLocalB
<1>3. /\ n \in PB!Number /\ n \notin PB!Numbered
      /\ PB!Pending' = PB!Pending \cup {n}
      /\ PB!Waiting' = PB!Waiting /\ PB!Channels' = PB!Channels
      /\ PB!Numbered' = PB!Numbered \cup {n}
      /\ tombstonesB' = tombstonesB
      /\ outgoingB' = Append(outgoingB, PB!OpenMsg(n))
  BY <1>1, PB!OpenTold, EngineAssumptions
<1>4. UNCHANGED <<varsA, linkBA, linkAB, told, up, cancelled>>
  BY DEF OpenB, transport
<1> HIDE DEF n
<1> DEFINE x == SideB  x2 == SideB'
<1>5. /\ x2.name = x.name /\ n \notin x.alloc /\ x2.alloc = x.alloc \cup {n}
      /\ x2.pend = x.pend \cup {n} /\ x2.wait = x.wait /\ x2.chan = x.chan
      /\ x2.tomb = x.tomb /\ x2.canc = x.canc
  BY <1>3, <1>4 DEF SideB
<1>6. n \in Number /\ outgoingB' = Append(outgoingB, OpenMsg(n))
  BY <1>3, SameValues
<1>7. Pair(x, SideA, linkBA, outgoingB, linkAB, outgoingA, Guards)
  BY ViewB
<1> HIDE DEF x, x2
<1>8. Pair(x2, SideA, linkBA, Append(outgoingB, OpenMsg(n)), linkAB, outgoingA, Guards)
  BY <1>5, <1>6, <1>7, PairOpen
<1>9. Pair(SideB', SideA, linkBA', outgoingB', linkAB', outgoingA, Guards)
  BY <1>4, <1>6, <1>8 DEF x2
<1>10. cancelled' \in [Sides -> Seq(Number)] /\ cancelled'["A"] = cancelled["A"]
  BY <1>4 DEF PairInv
<1> QED BY <1>2, <1>4, <1>9, <1>10, MovedB

\* B cancels a pending open.
LEMMA CancelBInv ==
    ASSUME PairInv, NEW h \in A!Handle, CancelB(h)
    PROVE  PairInv'
<1>1. PB!IndInv /\ PB!Cancel(h) /\ h \in PB!Handle
  BY SameB DEF PairInv, CancelB
<1>2. PB!IndInv'
  BY <1>1, PB!StepInv, EngineAssumptions DEF PB!Next, PB!Command
<1> DEFINE n == slotsB[h.index].state.local
<1>3. /\ n \in PB!Pending /\ PB!Pending' = PB!Pending \ {n}
      /\ PB!Waiting' = PB!Waiting /\ PB!Channels' = PB!Channels
      /\ PB!Numbered' = PB!Numbered
      /\ tombstonesB' = IF Len(tombstonesB) < MaxTombstones
                       THEN Append(tombstonesB, n) ELSE Tail(Append(tombstonesB, n))
      /\ outgoingB' = outgoingB
  BY <1>1, PB!CancelTold, EngineAssumptions
<1>4. /\ UNCHANGED <<varsA, linkBA, linkAB, told, up>>
      /\ cancelled' = [cancelled EXCEPT !["B"] = Append(@, n)]
  BY DEF CancelB, transport
<1>5. n \in Number
  BY <1>1, <1>3, SameValues, PB!ToldTyped, EngineAssumptions
<1> HIDE DEF n
<1>6. /\ cancelled' \in [Sides -> Seq(Number)] /\ cancelled'["A"] = cancelled["A"]
      /\ cancelled'["B"] = Append(cancelled["B"], n)
  <2>1. cancelled \in [Sides -> Seq(Number)] /\ "A" \in Sides /\ "B" \in Sides
    BY DEF PairInv, Sides
  <2>2. Append(cancelled["B"], n) \in Seq(Number)
    BY <1>5, <2>1, AppendProperties
  <2> QED BY <1>4, <2>1, <2>2
<1> DEFINE x == SideB  x2 == SideB'
<1>7. /\ x2.name = x.name /\ x2.alloc = x.alloc /\ x2.wait = x.wait /\ x2.chan = x.chan
      /\ x2.pend = x.pend \ {n} /\ x2.canc = Append(x.canc, n)
  BY <1>3, <1>6 DEF SideB
<1>8. tombstonesB' = Bury(tombstonesB, n)
  BY <1>3 DEF Bury
<1>9. x2.tomb = Bury(x.tomb, n)
  BY <1>8 DEF SideB
<1>10. /\ Pair(x, SideA, linkBA, outgoingB, linkAB, outgoingA, Guards)
       /\ Len(x.tomb) <= MaxTombstones
  BY ViewB
<1> HIDE DEF x, x2
<1>11. Cancels(x, x2, n)
  BY <1>7, <1>9 DEF Cancels
<1>12. Pair(x2, SideA, linkBA, outgoingB, linkAB, outgoingA, Guards)
  BY <1>5, <1>7, <1>10, <1>11, PairCancel
<1>13. Pair(SideB', SideA, linkBA', outgoingB', linkAB', outgoingA, Guards)
  BY <1>3, <1>4, <1>12 DEF x2
<1> QED BY <1>2, <1>4, <1>6, <1>13, MovedB

\* B accepts or refuses an open of A.
LEMMA DecideBInv ==
    ASSUME PairInv, NEW h \in A!Handle, DecideB(h)
    PROVE  PairInv'
<1>0. PB!IndInv /\ h \in PB!Handle
  BY SameB DEF PairInv
<1>1. UNCHANGED <<varsA, linkBA, linkAB, told, up, cancelled>>
  BY DEF DecideB, transport
<1>2. cancelled' \in [Sides -> Seq(Number)] /\ cancelled'["A"] = cancelled["A"]
  BY <1>1 DEF PairInv
<1>3. Pair(SideB, SideA, linkBA, outgoingB, linkAB, outgoingA, Guards)
  BY ViewB
<1> DEFINE x == SideB  x2 == SideB'  n == nextLocalB  p == slotsB[h.index].state.peer
<1>4. CASE PB!Accept(h)
  <2>1. PB!IndInv'
    BY <1>0, <1>4, PB!StepInv, EngineAssumptions DEF PB!Next, PB!Command
  <2>2. /\ n \in PB!Number /\ n \notin PB!Numbered
        /\ p \in PB!Waiting /\ PB!Waiting' = PB!Waiting \ {p}
        /\ PB!Pending' = PB!Pending /\ PB!Channels' = PB!Channels \cup {<<n, p>>}
        /\ PB!Numbered' = PB!Numbered \cup {n}
        /\ tombstonesB' = tombstonesB
        /\ outgoingB' = Append(outgoingB, PB!ConfirmMsg(p, n))
    BY <1>0, <1>4, PB!AcceptTold, EngineAssumptions
  <2> HIDE DEF n, p
  <2>3. /\ x2.name = x.name /\ n \notin x.alloc /\ x2.alloc = x.alloc \cup {n}
        /\ x2.pend = x.pend /\ p \in x.wait /\ x2.wait = x.wait \ {p}
        /\ x2.chan = x.chan \cup {<<n, p>>} /\ x2.tomb = x.tomb /\ x2.canc = x.canc
    BY <1>1, <2>2 DEF SideB
  <2>4. n \in Number /\ outgoingB' = Append(outgoingB, ConfirmMsg(p, n))
    BY <2>2, SameValues
  <2> HIDE DEF x, x2
  <2>5. Pair(x2, SideA, linkBA, Append(outgoingB, ConfirmMsg(p, n)), linkAB,
             outgoingA, Guards)
    <3>1. Pair(x, SideA, linkBA, outgoingB, linkAB, outgoingA, Guards)
      BY <1>3 DEF x
    <3> QED BY <2>3, <2>4, <3>1, PairAccept
  <2>6. Pair(SideB', SideA, linkBA', outgoingB', linkAB', outgoingA, Guards)
    BY <1>1, <2>4, <2>5 DEF x2
  <2> QED BY <1>1, <1>2, <2>1, <2>6, MovedB
<1>5. CASE PB!Refuse(h) \/ PB!AcceptExhausted(h)
  <2>1. PB!IndInv'
    BY <1>0, <1>5, PB!StepInv, EngineAssumptions DEF PB!Next, PB!Command
  <2>2. /\ p \in PB!Waiting /\ PB!Waiting' = PB!Waiting \ {p}
        /\ PB!Pending' = PB!Pending /\ PB!Channels' = PB!Channels
        /\ PB!Numbered' = PB!Numbered
        /\ tombstonesB' = tombstonesB
        /\ outgoingB' = Append(outgoingB, PB!FailureMsg(p))
    BY <1>0, <1>5, PB!RefuseTold, EngineAssumptions
  <2> HIDE DEF p
  <2>3. /\ x2.name = x.name /\ x2.alloc = x.alloc
        /\ x2.pend = x.pend /\ p \in x.wait /\ x2.wait = x.wait \ {p}
        /\ x2.chan = x.chan /\ x2.tomb = x.tomb /\ x2.canc = x.canc
    BY <1>1, <2>2 DEF SideB
  <2>4. outgoingB' = Append(outgoingB, FailureMsg(p))
    BY <2>2, SameValues
  <2> HIDE DEF x, x2
  <2>5. Pair(x2, SideA, linkBA, Append(outgoingB, FailureMsg(p)), linkAB,
             outgoingA, Guards)
    <3>1. Pair(x, SideA, linkBA, outgoingB, linkAB, outgoingA, Guards)
      BY <1>3 DEF x
    <3> QED BY <2>3, <3>1, PairRefuse
  <2>6. Pair(SideB', SideA, linkBA', outgoingB', linkAB', outgoingA, Guards)
    BY <1>1, <2>4, <2>5 DEF x2
  <2> QED BY <1>1, <1>2, <2>1, <2>6, MovedB
<1> QED BY <1>4, <1>5, SameB DEF DecideB

\* The binding of B sends what is next in the queue.
LEMMA SendBInv ==
    ASSUME PairInv, SendB
    PROVE  PairInv'
<1>1. PB!IndInv /\ PB!NextOutgoing
  BY SameB DEF PairInv, SendB
<1>2. PB!IndInv'
  BY <1>1, PB!StepInv, EngineAssumptions DEF PB!Next, PB!Command
<1>3. /\ slotsB' = slotsB /\ UNCHANGED PB!numbers /\ tombstonesB' = tombstonesB
      /\ outgoingB # <<>> /\ outgoingB' = Tail(outgoingB)
  BY <1>1 DEF PB!NextOutgoing, PB!registry
<1>4. PB!Pending' = PB!Pending /\ PB!Waiting' = PB!Waiting
      /\ PB!Channels' = PB!Channels
  BY <1>3, PB!PhasesSame, EngineAssumptions
<1>5. PB!Numbered' = PB!Numbered
  BY <1>3, PB!NumberedSame, EngineAssumptions
<1>6. /\ UNCHANGED <<varsA, linkAB, told, up, cancelled>>
      /\ linkBA' = Append(linkBA, Head(outgoingB)) /\ "up" \in Guards
  BY DEF SendB, Guards
<1>7. SideB' = SideB
  BY <1>3, <1>4, <1>5, <1>6 DEF SideB
<1>8. Pair(SideB, SideA, Append(linkBA, Head(outgoingB)), Tail(outgoingB),
           linkAB, outgoingA, Guards)
  <2>1. Pair(SideB, SideA, linkBA, outgoingB, linkAB, outgoingA, Guards)
    BY ViewB
  <2> QED BY <1>3, <1>6, <2>1, PairSend
<1>9. Pair(SideB', SideA, linkBA', outgoingB', linkAB', outgoingA, Guards)
  BY <1>3, <1>6, <1>7, <1>8
<1>10. cancelled' \in [Sides -> Seq(Number)] /\ cancelled'["A"] = cancelled["A"]
  BY <1>6 DEF PairInv
<1> QED BY <1>2, <1>6, <1>9, <1>10, MovedB

\* B accuses A only over an answer to an open cancelled long ago.
LEMMA HonestB ==
    ASSUME PairInv, linkAB # <<>>, PB!Violation(Head(linkAB)) # "None"
    PROVE  \E n \in Number : /\ Answers(Head(linkAB), n) /\ n \notin SideB.pend
                             /\ LongAgo(SideB, n)
<1> DEFINE m == Head(linkAB)
<1>1. /\ PB!IndInv
      /\ Pair(SideB, SideA, linkBA, outgoingB, linkAB, outgoingA, Guards)
  BY ViewB
<1>2. /\ \A n \in Number : Announces(m, n) =>
            n \notin SideB.wait /\ \A c \in SideB.chan : c[2] # n
      /\ \A n \in Number : Answers(m, n) => Knows(SideB, n)
  BY <1>1, PairExpects
<1>3. \/ \E n \in Number : m = OpenMsg(n)
      \/ \E n, p \in Number : m = ConfirmMsg(p, n)
      \/ \E p \in Number : m = FailureMsg(p)
  BY <1>1, PairHead
<1>4. \A n \in Number : Announces(m, n) => ~PB!PeerNumberInUse(n)
  <2> SUFFICES ASSUME NEW n \in Number, Announces(m, n) PROVE ~PB!PeerNumberInUse(n)
    OBVIOUS
  <2>1. PB!PeerNumberInUse(n) <=>
           n \in PB!Waiting \/ \E c \in PB!Channels : c[2] = n
    BY <1>1, PB!PeerKnown, EngineAssumptions
  <2> QED BY <1>2, <2>1 DEF SideB
<1>5. \A n \in Number :
         \/ ~Knows(SideB, n) \/ PB!LocateReply(n) \in {"Pending", "Tombstone"}
         \/ LongAgo(SideB, n) /\ n \notin SideB.pend
  <2> SUFFICES ASSUME NEW n \in Number, Knows(SideB, n)
               PROVE  \/ PB!LocateReply(n) \in {"Pending", "Tombstone"}
                      \/ LongAgo(SideB, n) /\ n \notin SideB.pend
    OBVIOUS
  <2>1. n \in PB!Number
    BY SameValues
  <2>2. /\ n \in PB!Pending => PB!LocateReply(n) = "Pending"
        /\ (\E k \in DOMAIN tombstonesB : tombstonesB[k] = n) =>
              PB!LocateReply(n) = "Tombstone"
    BY <1>1, <2>1, PB!ReplyKnown, EngineAssumptions
  <2>3. SideB.pend = PB!Pending /\ SideB.tomb = tombstonesB
    BY DEF SideB
  <2> QED BY <2>2, <2>3 DEF Knows
<1> HIDE DEF m
<1>6. PB!Violation(m) # "None"
  BY DEF m
<1>7. CASE \E n \in Number : m = OpenMsg(n)
  <2>1. PICK n \in Number : m = OpenMsg(n)
    BY <1>7
  <2>2. Announces(m, n) /\ m.kind = "OPEN" /\ m.sender = n
    BY <2>1, MessageFields DEF Announces
  <2> QED BY <1>4, <1>6, <2>2 DEF PB!Violation
<1>8. CASE \E n, p \in Number : m = ConfirmMsg(p, n)
  <2>1. PICK n \in Number, p \in Number : m = ConfirmMsg(p, n)
    BY <1>8
  <2>2. /\ Announces(m, n) /\ Answers(m, p) /\ m.kind = "CONFIRMATION"
        /\ m.sender = n /\ m.recipient = p
    BY <2>1, MessageFields DEF Announces, Answers
  <2>3. PB!LocateReply(p) \notin {"Pending", "Tombstone"}
    BY <1>4, <1>6, <2>2 DEF PB!Violation
  <2> QED BY <1>2, <1>5, <2>2, <2>3 DEF m
<1>9. CASE \E p \in Number : m = FailureMsg(p)
  <2>1. PICK p \in Number : m = FailureMsg(p)
    BY <1>9
  <2>2. Answers(m, p) /\ m.kind = "FAILURE" /\ m.recipient = p
    BY <2>1, MessageFields DEF Answers
  <2>3. PB!LocateReply(p) \notin {"Pending", "Tombstone"}
    BY <1>6, <2>2 DEF PB!Violation
  <2> QED BY <1>2, <1>5, <2>2, <2>3 DEF m
<1> QED BY <1>3, <1>7, <1>8, <1>9

\* An open arrives.
LEMMA TakeToBInv ==
    ASSUME PairInv, UNCHANGED <<varsA, linkBA, told, up, cancelled>>,
           linkAB # <<>>, linkAB' = Tail(linkAB),
           NEW p \in Number, Head(linkAB) = OpenMsg(p),
           PB!HandleOpen(p) \/ PB!HandleOpenByLimit(p)
    PROVE  PairInv'
<1>1. PB!IndInv /\ p \in PB!Number
  BY SameValues DEF PairInv
<1>2. PB!IndInv'
  BY <1>1, PB!StepInv, EngineAssumptions DEF PB!Next, PB!PeerMessage
<1> DEFINE x == SideB  x2 == SideB'
<1>3. Pair(x, SideA, linkBA, outgoingB, linkAB, outgoingA, Guards)
  BY ViewB
<1>4. cancelled' \in [Sides -> Seq(Number)] /\ cancelled'["A"] = cancelled["A"]
  BY DEF PairInv
<1>5. CASE PB!HandleOpen(p)
  <2>1. /\ PB!Waiting' = PB!Waiting \cup {p}
        /\ PB!Pending' = PB!Pending /\ PB!Channels' = PB!Channels
        /\ PB!Numbered' = PB!Numbered
        /\ tombstonesB' = tombstonesB /\ outgoingB' = outgoingB
    BY <1>1, <1>5, PB!HandleOpenTold, EngineAssumptions
  <2>2. /\ x2.name = x.name /\ x2.alloc = x.alloc /\ x2.pend = x.pend
        /\ x2.wait = x.wait \cup {p} /\ x2.chan = x.chan /\ x2.tomb = x.tomb
        /\ x2.canc = x.canc
    BY <2>1 DEF SideB
  <2> HIDE DEF x, x2
  <2>3. Pair(x2, SideA, linkBA, outgoingB, Tail(linkAB), outgoingA, Guards)
    BY <1>3, <2>2, PairTake
  <2>4. Pair(SideB', SideA, linkBA', outgoingB', linkAB', outgoingA, Guards)
    BY <2>1, <2>3 DEF x2
  <2> QED BY <1>2, <1>4, <2>4, MovedB
<1>6. CASE PB!HandleOpenByLimit(p)
  <2>1. /\ PB!Pending' = PB!Pending /\ PB!Waiting' = PB!Waiting
        /\ PB!Channels' = PB!Channels /\ PB!Numbered' = PB!Numbered
        /\ tombstonesB' = tombstonesB
        /\ outgoingB' = Append(outgoingB, PB!FailureMsg(p))
    BY <1>6, PB!HandleOpenByLimitTold, EngineAssumptions
  <2>2. /\ x2.name = x.name /\ x2.alloc = x.alloc /\ x2.pend = x.pend
        /\ x2.wait = x.wait /\ x2.chan = x.chan /\ x2.tomb = x.tomb
        /\ x2.canc = x.canc
    BY <2>1 DEF SideB
  <2>3. outgoingB' = Append(outgoingB, FailureMsg(p))
    BY <2>1, SameValues
  <2> HIDE DEF x, x2
  <2>4. Pair(x2, SideA, linkBA, Append(outgoingB, FailureMsg(p)), Tail(linkAB),
             outgoingA, Guards)
    BY <1>3, <2>2, PairRefuseAtLimit
  <2>5. Pair(SideB', SideA, linkBA', outgoingB', linkAB', outgoingA, Guards)
    BY <2>3, <2>4 DEF x2
  <2> QED BY <1>2, <1>4, <2>5, MovedB
<1> QED BY <1>5, <1>6

\* The answer to a pending open arrives.
LEMMA HearToBInv ==
    ASSUME PairInv, UNCHANGED <<varsA, linkBA, told, up, cancelled>>,
           linkAB # <<>>, linkAB' = Tail(linkAB), NEW n \in Number,
           \/ \E p \in Number : Head(linkAB) = ConfirmMsg(n, p)
                                /\ PB!HandleConfirmation(n, p)
           \/ Head(linkAB) = FailureMsg(n) /\ PB!HandleFailure(n)
    PROVE  PairInv'
<1>1. PB!IndInv /\ PB!Number = Number
  BY SameValues DEF PairInv
<1>2. PB!IndInv'
  BY <1>1, PB!StepInv, EngineAssumptions DEF PB!Next, PB!PeerMessage
<1> DEFINE x == SideB  x2 == SideB'
<1>3. /\ Pair(x, SideA, linkBA, outgoingB, linkAB, outgoingA, Guards)
      /\ Buried(x)
  BY ViewB, PairExpects
<1>4. cancelled' \in [Sides -> Seq(Number)] /\ cancelled'["A"] = cancelled["A"]
  BY DEF PairInv
<1>5. /\ PB!Pending' = PB!Pending \ {n} /\ PB!Waiting' = PB!Waiting
      /\ PB!Numbered' = PB!Numbered /\ tombstonesB' = tombstonesB
      /\ outgoingB' = outgoingB
      /\ \/ \E p \in Number : /\ Head(linkAB) = ConfirmMsg(n, p)
                              /\ PB!Channels' = PB!Channels \cup {<<n, p>>}
         \/ Head(linkAB) = FailureMsg(n) /\ PB!Channels' = PB!Channels
  <2>1. CASE \E p \in Number : Head(linkAB) = ConfirmMsg(n, p)
                               /\ PB!HandleConfirmation(n, p)
    <3>1. PICK p \in Number : Head(linkAB) = ConfirmMsg(n, p)
                              /\ PB!HandleConfirmation(n, p)
      BY <2>1
    <3>2. /\ PB!Pending' = PB!Pending \ {n} /\ PB!Waiting' = PB!Waiting
          /\ PB!Channels' = PB!Channels \cup {<<n, p>>}
          /\ PB!Numbered' = PB!Numbered /\ tombstonesB' = tombstonesB
          /\ outgoingB' = outgoingB
      BY <1>1, <3>1, PB!HandleConfirmationTold, EngineAssumptions
    <3> QED BY <3>1, <3>2
  <2>2. CASE Head(linkAB) = FailureMsg(n) /\ PB!HandleFailure(n)
    <3>1. /\ PB!Pending' = PB!Pending \ {n} /\ PB!Waiting' = PB!Waiting
          /\ PB!Channels' = PB!Channels
          /\ PB!Numbered' = PB!Numbered /\ tombstonesB' = tombstonesB
          /\ outgoingB' = outgoingB
      BY <1>1, <2>2, PB!HandleFailureTold, EngineAssumptions
    <3> QED BY <2>2, <3>1
  <2> QED BY <2>1, <2>2
<1>6. /\ x2.name = x.name /\ x2.alloc = x.alloc /\ x2.pend = x.pend \ {n}
      /\ x2.wait = x.wait /\ x2.tomb = x.tomb /\ x2.canc = x.canc
      /\ \/ \E p \in Number : Head(linkAB) = ConfirmMsg(n, p)
                              /\ x2.chan = x.chan \cup {<<n, p>>}
         \/ Head(linkAB) = FailureMsg(n) /\ x2.chan = x.chan
  BY <1>5 DEF SideB
<1> HIDE DEF x, x2
<1>7. /\ Answers(Head(linkAB), n)
      /\ \/ \E p \in Number : Head(linkAB) = ConfirmMsg(n, p)
                              /\ x2.chan = x.chan \cup {<<n, p>>}
         \/ Head(linkAB).kind = "FAILURE" /\ x2.chan = x.chan
  BY <1>6, MessageFields DEF Answers
<1>8. Buried(x2) /\ \A k : k # n /\ Knows(x, k) => Knows(x2, k)
  BY <1>3, <1>6 DEF Buried, Knows, LongAgo
<1>9. Pair(x2, SideA, linkBA, outgoingB, Tail(linkAB), outgoingA, Guards)
  BY <1>3, <1>6, <1>7, <1>8, PairHear
<1>10. Pair(SideB', SideA, linkBA', outgoingB', linkAB', outgoingA, Guards)
  BY <1>5, <1>9 DEF x2
<1> QED BY <1>2, <1>4, <1>10, MovedB

\* The answer to a cancelled open arrives.
LEMMA LateToBInv ==
    ASSUME PairInv, UNCHANGED <<varsA, linkBA, told, up, cancelled>>,
           linkAB # <<>>, linkAB' = Tail(linkAB),
           NEW n \in Number, Answers(Head(linkAB), n),
           PB!HandleLateFailure(n) \/ \E p \in Number : PB!HandleLateConfirmation(n, p)
    PROVE  PairInv'
<1>1. PB!IndInv /\ PB!Number = Number
  BY SameValues DEF PairInv
<1>2. PB!IndInv'
  BY <1>1, PB!StepInv, EngineAssumptions DEF PB!Next, PB!PeerMessage
<1> DEFINE x == SideB  x2 == SideB'
<1>3. /\ Pair(x, SideA, linkBA, outgoingB, linkAB, outgoingA, Guards)
      /\ Buried(x)
  BY ViewB, PairExpects
<1>4. cancelled' \in [Sides -> Seq(Number)] /\ cancelled'["A"] = cancelled["A"]
  BY DEF PairInv
<1>5. /\ PB!Pending' = PB!Pending /\ PB!Waiting' = PB!Waiting
      /\ PB!Channels' = PB!Channels
      /\ PB!Numbered' = PB!Numbered /\ outgoingB' = outgoingB
      /\ n \notin PB!Pending
      /\ \E k \in DOMAIN tombstonesB :
            /\ tombstonesB[k] = n
            /\ Len(tombstonesB') = Len(tombstonesB) - 1
            /\ \A i \in DOMAIN tombstonesB' :
                  IF i < k THEN i \in DOMAIN tombstonesB
                                /\ tombstonesB'[i] = tombstonesB[i]
                  ELSE i + 1 \in DOMAIN tombstonesB
                       /\ tombstonesB'[i] = tombstonesB[i + 1]
  BY <1>1, PB!LateTold, EngineAssumptions
<1>6. tombstonesB' \in Seq(Number)
  BY <1>2 DEF PB!IndInv, PB!TypeOK, PB!Number, Number
<1>7. PICK k : Taken(x.tomb, x2.tomb, k) /\ x.tomb[k] = n
  <2>1. \E k : Taken(tombstonesB, tombstonesB', k) /\ tombstonesB[k] = n
    BY <1>5 DEF Taken
  <2>2. x.tomb = tombstonesB /\ x2.tomb = tombstonesB'
    BY DEF SideB
  <2> HIDE DEF x, x2
  <2> QED BY <2>1, <2>2
<1>8. /\ x2.name = x.name /\ x2.alloc = x.alloc /\ x2.pend = x.pend /\ n \notin x.pend
      /\ x2.wait = x.wait /\ x2.chan = x.chan /\ x2.canc = x.canc
      /\ x2.tomb \in Seq(Number)
  BY <1>5, <1>6 DEF SideB
<1> HIDE DEF x, x2
<1>9. /\ Buried(x2)
      /\ \A j : j # n /\ Knows(x, j) => Knows(x2, j)
      /\ \E j \in DOMAIN x.canc : x.canc[j] = n
  BY <1>3, <1>7, <1>8, LateConsumes
<1>10. x2.pend = x.pend \ {n}
  BY <1>8
<1>11. Pair(x2, SideA, linkBA, outgoingB, Tail(linkAB), outgoingA, Guards)
  BY <1>3, <1>8, <1>9, <1>10, PairHear
<1>12. Pair(SideB', SideA, linkBA', outgoingB', linkAB', outgoingA, Guards)
  BY <1>5, <1>11 DEF x2
<1> QED BY <1>2, <1>4, <1>12, MovedB

\* A message B rejects arrives.
LEMMA RejectToBInv ==
    ASSUME PairInv, UNCHANGED <<varsA, linkBA, told, up, cancelled>>,
           linkAB # <<>>, linkAB' = Tail(linkAB),
           PB!Violation(Head(linkAB)) # "None", UNCHANGED varsB
    PROVE  PairInv'
<1>1. PICK n \in Number : /\ Answers(Head(linkAB), n) /\ n \notin SideB.pend
                          /\ LongAgo(SideB, n)
  BY HonestB
<1>2. cancelled' \in [Sides -> Seq(Number)] /\ cancelled'["B"] = cancelled["B"]
      /\ cancelled'["A"] = cancelled["A"]
  BY DEF PairInv
<1>3. PB!IndInv' /\ SideB' = SideB /\ outgoingB' = outgoingB
  BY <1>2, RestB
<1> DEFINE x == SideB
<1>4. /\ Pair(x, SideA, linkBA, outgoingB, linkAB, outgoingA, Guards)
      /\ Buried(x)
  BY ViewB, PairExpects
<1>5. \E j \in DOMAIN x.canc : x.canc[j] = n
  BY <1>1, <1>4, LongAgoCancelled
<1>6. x.pend = x.pend \ {n}
  BY <1>1
<1> HIDE DEF x
<1>7. Pair(x, SideA, linkBA, outgoingB, Tail(linkAB), outgoingA, Guards)
  BY <1>1, <1>4, <1>5, <1>6, PairHear
<1>8. Pair(SideB', SideA, linkBA', outgoingB', linkAB', outgoingA, Guards)
  BY <1>3, <1>7 DEF x
<1> QED BY <1>2, <1>3, <1>8, MovedB

\* The binding of B hands over the next message.
LEMMA DeliverToBInv ==
    ASSUME PairInv, DeliverToB
    PROVE  PairInv'
<1> DEFINE m == Head(linkAB)
<1>1. /\ UNCHANGED <<varsA, linkBA, told, up, cancelled>>
      /\ linkAB # <<>> /\ linkAB' = Tail(linkAB)
  BY DEF DeliverToB
<1>2. \/ m.kind = "OPEN" /\ (PB!HandleOpen(m.sender) \/ PB!HandleOpenByLimit(m.sender))
      \/ m.kind = "CONFIRMATION" /\
           (\/ PB!HandleConfirmation(m.recipient, m.sender)
            \/ PB!HandleLateConfirmation(m.recipient, m.sender))
      \/ m.kind = "FAILURE" /\
           (PB!HandleFailure(m.recipient) \/ PB!HandleLateFailure(m.recipient))
      \/ PB!Violation(m) # "None" /\ UNCHANGED varsB
  BY SameB DEF DeliverToB
<1>3. \/ \E n \in Number : m = OpenMsg(n)
      \/ \E n, p \in Number : m = ConfirmMsg(p, n)
      \/ \E p \in Number : m = FailureMsg(p)
  BY <1>1, ViewB, PairHead
<1>4. CASE PB!Violation(m) # "None" /\ UNCHANGED varsB
  BY <1>1, <1>4, RejectToBInv
<1>5. CASE \E n \in Number :
              m = OpenMsg(n) /\ (PB!HandleOpen(n) \/ PB!HandleOpenByLimit(n))
  BY <1>1, <1>5, TakeToBInv
<1>6. CASE \E n \in Number :
              \/ \E p \in Number : m = ConfirmMsg(n, p) /\ PB!HandleConfirmation(n, p)
              \/ m = FailureMsg(n) /\ PB!HandleFailure(n)
  BY <1>1, <1>6, HearToBInv
<1>7. CASE \E n \in Number :
              \/ \E p \in Number : m = ConfirmMsg(n, p) /\ PB!HandleLateConfirmation(n, p)
              \/ m = FailureMsg(n) /\ PB!HandleLateFailure(n)
  <2>1. PICK n \in Number :
              \/ \E p \in Number : m = ConfirmMsg(n, p) /\ PB!HandleLateConfirmation(n, p)
              \/ m = FailureMsg(n) /\ PB!HandleLateFailure(n)
    BY <1>7
  <2>2. /\ Answers(m, n)
        /\ PB!HandleLateFailure(n) \/ \E p \in Number : PB!HandleLateConfirmation(n, p)
    BY <2>1, MessageFields DEF Answers
  <2> QED BY <1>1, <2>2, LateToBInv
<1> HIDE DEF m
<1>8. CASE \E n \in Number : m = OpenMsg(n)
  BY <1>2, <1>4, <1>5, <1>8, MessageFields
<1>9. CASE \E n, p \in Number : m = ConfirmMsg(p, n)
  BY <1>2, <1>4, <1>6, <1>7, <1>9, MessageFields
<1>10. CASE \E p \in Number : m = FailureMsg(p)
  BY <1>2, <1>4, <1>6, <1>7, <1>10, MessageFields
<1> QED BY <1>3, <1>8, <1>9, <1>10

\* B is told of the loss of the transport.
LEMMA TellBInv ==
    ASSUME PairInv, TellB
    PROVE  PairInv'
<1>1. PB!IndInv /\ PB!TransportLost
  BY SameB DEF PairInv, TellB
<1>2. PB!IndInv'
  BY <1>1, PB!StepInv, EngineAssumptions DEF PB!Next, PB!Command
<1>3. /\ PB!Pending' = {} /\ PB!Waiting' = {} /\ PB!Channels' = {}
      /\ PB!Numbered' = PB!Numbered /\ tombstonesB' = tombstonesB
      /\ outgoingB' = <<>>
  BY <1>1, PB!LostTold, EngineAssumptions
<1>4. /\ UNCHANGED <<varsA, linkBA, linkAB, up, cancelled>>
      /\ ~up /\ told' = told \cup {"B"}
  BY DEF TellB
<1>5. /\ cancelled'["A"] = cancelled["A"] /\ up' \in BOOLEAN
      /\ cancelled' \in [Sides -> Seq(Number)] /\ told' \subseteq Sides
  BY <1>4 DEF PairInv, Sides
<1>6. PA!IndInv' /\ SideA' = SideA /\ outgoingA' = outgoingA
  BY <1>4, <1>5, RestA
<1>7. "up" \notin Guards /\ Guards' = Guards \cup {"B"}
  BY <1>4 DEF Guards, PairInv, Sides
<1> DEFINE x == SideB  x2 == SideB'
<1>8. /\ x2.name = x.name /\ x.name = "B" /\ SideA.name = "A"
      /\ x2.alloc = x.alloc /\ x2.pend = {} /\ x2.wait = {} /\ x2.chan = {}
      /\ x2.tomb = x.tomb /\ x2.canc = x.canc
  BY <1>3, <1>4 DEF SideB, SideA
<1>9. Pair(x, SideA, linkBA, outgoingB, linkAB, outgoingA, Guards)
  BY ViewB
<1> HIDE DEF x, x2
<1>10. Pair(x2, SideA, linkBA, <<>>, linkAB, outgoingA, Guards \cup {x.name})
  BY <1>7, <1>8, <1>9, PairLost
<1>11. Pair(SideB', SideA', linkBA', outgoingB', linkAB', outgoingA', Guards')
  BY <1>3, <1>4, <1>6, <1>7, <1>8, <1>10 DEF x2
<1>12. Pair(SideA', SideB', linkAB', outgoingA', linkBA', outgoingB', Guards')
  BY <1>11, PairTurned
<1> QED BY <1>2, <1>5, <1>6, <1>12 DEF PairInv

\* One answer is coming to an open of B.
LEMMA OneAnswerB ==
    ASSUME PairInv, NEW n \in Number
    PROVE  LET c == Carriers(linkBA \o outgoingB, slotsA, linkAB \o outgoingA, n) IN
           /\ c <= 1
           /\ up /\ (\E i \in DOMAIN slotsB : B!LocatedPending(i, n)) => c = 1
<1> DEFINE W == Awaiting(slotsA, n)
<1>1. Pair(SideB, SideA, linkBA, outgoingB, linkAB, outgoingA, Guards)
  BY ViewB
<1>2. \A a, b \in W : a = b
  BY DEF PairInv, PA!IndInv, PA!PeerNumbersUnique, PA!HasPeer, PA!In, PA!Phase,
         Awaiting
<1>3. n \in SideA.wait <=> W # {}
  <2>1. n \in PA!Waiting <=> \E i \in PA!In("PendingIncoming") : slotsA[i].state.peer = n
    BY PA!PhaseSets, EngineAssumptions
  <2>2. SideA.wait = PA!Waiting
    BY DEF SideA
  <2> QED BY <2>1, <2>2 DEF Awaiting, PA!In, PA!Phase
<1>4. (\E i \in DOMAIN slotsB : B!LocatedPending(i, n)) => n \in SideB.pend
  <2>1. n \in PB!Pending <=> \E i \in PB!In("PendingOutgoing") : slotsB[i].state.local = n
    BY PB!PhaseSets, EngineAssumptions
  <2>2. SideB.pend = PB!Pending
    BY DEF SideB
  <2> QED BY <2>1, <2>2 DEF B!LocatedPending, B!In, B!Phase, PB!In, PB!Phase
<1>5. up => "up" \in Guards
  BY DEF Guards
<1> HIDE DEF W
<1>6. LET c == Cardinality(Opens(linkBA \o outgoingB, n)) + Cardinality(W)
                 + Cardinality(Replies(linkAB \o outgoingA, n)) IN
      c <= 1 /\ ("up" \in Guards /\ n \in SideB.pend => c = 1)
  BY <1>1, <1>2, <1>3, PairOneAnswer
<1> QED BY <1>4, <1>5, <1>6 DEF Carriers, W

\* What A calls established.
LEMMA AgreeB ==
    ASSUME PairInv, up, NEW i \in A!In("Established")
    PROVE  LET n == slotsA[i].state.local  p == slotsA[i].state.peer IN
           \/ HasChannel(slotsB, p, n)
           \/ Contains(linkAB \o outgoingA, A!ConfirmMsg(p, n))
           \/ Contains(cancelled["B"], p)
<1> DEFINE n == slotsA[i].state.local  p == slotsA[i].state.peer
<1>1. /\ Pair(SideB, SideA, linkBA, outgoingB, linkAB, outgoingA, Guards)
      /\ PB!IndInv /\ "up" \in Guards
  BY ViewB DEF Guards
<1>2. <<n, p>> \in SideA.chan
  <2>1. i \in PA!In("Established")
    BY DEF A!In, PA!In, A!Phase, PA!Phase
  <2>2. <<n, p>> \in PA!Channels
    BY <2>1, PA!PhaseSets, EngineAssumptions
  <2> QED BY <2>2 DEF SideA
<1> HIDE DEF n, p
<1>3. \/ <<p, n>> \in SideB.chan
      \/ Contains(linkAB \o outgoingA, ConfirmMsg(p, n))
      \/ Contains(SideB.canc, p)
  BY <1>1, <1>2, PairSameChannels
<1>4. SideB.canc = cancelled["B"] /\ SideB.chan = PB!Channels
      /\ ConfirmMsg(p, n) = A!ConfirmMsg(p, n)
  BY DEF SideB, ConfirmMsg, A!ConfirmMsg
<1>5. <<p, n>> \in PB!Channels => HasChannel(slotsB, p, n)
  <2> SUFFICES ASSUME <<p, n>> \in PB!Channels PROVE HasChannel(slotsB, p, n)
    OBVIOUS
  <2>1. PICK j \in PB!In("Established") :
             <<p, n>> = <<slotsB[j].state.local, slotsB[j].state.peer>>
    BY PB!PhaseSets, EngineAssumptions
  <2>2. /\ j \in DOMAIN slotsB /\ slotsB[j].state.phase = "Established"
        /\ slotsB[j].state.local = p /\ slotsB[j].state.peer = n
    BY <2>1 DEF PB!In, PB!Phase
  <2>3. slotsB[j].state \in PB!State
    <3>1. slotsB \in Seq(PB!Slot)
      BY <1>1 DEF PB!IndInv, PB!TypeOK
    <3>2. \A k \in DOMAIN slotsB : slotsB[k] \in PB!Slot
      BY <3>1, ElementOfSeq, LenProperties
    <3> QED BY <2>2, <3>2 DEF PB!Slot
  <2>4. ASSUME NEW st \in PB!State, st.phase = "Established"
        PROVE  st = A!Established(st.local, st.peer)
    <3>1. PICK c \in PB!Number \X PB!Number : st = PB!Established(c[1], c[2])
      BY <2>4 DEF PB!State, PB!Vacant, PB!PendingOutgoing, PB!PendingIncoming
    <3> QED BY <3>1 DEF PB!Established, A!Established
  <2>5. slotsB[j].state = A!Established(p, n)
    BY <2>2, <2>3, <2>4
  <2> QED BY <2>2, <2>5 DEF HasChannel
<1> QED BY <1>3, <1>4, <1>5 DEF n, p

----------------------------------------------------------------------------
(* The transport, and all steps together.                                  *)

\* The transport fails: none of what is in flight arrives.
LEMMA LoseInv ==
    ASSUME PairInv, Lose
    PROVE  PairInv'
<1>1. /\ UNCHANGED <<varsA, varsB, told, cancelled>>
      /\ up /\ up' = FALSE /\ linkAB' = <<>> /\ linkBA' = <<>>
  BY DEF Lose
<1>2. /\ cancelled'["A"] = cancelled["A"] /\ cancelled'["B"] = cancelled["B"]
      /\ cancelled' \in [Sides -> Seq(Number)] /\ told' \subseteq Sides /\ up' \in BOOLEAN
  BY <1>1 DEF PairInv
<1>3. /\ PA!IndInv' /\ SideA' = SideA /\ outgoingA' = outgoingA
      /\ PB!IndInv' /\ SideB' = SideB /\ outgoingB' = outgoingB
  BY <1>1, <1>2, RestA, RestB
<1>4. Pair(SideA, SideB, linkAB, outgoingA, linkBA, outgoingB, Guards) /\ "up" \in Guards
  BY <1>1 DEF PairInv, Guards
<1>5. Guards' = {}
  <2>1. SideA.name \notin Guards /\ SideB.name \notin Guards
    BY <1>4 DEF Pair, BothWays
  <2>2. told = {}
    BY <2>1 DEF Guards, SideA, SideB, PairInv, Sides
  <2> QED BY <1>1, <2>2 DEF Guards
<1>6. Pair(SideA, SideB, <<>>, outgoingA, <<>>, outgoingB, {})
  BY <1>4, PairLose
<1> QED BY <1>1, <1>2, <1>3, <1>5, <1>6 DEF PairInv

\* The bindings connect again once both sides were told.
LEMMA ReconnectInv ==
    ASSUME PairInv, Reconnect
    PROVE  PairInv'
<1>1. /\ UNCHANGED <<varsA, varsB, linkAB, linkBA, cancelled>>
      /\ told = Sides /\ told' = {} /\ up' = TRUE
  BY DEF Reconnect
<1>2. /\ cancelled'["A"] = cancelled["A"] /\ cancelled'["B"] = cancelled["B"]
      /\ cancelled' \in [Sides -> Seq(Number)] /\ told' \subseteq Sides /\ up' \in BOOLEAN
  BY <1>1 DEF PairInv
<1>3. /\ PA!IndInv' /\ SideA' = SideA /\ outgoingA' = outgoingA
      /\ PB!IndInv' /\ SideB' = SideB /\ outgoingB' = outgoingB
  BY <1>1, <1>2, RestA, RestB
<1>4. Pair(SideA, SideB, linkAB, outgoingA, linkBA, outgoingB, Guards)
  BY DEF PairInv
<1>5. /\ SideA.name = "A" /\ SideB.name = "B" /\ "A" \in Guards /\ "B" \in Guards
      /\ Guards' = {"up"}
  BY <1>1 DEF Guards, SideA, SideB, Sides
<1>6. Pair(SideA, SideB, linkAB, outgoingA, linkBA, outgoingB, {"up"})
  BY <1>4, <1>5, PairBack
<1> QED BY <1>1, <1>2, <1>3, <1>5, <1>6 DEF PairInv

\* A step that changes nothing.
LEMMA StutterInv ==
    ASSUME PairInv, UNCHANGED vars
    PROVE  PairInv'
<1>1. UNCHANGED <<varsA, varsB, linkAB, linkBA, told, up, cancelled>>
  BY DEF vars, transport
<1>2. /\ cancelled'["A"] = cancelled["A"] /\ cancelled'["B"] = cancelled["B"]
      /\ cancelled' \in [Sides -> Seq(Number)] /\ told' \subseteq Sides /\ up' \in BOOLEAN
  BY <1>1 DEF PairInv
<1>3. /\ PA!IndInv' /\ SideA' = SideA /\ outgoingA' = outgoingA
      /\ PB!IndInv' /\ SideB' = SideB /\ outgoingB' = outgoingB
  BY <1>1, <1>2, RestA, RestB
<1>4. Guards' = Guards
  BY <1>1 DEF Guards
<1>5. Pair(SideA, SideB, linkAB, outgoingA, linkBA, outgoingB, Guards)
  BY DEF PairInv
<1> QED BY <1>1, <1>2, <1>3, <1>4, <1>5 DEF PairInv

\* Two new engines and an empty transport.
LEMMA InitPair == Init => PairInv
<1> SUFFICES ASSUME Init PROVE PairInv
  OBVIOUS
<1>1. PA!Init /\ PB!Init
  BY DEF Init, A!Init, B!Init, PA!Init, PB!Init
<1>2. PA!IndInv /\ PB!IndInv
  BY <1>1, PA!InitInv, PB!InitInv, EngineAssumptions
<1>3. /\ PA!Pending = {} /\ PA!Waiting = {} /\ PA!Channels = {}
      /\ PB!Pending = {} /\ PB!Waiting = {} /\ PB!Channels = {}
  <2>1. DOMAIN slotsA = {} /\ DOMAIN slotsB = {}
    BY <1>1 DEF PA!Init, PB!Init
  <2> QED BY <2>1 DEF PA!Pending, PA!Waiting, PA!Channels, PA!In,
                      PB!Pending, PB!Waiting, PB!Channels, PB!In
<1>4. PA!Numbered \subseteq Number /\ PB!Numbered \subseteq Number
  BY SameValues DEF PA!Numbered, PB!Numbered
<1>5. /\ linkAB = <<>> /\ linkBA = <<>> /\ outgoingA = <<>> /\ outgoingB = <<>>
      /\ tombstonesA = <<>> /\ tombstonesB = <<>>
      /\ told = {} /\ up = TRUE /\ cancelled = [s \in Sides |-> <<>>]
  BY <1>1 DEF Init, PA!Init, PB!Init
<1>6. /\ cancelled["A"] = <<>> /\ cancelled["B"] = <<>>
      /\ cancelled \in [Sides -> Seq(Number)] /\ Guards = {"up"}
  BY <1>5 DEF Sides, Guards
<1>7. /\ SideA.pend = {} /\ SideA.wait = {} /\ SideA.chan = {} /\ SideA.alloc \subseteq Number
      /\ SideA.tomb = <<>> /\ SideA.canc = <<>> /\ SideA.name # "up"
      /\ SideB.pend = {} /\ SideB.wait = {} /\ SideB.chan = {} /\ SideB.alloc \subseteq Number
      /\ SideB.tomb = <<>> /\ SideB.canc = <<>> /\ SideB.name # "up"
  BY <1>3, <1>4, <1>5, <1>6 DEF SideA, SideB
<1>8. Pair(SideA, SideB, <<>>, <<>>, <<>>, <<>>, {"up"})
  BY <1>7, PairStarts
<1> QED BY <1>2, <1>5, <1>6, <1>8 DEF PairInv

\* Every step keeps the invariant.
LEMMA StepPair == PairInv /\ [Next]_vars => PairInv'
<1> SUFFICES ASSUME PairInv, [Next]_vars PROVE PairInv'
  OBVIOUS
<1>1. CASE OpenA \/ OpenB
  BY <1>1, OpenAInv, OpenBInv
<1>2. CASE \E h \in A!Handle : CancelA(h) \/ CancelB(h) \/ DecideA(h) \/ DecideB(h)
  BY <1>2, CancelAInv, CancelBInv, DecideAInv, DecideBInv
<1>3. CASE SendA \/ SendB
  BY <1>3, SendAInv, SendBInv
<1>4. CASE DeliverToA \/ DeliverToB
  BY <1>4, DeliverToAInv, DeliverToBInv
<1>5. CASE TellA \/ TellB
  BY <1>5, TellAInv, TellBInv
<1>6. CASE Lose \/ Reconnect
  BY <1>6, LoseInv, ReconnectInv
<1>7. CASE UNCHANGED vars
  BY <1>7, StutterInv
<1> QED BY <1>1, <1>2, <1>3, <1>4, <1>5, <1>6, <1>7 DEF Next, Applications, Bindings

\* The invariant of the two engines and the transport between them, whatever
\* opens, cancels, decisions, deliveries and losses interleave.
THEOREM PairInvariance == Spec => []PairInv
<1>1. Init => PairInv
  BY InitPair
<1> QED BY <1>1, StepPair, PTL DEF Spec

----------------------------------------------------------------------------
(* Results.                                                                *)

\* handle_open, handle_open_confirmation and handle_open_failure report no
\* violation of an honest peer, but for a reply to an open cancelled so long
\* ago that its tombstone was evicted.
THEOREM HonestCorrect == Spec => []HonestPeerNeverAccused
<1>1. PairInv => HonestPeerNeverAccused
  <2> SUFFICES ASSUME PairInv PROVE HonestPeerNeverAccused
    OBVIOUS
  <2>1. ASSUME linkBA # <<>>, A!Violation(Head(linkBA)) # "None"
        PROVE  LongCancelled("A", Head(linkBA))
    <3>1. PA!Violation(Head(linkBA)) # "None"
      BY <2>1, SameA
    <3>2. PICK n \in Number : Answers(Head(linkBA), n) /\ LongAgo(SideA, n)
      BY <2>1, <3>1, HonestA
    <3>3. SideA.canc = cancelled["A"]
      BY DEF SideA
    <3> QED BY <3>2, <3>3 DEF Answers, LongAgo, LongCancelled
  <2>2. ASSUME linkAB # <<>>, B!Violation(Head(linkAB)) # "None"
        PROVE  LongCancelled("B", Head(linkAB))
    <3>1. PB!Violation(Head(linkAB)) # "None"
      BY <2>2, SameB
    <3>2. PICK n \in Number : Answers(Head(linkAB), n) /\ LongAgo(SideB, n)
      BY <2>2, <3>1, HonestB
    <3>3. SideB.canc = cancelled["B"]
      BY DEF SideB
    <3> QED BY <3>2, <3>3 DEF Answers, LongAgo, LongCancelled
  <2> QED BY <2>1, <2>2 DEF HonestPeerNeverAccused
<1> QED BY <1>1, PairInvariance, PTL

\* Two engines over a transport that is lost and replaced: an open is answered
\* once at most and once for certain while the transport is up, and what one
\* side calls established is so at the other, or its confirmation is under
\* way, or the opener cancelled.
THEOREM PairCorrect == Spec => []PairAgrees
<1>1. PairInv => PairAgrees
  <2> SUFFICES ASSUME PairInv PROVE PairAgrees
    OBVIOUS
  <2>1. A!Number = Number /\ B!Number = Number
    BY DEF A!Number, B!Number, Number
  <2>2. OneAnswerPerOpen
    BY <2>1, OneAnswerA, OneAnswerB DEF OneAnswerPerOpen
  <2>3. EstablishedAgree
    BY AgreeA, AgreeB DEF EstablishedAgree
  <2> QED BY <2>2, <2>3 DEF PairAgrees
<1> QED BY <1>1, PairInvariance, PTL

============================================================================
