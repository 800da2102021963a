--------------------------- MODULE OpeningProofs ---------------------------
(***************************************************************************)
(* Proofs about the opening engine, for every value of the limits, of the  *)
(* number space and of the generation modulus, against an arbitrary peer;  *)
(* and the proof that it implements the reference model it is fuzzed       *)
(* against, as long as no slot's generation comes round again.  The last   *)
(* section says what each call tells the other side; OpeningPairProofs     *)
(* rests on it.                                                            *)
(***************************************************************************)
EXTENDS OpeningHandles, TLAPS, FiniteSetTheorems, SequenceTheorems

\* The six invariants the runs check are inductive together: the limits need
\* the exact counters, those the exact free stack, and the uniqueness of
\* local numbers the bound that Allocated puts on every number in use.
IndInv ==
    /\ TypeOK
    /\ FreeListExact
    /\ CountersExact
    /\ LimitsHold
    /\ LocalNumbersUnique
    /\ PeerNumbersUnique

----------------------------------------------------------------------------
(* The slot states.                                                        *)

\* What membership in State says field by field: every constructor of the
\* code's State enum carries a number exactly where its phase has one.
LEMMA StateShape ==
    ASSUME NEW s \in State
    PROVE  /\ s.phase \in {"None", "PendingOutgoing", "PendingIncoming",
                           "Established"}
           /\ s.phase \in {"PendingOutgoing", "Established"} => s.local \in Number
           /\ s.phase \in {"PendingIncoming", "Established"} => s.peer \in Number
BY DEF State, Vacant, PendingOutgoing, PendingIncoming, Established, Number

\* The states the actions build are states, in the phase their name says.
LEMMA StateBuilt ==
    ASSUME NEW n \in Number, NEW p \in Number
    PROVE  /\ Vacant \in State /\ Vacant.phase = "None"
           /\ PendingOutgoing(n) \in State
           /\ PendingOutgoing(n).phase = "PendingOutgoing"
           /\ PendingOutgoing(n).local = n
           /\ PendingIncoming(p) \in State
           /\ PendingIncoming(p).phase = "PendingIncoming"
           /\ PendingIncoming(p).peer = p
           /\ Established(n, p) \in State
           /\ Established(n, p).phase = "Established"
           /\ Established(n, p).local = n
           /\ Established(n, p).peer = p
<1>1. <<n, p>> \in Number \X Number
  OBVIOUS
<1>2. Established(n, p) \in {Established(x[1], x[2]) : x \in Number \X Number}
  BY <1>1
<1> QED
  BY <1>2 DEF State, Vacant, PendingOutgoing, PendingIncoming, Established

LEMMA CardinalityInterval ==
    ASSUME NEW n \in Nat
    PROVE  Cardinality(1..n) = n
<1>1. 1 \in Int /\ n \in Int
  OBVIOUS
<1>2. Cardinality(1..n) = IF 1 > n THEN 0 ELSE n - 1 + 1
  BY <1>1, FS_Interval, Zenon
<1> QED BY <1>2

\* The stack without its top.
LEMMA FrontOfSeq ==
    ASSUME NEW S, NEW s \in Seq(S), s # <<>>
    PROVE  /\ Front(s) \in Seq(S)
           /\ Len(s) \in Nat \ {0}
           /\ DOMAIN Front(s) = 1..(Len(s) - 1)
           /\ \A i \in 1..(Len(s) - 1) : Front(s)[i] = s[i]
<1>1. Len(s) \in Nat \ {0}
  BY EmptySeq, LenProperties
<1>2. \A i \in 1..(Len(s) - 1) : s[i] \in S
  BY <1>1, ElementOfSeq
<1> QED
  BY <1>1, <1>2 DEF Front

\* The sets of slots by phase are finite, and exclude each other.
LEMMA SlotSetsFinite ==
    ASSUME slots \in Seq(Slot)
    PROVE  /\ \A ph : IsFiniteSet(In(ph))
           /\ IsFiniteSet(LiveSlots)
           /\ \A ph : In(ph) \subseteq 1..Len(slots)
           /\ LiveSlots \subseteq 1..Len(slots)
<1>1. Len(slots) \in Nat /\ DOMAIN slots = 1..Len(slots)
  BY LenProperties
<1>2. IsFiniteSet(1..Len(slots))
  BY <1>1, FS_Interval
<1> QED
  BY <1>1, <1>2, FS_Subset DEF In, LiveSlots

----------------------------------------------------------------------------
(* The three ways a command or a message changes the slot table.           *)

TableOK ==
    /\ slots \in Seq(Slot)
    /\ free \in Seq(1..MaxChannels)
    /\ Len(slots) <= MaxChannels
    /\ FreeListExact

\* insert: one slot that was not live, k, takes the new state; every other
\* slot keeps its content, and the free stack stays exact.
LEMMA InsertSlot ==
    ASSUME TableOK, live = Cardinality(LiveSlots), live < MaxChannels,
           NEW st \in State, st.phase # "None", Insert(st)
    PROVE  /\ TableOK'
           /\ live' = live + 1
           /\ \E k \in (DOMAIN slots') \ LiveSlots :
                 /\ slots'[k].state = st
                 /\ slots'[k].generation =
                       IF k \in DOMAIN slots THEN slots[k].generation ELSE 0
                 /\ DOMAIN slots' = DOMAIN slots \cup {k}
                 /\ \A j \in DOMAIN slots : j # k => slots'[j] = slots[j]
<1>0. /\ Len(slots) \in Nat /\ DOMAIN slots = 1..Len(slots)
      /\ Len(free) \in Nat /\ DOMAIN free = 1..Len(free)
      /\ \A i \in DOMAIN slots : slots[i] \in Slot
      /\ 0 \in Generation
  BY LenProperties, ElementOfSeq, OpeningConstants DEF TableOK, Generation
<1>1. CASE free # <<>>
  <2> DEFINE k == free[Len(free)]
  <2>1. /\ Len(free) \in DOMAIN free
        /\ k \in In("None")
        /\ k \in DOMAIN slots /\ k \notin LiveSlots
    BY <1>0, <1>1, EmptySeq DEF TableOK, FreeListExact, In, LiveSlots
  <2>2. /\ slots' = [slots EXCEPT ![k] = Holding(slots[k], st)]
        /\ free' = Front(free)
        /\ live' = live + 1
    BY <1>1 DEF Insert, Last
  <2> HIDE DEF k
  <2>3. /\ slots' \in Seq(Slot)
        /\ Len(slots') = Len(slots)
        /\ DOMAIN slots' = DOMAIN slots
        /\ slots'[k].state = st
        /\ slots'[k].generation = slots[k].generation
        /\ \A j \in DOMAIN slots : j # k => slots'[j] = slots[j]
    <3>1. /\ Holding(slots[k], st) \in Slot
          /\ Holding(slots[k], st).state = st
          /\ Holding(slots[k], st).generation = slots[k].generation
      BY <1>0, <2>1 DEF Holding, Slot
    <3> QED BY <1>0, <2>1, <2>2, <3>1, ExceptSeq DEF TableOK
  <2>4. /\ free' \in Seq(1..MaxChannels)
        /\ DOMAIN free' = 1..(Len(free) - 1)
        /\ \A i \in DOMAIN free' : free'[i] = free[i]
    BY <1>1, <2>2, FrontOfSeq DEF TableOK
  <2>5. In("None")' = In("None") \ {k}
    BY <2>1, <2>3 DEF In, Phase
  <2>6. \A i \in DOMAIN free' : free'[i] # k
    BY <1>0, <2>1, <2>4 DEF k, TableOK, FreeListExact
  <2>7. FreeListExact'
    <3>1. \A i \in DOMAIN free' : free'[i] \in In("None")'
      BY <1>0, <2>4, <2>5, <2>6 DEF TableOK, FreeListExact
    <3>2. \A i, j \in DOMAIN free' : free'[i] = free'[j] => i = j
      BY <1>0, <2>4 DEF TableOK, FreeListExact
    <3>3. \A m \in In("None")' : \E i \in DOMAIN free' : free'[i] = m
      BY <1>0, <2>4, <2>5 DEF k, TableOK, FreeListExact
    <3> QED BY <3>1, <3>2, <3>3 DEF FreeListExact
  <2> QED
    BY <1>0, <2>1, <2>2, <2>3, <2>4, <2>7 DEF TableOK
<1>2. CASE free = <<>>
  <2> DEFINE k == Len(slots) + 1
  <2>1. /\ slots' = Append(slots, [generation |-> 0, state |-> st])
        /\ free' = free
        /\ live' = live + 1
    BY <1>2 DEF Insert
  <2>2. [generation |-> 0, state |-> st] \in Slot
    BY <1>0 DEF Slot
  <2>3. /\ slots' \in Seq(Slot)
        /\ Len(slots') = k
        /\ DOMAIN slots' = DOMAIN slots \cup {k}
        /\ slots'[k].state = st
        /\ slots'[k].generation = 0
        /\ k \notin DOMAIN slots
        /\ \A j \in DOMAIN slots : slots'[j] = slots[j]
    BY <1>0, <2>1, <2>2, AppendProperties DEF TableOK
  <2>4. In("None") = {}
    BY <1>2 DEF TableOK, FreeListExact
  <2>5. LiveSlots = 1..Len(slots)
    BY <1>0, <2>4 DEF LiveSlots, In, Phase
  <2>6. live = Len(slots)
    BY <1>0, <2>5, CardinalityInterval
  <2>7. k <= MaxChannels
    BY <1>0, <2>6, OpeningConstants
  <2>8. In("None")' = {}
    BY <1>0, <2>3, <2>4 DEF In, Phase
  <2>9. FreeListExact'
    BY <1>2, <2>1, <2>8 DEF FreeListExact
  <2> QED
    BY <1>0, <2>1, <2>3, <2>5, <2>7, <2>9 DEF TableOK
<1> QED BY <1>1, <1>2

\* A live slot's index is not on the free stack.
LEMMA LiveNotFree ==
    ASSUME TableOK, NEW i \in LiveSlots
    PROVE  i \in 1..MaxChannels /\ \A m \in DOMAIN free : free[m] # i
<1>1. Len(slots) \in Nat /\ DOMAIN slots = 1..Len(slots)
  BY LenProperties DEF TableOK
<1> QED
  BY <1>1, OpeningConstants DEF TableOK, FreeListExact, LiveSlots, In

\* remove: slot i turns vacant and goes on top of the free stack.
LEMMA RemoveSlotTable ==
    ASSUME TableOK, NEW i \in LiveSlots, RemoveSlot(i)
    PROVE  /\ TableOK'
           /\ live' = live - 1
           /\ DOMAIN slots' = DOMAIN slots
           /\ slots'[i] = Vacated(slots[i])
           /\ slots'[i].state = Vacant
           /\ \A j \in DOMAIN slots : j # i => slots'[j] = slots[j]
<1>0. /\ Len(slots) \in Nat /\ DOMAIN slots = 1..Len(slots)
      /\ Len(free) \in Nat /\ DOMAIN free = 1..Len(free)
      /\ i \in DOMAIN slots /\ slots[i] \in Slot
  BY LenProperties, ElementOfSeq DEF TableOK, LiveSlots
<1>1. /\ Vacated(slots[i]) \in Slot
      /\ Vacated(slots[i]).state = Vacant
      /\ Vacant.phase = "None"
  <2>1. Vacant \in State /\ Vacant.phase = "None"
    BY DEF State, Vacant
  <2>2. (slots[i].generation + 1) % GenerationMod \in Generation
    BY <1>0, OpeningConstants DEF Slot, Generation
  <2> QED BY <2>1, <2>2 DEF Vacated, Slot
<1>2. /\ slots' = [slots EXCEPT ![i] = Vacated(slots[i])]
      /\ free' = Append(free, i)
      /\ live' = live - 1
  BY DEF RemoveSlot
<1>3. /\ slots' \in Seq(Slot)
      /\ Len(slots') = Len(slots)
      /\ DOMAIN slots' = DOMAIN slots
      /\ slots'[i] = Vacated(slots[i])
      /\ slots'[i].state = Vacant
      /\ \A j \in DOMAIN slots : j # i => slots'[j] = slots[j]
  BY <1>0, <1>1, <1>2, ExceptSeq DEF TableOK
<1>4. /\ free' \in Seq(1..MaxChannels)
      /\ DOMAIN free' = DOMAIN free \cup {Len(free) + 1}
      /\ \A m \in DOMAIN free : free'[m] = free[m]
      /\ free'[Len(free) + 1] = i
      /\ Len(free) + 1 \notin DOMAIN free
  BY <1>0, <1>2, LiveNotFree, AppendProperties DEF TableOK
<1>5. In("None")' = In("None") \cup {i}
  BY <1>0, <1>1, <1>3 DEF In, Phase
<1>6. FreeListExact'
  <2>1. \A m \in DOMAIN free' : free'[m] \in In("None")'
    BY <1>4, <1>5 DEF TableOK, FreeListExact
  <2>2. \A m, n \in DOMAIN free' : free'[m] = free'[n] => m = n
    BY <1>4, LiveNotFree DEF TableOK, FreeListExact
  <2>3. \A k \in In("None")' : \E m \in DOMAIN free' : free'[m] = k
    BY <1>4, <1>5 DEF TableOK, FreeListExact
  <2> QED BY <2>1, <2>2, <2>3 DEF FreeListExact
<1> QED
  BY <1>2, <1>3, <1>4, <1>6 DEF TableOK

\* set: live slot i changes its phase in place.
LEMMA SetStateTable ==
    ASSUME TableOK, NEW i \in LiveSlots, NEW st \in State, st.phase # "None",
           SetState(i, st)
    PROVE  /\ TableOK'
           /\ live' = live
           /\ DOMAIN slots' = DOMAIN slots
           /\ slots'[i] = Holding(slots[i], st)
           /\ slots'[i].state = st
           /\ \A j \in DOMAIN slots : j # i => slots'[j] = slots[j]
<1>0. /\ Len(slots) \in Nat /\ DOMAIN slots = 1..Len(slots)
      /\ i \in DOMAIN slots /\ slots[i] \in Slot
  BY LenProperties, ElementOfSeq DEF TableOK, LiveSlots
<1>1. Holding(slots[i], st) \in Slot /\ Holding(slots[i], st).state = st
  BY <1>0 DEF Holding, Slot
<1>2. /\ slots' = [slots EXCEPT ![i] = Holding(slots[i], st)]
      /\ free' = free /\ live' = live
  BY DEF SetState
<1>3. /\ slots' \in Seq(Slot)
      /\ Len(slots') = Len(slots)
      /\ DOMAIN slots' = DOMAIN slots
      /\ slots'[i] = Holding(slots[i], st)
      /\ slots'[i].state = st
      /\ \A j \in DOMAIN slots : j # i => slots'[j] = slots[j]
  BY <1>0, <1>1, <1>2, ExceptSeq DEF TableOK
<1>4. In("None")' = In("None")
  BY <1>0, <1>3 DEF In, Phase, LiveSlots
<1>5. FreeListExact'
  BY <1>2, <1>4 DEF TableOK, FreeListExact
<1> QED
  BY <1>2, <1>3, <1>5 DEF TableOK

\* transport_lost: every live slot turns vacant and is stacked once.
LEMMA TransportLostTable ==
    ASSUME TableOK, TransportLost
    PROVE  /\ TableOK'
           /\ DOMAIN slots' = DOMAIN slots
           /\ LiveSlots' = {}
           /\ \A ph : ph # "None" => In(ph)' = {}
<1>0. /\ Len(slots) \in Nat /\ DOMAIN slots = 1..Len(slots)
      /\ Len(free) \in Nat /\ DOMAIN free = 1..Len(free)
      /\ \A i \in DOMAIN slots : slots[i] \in Slot
  BY LenProperties, ElementOfSeq DEF TableOK
<1>1. \A i \in DOMAIN slots : /\ Vacated(slots[i]) \in Slot
                              /\ Vacated(slots[i]).state.phase = "None"
  <2>1. Vacant \in State /\ Vacant.phase = "None"
    BY DEF State, Vacant
  <2>2. \A i \in DOMAIN slots :
          (slots[i].generation + 1) % GenerationMod \in Generation
    BY <1>0, OpeningConstants DEF Slot, Generation
  <2> QED BY <2>1, <2>2 DEF Vacated, Slot
<1>2. slots' = [i \in 1..Len(slots) |->
                  IF i \in LiveSlots THEN Vacated(slots[i]) ELSE slots[i]]
  BY <1>0 DEF TransportLost
<1>3. /\ slots' \in Seq(Slot)
      /\ DOMAIN slots' = DOMAIN slots
      /\ Len(slots') = Len(slots)
  BY <1>0, <1>1, <1>2
<1>4. \A i \in DOMAIN slots : slots'[i].state.phase = "None"
  BY <1>0, <1>1, <1>2 DEF LiveSlots, Phase
<1>5. /\ LiveSlots' = {}
      /\ \A ph : ph # "None" => In(ph)' = {}
      /\ In("None")' = DOMAIN slots
  BY <1>3, <1>4 DEF LiveSlots, In, Phase
<1>6. PICK order \in SlotOrder(LiveSlots) : free' = free \o order
  BY DEF TransportLost
<1>7. IsFiniteSet(LiveSlots) /\ LiveSlots \subseteq DOMAIN slots
  BY <1>0, SlotSetsFinite DEF TableOK
<1>8. DEFINE c == Cardinality(LiveSlots)
<1>9. c \in Nat
  BY <1>7, FS_CardinalityType
<1>10. /\ order \in [1..c -> LiveSlots]
       /\ \A j \in LiveSlots : \E i \in 1..c : order[i] = j
       /\ \A i, j \in 1..c : i < j => order[i] < order[j]
  BY DEF SlotOrder
<1> HIDE DEF c
<1>11. /\ order \in Seq(1..MaxChannels)
       /\ Len(order) = c
  <2>1. \A i \in 1..c : order[i] \in 1..MaxChannels
    BY <1>10, LiveNotFree
  <2>2. order \in [1..c -> 1..MaxChannels]
    BY <1>10, <2>1
  <2>3. order \in Seq(1..MaxChannels)
    <3>1. order = [i \in 1..c |-> order[i]]
      BY <2>2
    <3>2. [i \in 1..c |-> order[i]] \in Seq(1..MaxChannels)
      BY <1>9, <2>1
    <3> QED BY <3>1, <3>2
  <2>4. DOMAIN order = 1..Len(order) /\ Len(order) \in Nat
    BY <2>3, LenProperties
  <2> QED BY <1>9, <1>10, <2>3, <2>4
<1>12. /\ free' \in Seq(1..MaxChannels)
       /\ DOMAIN free' = 1..(Len(free) + c)
       /\ \A i \in 1..Len(free) : free'[i] = free[i]
       /\ \A i \in 1..c : free'[Len(free) + i] = order[i]
  <2>1. /\ free \o order \in Seq(1..MaxChannels)
        /\ Len(free \o order) = Len(free) + c
        /\ \A i \in 1..(Len(free) + c) : (free \o order)[i] =
              IF i <= Len(free) THEN free[i] ELSE order[i - Len(free)]
    BY <1>0, <1>9, <1>11, ConcatProperties DEF TableOK
  <2>2. DOMAIN free' = 1..(Len(free) + c)
    BY <1>6, <2>1, LenProperties
  <2>3. \A i \in 1..c : /\ Len(free) + i \in 1..(Len(free) + c)
                        /\ ~(Len(free) + i <= Len(free))
                        /\ Len(free) + i - Len(free) = i
    BY <1>0, <1>9
  <2> QED BY <1>0, <1>6, <1>9, <2>1, <2>2, <2>3
<1>13. FreeListExact'
  <2>1. \A m \in DOMAIN free' :
          \/ m \in DOMAIN free /\ free'[m] = free[m]
          \/ m - Len(free) \in 1..c /\ free'[m] = order[m - Len(free)]
    BY <1>0, <1>9, <1>12
  <2>2. \A m \in DOMAIN free' : free'[m] \in In("None")'
    BY <1>5, <1>7, <1>10, <2>1 DEF TableOK, FreeListExact, In
  <2>3. \A m, n \in 1..c : order[m] = order[n] => m = n
    <3>1. \A m \in 1..c : order[m] \in Nat
      BY <1>0, <1>7, <1>10
    <3> QED BY <1>9, <1>10, <3>1
  <2>4. \A m \in DOMAIN free, n \in 1..c : free[m] # order[n]
    BY <1>10, LiveNotFree
  <2>5. ASSUME NEW m \in DOMAIN free', NEW n \in DOMAIN free',
               free'[m] = free'[n]
        PROVE  m = n
    <3>1. CASE m \in DOMAIN free /\ n \in DOMAIN free
      BY <3>1, <1>0, <1>12, <2>5 DEF TableOK, FreeListExact
    <3>2. CASE m \notin DOMAIN free /\ n \notin DOMAIN free
      <4>1. m - Len(free) = n - Len(free)
        BY <3>2, <2>1, <2>3, <2>5
      <4> QED BY <4>1, <1>0, <1>9, <1>12
    <3>3. CASE (m \in DOMAIN free) # (n \in DOMAIN free)
      BY <3>3, <2>1, <2>4, <2>5
    <3> QED BY <3>1, <3>2, <3>3
  <2>6. ASSUME NEW k \in In("None")'
        PROVE  \E m \in DOMAIN free' : free'[m] = k
    <3>1. CASE k \in LiveSlots
      <4>1. PICK i \in 1..c : order[i] = k
        BY <3>1, <1>10
      <4>2. Len(free) + i \in DOMAIN free'
        BY <1>0, <1>9, <1>12
      <4> QED BY <4>1, <4>2, <1>12
    <3>2. CASE k \notin LiveSlots
      <4>1. k \in In("None")
        BY <3>2, <1>5 DEF In, LiveSlots
      <4>2. PICK m \in DOMAIN free : free[m] = k
        BY <4>1 DEF TableOK, FreeListExact
      <4> QED BY <4>2, <1>0, <1>9, <1>12
    <3> QED BY <3>1, <3>2
  <2> QED BY <2>2, <2>5, <2>6 DEF FreeListExact
<1> QED
  BY <1>3, <1>5, <1>12, <1>13 DEF TableOK

----------------------------------------------------------------------------
(* The sets of slots after a change to one slot, and what they count.      *)

LEMMA OneSlotSets ==
    ASSUME NEW k, NEW st,
           DOMAIN slots' = DOMAIN slots \cup {k},
           slots'[k].state = st,
           \A j \in DOMAIN slots : j # k => slots'[j] = slots[j]
    PROVE  /\ \A ph : In(ph)' = IF ph = st.phase THEN In(ph) \cup {k}
                                                ELSE In(ph) \ {k}
           /\ LiveSlots' = IF st.phase # "None" THEN LiveSlots \cup {k}
                                               ELSE LiveSlots \ {k}
BY DEF In, LiveSlots, Phase

LEMMA OneMoreOrLess ==
    ASSUME NEW S, IsFiniteSet(S), NEW k
    PROVE  /\ Cardinality(S) \in Nat
           /\ k \notin S => Cardinality(S \cup {k}) = Cardinality(S) + 1
           /\ k \in S => /\ Cardinality(S \ {k}) = Cardinality(S) - 1
                         /\ Cardinality(S) # 0
           /\ k \notin S => S \ {k} = S
           /\ k \in S => S \cup {k} = S
<1>1. Cardinality(S) \in Nat
  BY FS_CardinalityType
<1>2. k \notin S => Cardinality(S \cup {k}) = Cardinality(S) + 1
  BY FS_AddElement
<1>3. k \in S => Cardinality(S \ {k}) = Cardinality(S) - 1
  BY FS_RemoveElement
<1>4. k \in S => Cardinality(S) # 0
  BY FS_EmptySet
<1> QED BY <1>1, <1>2, <1>3, <1>4

\* The counters' increments and decrements, for a slot k that enters or
\* leaves the set a counter counts.
LEMMA Counting ==
    ASSUME TableOK, NEW k
    PROVE  \A S \in {In("PendingOutgoing"), In("PendingIncoming"), LiveSlots} :
              /\ k \notin S => Cardinality(S \cup {k}) = Cardinality(S) + 1
              /\ k \in S => /\ Cardinality(S \ {k}) = Cardinality(S) - 1
                            /\ Cardinality(S) # 0
<1>1. \A S \in {In("PendingOutgoing"), In("PendingIncoming"), LiveSlots} :
        IsFiniteSet(S)
  BY SlotSetsFinite DEF TableOK
<1> QED BY <1>1, OneMoreOrLess

----------------------------------------------------------------------------
(* Local numbers and tombstones.                                           *)

\* allocate_number hands out a number that was never handed out, and
\* forgets none.
LEMMA AllocateFresh ==
    ASSUME TypeOK, LocalNumbersUnique, AllocateNumber
    PROVE  /\ nextLocal \in Number /\ nextLocal' \in Number
           /\ numbersExhausted' \in BOOLEAN
           /\ numbersExhausted' => nextLocal' = MaxNumber
           /\ ~Allocated(nextLocal)
           /\ \A n \in Number : Allocated(n) \/ n = nextLocal => Allocated(n)'
<1>1. CASE nextLocal < MaxNumber
  <2>1. nextLocal' = nextLocal + 1 /\ numbersExhausted' = numbersExhausted
    BY <1>1 DEF AllocateNumber
  <2>2. ~numbersExhausted
    BY DEF AllocateNumber
  <2> QED
    BY <1>1, <2>1, <2>2, OpeningConstants DEF TypeOK, Number, Allocated
<1>2. CASE ~(nextLocal < MaxNumber)
  <2>1. nextLocal' = nextLocal /\ numbersExhausted' = TRUE
    BY <1>2 DEF AllocateNumber
  <2>2. ~numbersExhausted
    BY DEF AllocateNumber
  <2>3. nextLocal = MaxNumber /\ nextLocal \in Number
    BY <1>2, OpeningConstants DEF TypeOK, Number
  <2> QED
    BY <2>1, <2>2, <2>3, OpeningConstants DEF TypeOK, Number, Allocated
<1> QED BY <1>1, <1>2

\* A step that brings no local number into use keeps them unique.
LEMMA LocalsKept ==
    ASSUME LocalNumbersUnique, TypeOK,
           HasLocal' \subseteq HasLocal,
           \A i \in HasLocal' : slots'[i].state.local = slots[i].state.local,
           UNCHANGED <<nextLocal, numbersExhausted, tombstones>>
    PROVE  LocalNumbersUnique'
<1>1. \A i \in HasLocal' : Allocated(slots[i].state.local)'
  BY DEF LocalNumbersUnique, Allocated
<1>2. \A k \in DOMAIN tombstones' : Allocated(tombstones[k])'
  BY DEF LocalNumbersUnique, Allocated
<1>3. \A i, j \in HasLocal' :
         slots'[i].state.local = slots'[j].state.local => i = j
  BY DEF LocalNumbersUnique
<1>4. \A i \in HasLocal' : \A k \in DOMAIN tombstones' :
         slots'[i].state.local # tombstones'[k]
  BY DEF LocalNumbersUnique
<1>5. \A j, k \in DOMAIN tombstones' : tombstones'[j] = tombstones'[k] => j = k
  BY DEF LocalNumbersUnique
<1>6. numbersExhausted' => nextLocal' = MaxNumber
  BY DEF LocalNumbersUnique
<1> QED
  BY <1>1, <1>2, <1>3, <1>4, <1>5, <1>6 DEF LocalNumbersUnique

\* A slot in use by phase carries numbers of the right type.
LEMMA NumbersTyped ==
    ASSUME slots \in Seq(Slot)
    PROVE  /\ \A i \in HasLocal : slots[i].state.local \in Number
           /\ \A i \in HasPeer : slots[i].state.peer \in Number
<1>1. \A i \in DOMAIN slots : slots[i].state \in State
  <2>1. \A i \in DOMAIN slots : slots[i] \in Slot
    BY LenProperties, ElementOfSeq
  <2> QED BY <2>1 DEF Slot
<1> QED
  BY <1>1, StateShape DEF HasLocal, HasPeer, In, Phase

\* A step that gives one slot the freshly allocated number keeps them unique.
LEMMA LocalAdded ==
    ASSUME LocalNumbersUnique, TypeOK, AllocateNumber, NEW k,
           HasLocal' = HasLocal \cup {k}, k \notin HasLocal,
           slots'[k].state.local = nextLocal,
           \A i \in HasLocal : slots'[i].state.local = slots[i].state.local,
           tombstones' = tombstones
    PROVE  LocalNumbersUnique'
<1>1. /\ \A i \in HasLocal : /\ slots[i].state.local \in Number
                              /\ Allocated(slots[i].state.local)
      /\ \A j \in DOMAIN tombstones : /\ tombstones[j] \in Number
                                      /\ Allocated(tombstones[j])
  BY NumbersTyped, LenProperties, ElementOfSeq DEF TypeOK, LocalNumbersUnique
<1>2. \A i \in HasLocal : slots[i].state.local # nextLocal
  BY <1>1, AllocateFresh
<1>3. \A j \in DOMAIN tombstones : tombstones[j] # nextLocal
  BY <1>1, AllocateFresh
<1>4. \A i \in HasLocal' : Allocated(slots[i].state.local)'
  <2>1. ASSUME NEW n \in Number, Allocated(n) \/ n = nextLocal
        PROVE  n < nextLocal' \/ (numbersExhausted' /\ n = MaxNumber)
    BY <2>1, AllocateFresh DEF Allocated
  <2>2. nextLocal \in Number
    BY AllocateFresh
  <2> QED BY <1>1, <2>1, <2>2 DEF Allocated
<1>5. \A j \in DOMAIN tombstones' : Allocated(tombstones[j])'
  <2>1. ASSUME NEW n \in Number, Allocated(n)
        PROVE  n < nextLocal' \/ (numbersExhausted' /\ n = MaxNumber)
    BY <2>1, AllocateFresh DEF Allocated
  <2> QED BY <1>1, <2>1 DEF Allocated
<1>6. \A i, j \in HasLocal' :
         slots'[i].state.local = slots'[j].state.local => i = j
  BY <1>2 DEF LocalNumbersUnique
<1>7. \A i \in HasLocal' : \A j \in DOMAIN tombstones' :
         slots'[i].state.local # tombstones'[j]
  BY <1>3 DEF LocalNumbersUnique
<1>8. \A i, j \in DOMAIN tombstones' : tombstones'[i] = tombstones'[j] => i = j
  BY DEF LocalNumbersUnique
<1>9. numbersExhausted' => nextLocal' = MaxNumber
  BY AllocateFresh
<1> QED
  BY <1>4, <1>5, <1>6, <1>7, <1>8, <1>9 DEF LocalNumbersUnique

\* The trimming loop keeps the newest MaxTombstones entries, in order.
LEMMA TrimmedSeq ==
    ASSUME NEW s \in Seq(Number)
    PROVE  /\ Trimmed(s) \in Seq(Number)
           /\ Len(Trimmed(s)) <= MaxTombstones
           /\ \E d \in Nat : \A i \in DOMAIN Trimmed(s) :
                 i + d \in DOMAIN s /\ Trimmed(s)[i] = s[i + d]
<1>0. Len(s) \in Nat /\ DOMAIN s = 1..Len(s)
  BY LenProperties
<1>1. CASE Len(s) > MaxTombstones
  <2> DEFINE d == Len(s) - MaxTombstones
             t == SubSeq(s, d + 1, Len(s))
  <2>1. d \in Nat /\ d + 1 \in Int /\ Len(s) \in Int
    BY <1>0, <1>1, OpeningConstants
  <2>2. \A i \in (d + 1)..Len(s) : s[i] \in Number
    BY <1>0, <2>1, ElementOfSeq
  <2> HIDE DEF d
  <2>3. /\ t \in Seq(Number)
        /\ Len(t) = IF d + 1 <= Len(s) THEN Len(s) - (d + 1) + 1 ELSE 0
        /\ \A i \in 1..(Len(s) - (d + 1) + 1) : t[i] = s[d + 1 + i - 1]
    BY <2>1, <2>2, SubSeqProperties
  <2>4. Trimmed(s) = t
    BY <1>1 DEF Trimmed, d
  <2>5. Len(t) = MaxTombstones /\ DOMAIN t = 1..MaxTombstones
    BY <1>0, <1>1, <2>3, LenProperties, OpeningConstants DEF d
  <2>6. \A i \in DOMAIN t : i + d \in DOMAIN s /\ t[i] = s[i + d]
    BY <1>0, <1>1, <2>1, <2>3, <2>5, OpeningConstants DEF d
  <2> QED BY <2>1, <2>3, <2>4, <2>5, <2>6, OpeningConstants, SMTT(20)
<1>2. CASE ~(Len(s) > MaxTombstones)
  <2>1. Trimmed(s) = s
    BY <1>2 DEF Trimmed
  <2>2. \A i \in DOMAIN s : i + 0 \in DOMAIN s /\ s[i] = s[i + 0]
    BY <1>0
  <2>3. Len(s) <= MaxTombstones /\ 0 \in Nat
    BY <1>0, <1>2, OpeningConstants
  <2> QED BY <2>1, <2>2, <2>3
<1> QED BY <1>1, <1>2

\* A consumed tombstone leaves the others in place.
LEMMA RemoveAtSeq ==
    ASSUME NEW s \in Seq(Number), NEW k \in DOMAIN s
    PROVE  /\ RemoveAt(s, k) \in Seq(Number)
           /\ Len(RemoveAt(s, k)) = Len(s) - 1
           /\ \A i \in DOMAIN RemoveAt(s, k) :
                 IF i < k THEN i \in DOMAIN s /\ RemoveAt(s, k)[i] = s[i]
                 ELSE i + 1 \in DOMAIN s /\ RemoveAt(s, k)[i] = s[i + 1]
<1>0. Len(s) \in Nat /\ DOMAIN s = 1..Len(s) /\ k \in 1..Len(s)
  BY LenProperties
<1> DEFINE a == SubSeq(s, 1, k - 1)
           b == SubSeq(s, k + 1, Len(s))
<1>1. /\ a \in Seq(Number)
      /\ Len(a) = k - 1
      /\ \A i \in 1..(k - 1) : a[i] = s[i]
  <2>1. \A i \in 1..(k - 1) : s[i] \in Number
    BY <1>0, ElementOfSeq
  <2>2. /\ a \in Seq(Number)
        /\ Len(a) = IF 1 <= k - 1 THEN k - 1 - 1 + 1 ELSE 0
        /\ \A i \in 1..(k - 1 - 1 + 1) : a[i] = s[1 + i - 1]
    BY <1>0, <2>1, SubSeqProperties
  <2> QED BY <1>0, <2>2
<1>2. /\ b \in Seq(Number)
      /\ Len(b) = Len(s) - k
      /\ \A i \in 1..(Len(s) - k) : b[i] = s[k + i]
  <2>1. \A i \in (k + 1)..Len(s) : s[i] \in Number
    BY <1>0, ElementOfSeq
  <2>2. /\ b \in Seq(Number)
        /\ Len(b) = IF k + 1 <= Len(s) THEN Len(s) - (k + 1) + 1 ELSE 0
        /\ \A i \in 1..(Len(s) - (k + 1) + 1) : b[i] = s[k + 1 + i - 1]
    BY <1>0, <2>1, SubSeqProperties
  <2> QED BY <1>0, <2>2
<1> HIDE DEF a, b
<1>3. /\ a \o b \in Seq(Number)
      /\ Len(a \o b) = Len(a) + Len(b)
      /\ \A i \in 1..(Len(a) + Len(b)) :
            (a \o b)[i] = IF i <= Len(a) THEN a[i] ELSE b[i - Len(a)]
  BY <1>1, <1>2, ConcatProperties
<1>4. RemoveAt(s, k) = a \o b
  BY DEF RemoveAt, a, b
<1>5. DOMAIN (a \o b) = 1..(Len(s) - 1) /\ Len(a \o b) = Len(s) - 1
  <2>1. Len(a \o b) = Len(s) - 1
    BY <1>0, <1>1, <1>2, <1>3
  <2>2. DOMAIN (a \o b) = 1..Len(a \o b)
    BY <1>3, LenProperties
  <2> QED BY <2>1, <2>2
<1>6. ASSUME NEW i \in 1..(Len(s) - 1)
      PROVE  IF i < k THEN i \in DOMAIN s /\ (a \o b)[i] = s[i]
             ELSE i + 1 \in DOMAIN s /\ (a \o b)[i] = s[i + 1]
  <2>1. CASE i < k
    BY <2>1, <1>0, <1>1, <1>2, <1>3
  <2>2. CASE ~(i < k)
    <3>1. i - Len(a) \in 1..(Len(s) - k) /\ k + (i - Len(a)) = i + 1
      BY <2>2, <1>0, <1>1
    <3>2. (a \o b)[i] = b[i - Len(a)]
      BY <2>2, <1>0, <1>1, <1>2, <1>3, SMTT(20)
    <3>3. b[i - Len(a)] = s[i + 1]
      BY <3>1, <1>2
    <3>4. i + 1 \in DOMAIN s
      BY <1>0
    <3> QED BY <2>2, <3>2, <3>3, <3>4
  <2> QED BY <2>1, <2>2
<1> QED BY <1>3, <1>4, <1>5, <1>6

----------------------------------------------------------------------------
(* One lemma per action.                                                   *)

\* What the invariant says of the slot table, for the lemmas above.
LEMMA TableFromInv ==
    ASSUME IndInv
    PROVE  TableOK /\ live = Cardinality(LiveSlots)
BY DEF IndInv, TypeOK, LimitsHold, CountersExact, TableOK

LEMMA OpenInv ==
    ASSUME IndInv, Open
    PROVE  IndInv'
<1>1. TableOK /\ TypeOK /\ LocalNumbersUnique /\ live = Cardinality(LiveSlots)
  BY TableFromInv DEF IndInv
<1>2. /\ AllocateNumber
      /\ Insert(PendingOutgoing(nextLocal))
      /\ pendingOutgoing' = pendingOutgoing + 1
      /\ outgoing' = Append(outgoing, OpenMsg(nextLocal))
      /\ tombstones' = tombstones
      /\ pendingIncoming' = pendingIncoming
      /\ pendingOutgoing < MaxPendingOutgoing
      /\ live < MaxChannels
  BY DEF Open
<1>3. /\ nextLocal \in Number
      /\ nextLocal' \in Number
      /\ numbersExhausted' \in BOOLEAN
  BY <1>1, <1>2, AllocateFresh
<1> DEFINE st == PendingOutgoing(nextLocal)
<1>4. st \in State /\ st.phase = "PendingOutgoing" /\ st.local = nextLocal
  BY <1>3, StateBuilt
<1> HIDE DEF st
<1>5. /\ TableOK'
      /\ live' = live + 1
      /\ \E k \in (DOMAIN slots') \ LiveSlots :
            /\ slots'[k].state = st
            /\ DOMAIN slots' = DOMAIN slots \cup {k}
            /\ \A j \in DOMAIN slots : j # k => slots'[j] = slots[j]
  <2>1. Insert(st)
    BY <1>2 DEF st
  <2> QED BY <1>1, <1>2, <1>4, <2>1, InsertSlot
<1>6. PICK k \in (DOMAIN slots') \ LiveSlots :
         /\ slots'[k].state = st
         /\ DOMAIN slots' = DOMAIN slots \cup {k}
         /\ \A j \in DOMAIN slots : j # k => slots'[j] = slots[j]
  BY <1>5
<1>7. /\ In("PendingOutgoing")' = In("PendingOutgoing") \cup {k}
      /\ In("PendingIncoming")' = In("PendingIncoming")
      /\ In("Established")' = In("Established")
      /\ LiveSlots' = LiveSlots \cup {k}
      /\ k \notin In("PendingOutgoing") /\ k \notin In("PendingIncoming")
      /\ k \notin In("Established")
  <2>1. /\ In("PendingOutgoing")' = In("PendingOutgoing") \cup {k}
        /\ In("PendingIncoming")' = In("PendingIncoming") \ {k}
        /\ In("Established")' = In("Established") \ {k}
        /\ LiveSlots' = LiveSlots \cup {k}
    BY <1>4, <1>6, OneSlotSets
  <2>2. \A ph : ph # "None" => k \notin In(ph)
    BY <1>6 DEF In, LiveSlots
  <2> QED BY <2>1, <2>2
<1>8. TypeOK'
  <2>1. outgoing' \in Seq(Message)
    <3>1. OpenMsg(nextLocal) \in Message
      BY <1>3 DEF OpenMsg, Message
    <3> QED BY <1>1, <1>2, <3>1, AppendProperties DEF TypeOK
  <2> QED BY <1>1, <1>2, <1>3, <1>5, <2>1 DEF TypeOK, TableOK
<1>9. CountersExact'
  <2>1. /\ Cardinality(In("PendingOutgoing") \cup {k})
             = Cardinality(In("PendingOutgoing")) + 1
        /\ Cardinality(LiveSlots \cup {k}) = Cardinality(LiveSlots) + 1
    BY <1>1, <1>6, <1>7, Counting
  <2> QED BY <1>2, <1>5, <1>7, <2>1 DEF IndInv, CountersExact
<1>10. LimitsHold'
  BY <1>1, <1>2, <1>5, OpeningConstants DEF IndInv, TypeOK, TableOK, LimitsHold
<1>11. LocalNumbersUnique'
  <2>1. HasLocal' = HasLocal \cup {k} /\ k \notin HasLocal
    BY <1>7 DEF HasLocal
  <2>2. slots'[k].state.local = nextLocal
    BY <1>4, <1>6
  <2>3. \A i \in HasLocal : slots'[i].state.local = slots[i].state.local
    BY <1>6, <2>1 DEF HasLocal, In
  <2> QED BY <1>1, <1>2, <2>1, <2>2, <2>3, LocalAdded
<1>12. PeerNumbersUnique'
  <2>1. HasPeer' = HasPeer /\ k \notin HasPeer
    BY <1>7 DEF HasPeer
  <2> QED BY <1>6, <2>1 DEF IndInv, PeerNumbersUnique, HasPeer, In
<1> QED
  BY <1>5, <1>8, <1>9, <1>10, <1>11, <1>12 DEF IndInv, TableOK

\* What every removal has in common (cancel, refuse, an open refused by the
\* peer): the slot leaves its phase and nothing else moves.
LEMMA RemoveEffect ==
    ASSUME IndInv, NEW i \in LiveSlots, i \notin In("Established"), RemoveSlot(i)
    PROVE  /\ TableOK'
           /\ live' = live - 1 /\ live' \in Nat
           /\ live' = Cardinality(LiveSlots)'
           /\ In("PendingOutgoing")' = In("PendingOutgoing") \ {i}
           /\ In("PendingIncoming")' = In("PendingIncoming") \ {i}
           /\ In("Established")' = In("Established")
           /\ HasLocal' = HasLocal \ {i}
           /\ \A j \in HasLocal' : slots'[j] = slots[j]
           /\ PeerNumbersUnique'
<1>1. TableOK /\ live = Cardinality(LiveSlots) /\ live \in Nat
  BY TableFromInv DEF IndInv, TypeOK
<1>2. /\ TableOK'
      /\ live' = live - 1
      /\ DOMAIN slots' = DOMAIN slots
      /\ slots'[i].state = Vacant
      /\ \A j \in DOMAIN slots : j # i => slots'[j] = slots[j]
  BY <1>1, RemoveSlotTable
<1>3. i \in DOMAIN slots /\ Vacant.phase = "None"
  BY DEF LiveSlots, Vacant
<1>4. /\ \A ph \in {"PendingOutgoing", "PendingIncoming", "Established"} :
            In(ph)' = In(ph) \ {i}
      /\ LiveSlots' = LiveSlots \ {i}
  <2>1. DOMAIN slots' = DOMAIN slots \cup {i}
    BY <1>2, <1>3
  <2> QED BY <1>2, <1>3, <2>1, OneSlotSets
<1>5. HasLocal' = HasLocal \ {i} /\ HasPeer' = HasPeer \ {i}
  BY <1>4 DEF HasLocal, HasPeer
<1>6. \A j \in DOMAIN slots' : j # i => slots'[j] = slots[j]
  BY <1>2
<1>7. HasLocal \subseteq DOMAIN slots /\ HasPeer \subseteq DOMAIN slots
  BY DEF HasLocal, HasPeer, In
<1>8. PeerNumbersUnique'
  BY <1>2, <1>5, <1>6, <1>7 DEF IndInv, PeerNumbersUnique
<1>9. /\ Cardinality(LiveSlots \ {i}) = Cardinality(LiveSlots) - 1
      /\ Cardinality(LiveSlots) # 0
  BY <1>1, Counting
<1>10. Cardinality(LiveSlots)' = live - 1 /\ live # 0
  BY <1>1, <1>4, <1>9
<1> QED
  BY <1>1, <1>2, <1>4, <1>5, <1>6, <1>7, <1>8, <1>10

LEMMA CancelInv ==
    ASSUME IndInv, NEW h \in Handle, Cancel(h)
    PROVE  IndInv'
<1> DEFINE i == h.index
           n == slots[i].state.local
<1>1. /\ i \in In("PendingOutgoing") /\ i \in LiveSlots
      /\ i \notin In("Established") /\ i \notin In("PendingIncoming")
      /\ i \in HasLocal
  BY DEF Cancel, Resolves, In, LiveSlots, HasLocal
<1>2. /\ RemoveSlot(i)
      /\ pendingOutgoing' = pendingOutgoing - 1
      /\ tombstones' = Trimmed(Append(tombstones, n))
      /\ UNCHANGED <<nextLocal, numbersExhausted, outgoing, pendingIncoming>>
  BY DEF Cancel, numbers
<1>3. TableOK /\ TypeOK /\ LocalNumbersUnique /\ CountersExact /\ LimitsHold
  BY TableFromInv DEF IndInv
<1>4. n \in Number
  BY <1>1, <1>3, NumbersTyped DEF TypeOK
<1> HIDE DEF i, n
<1>5. /\ TableOK'
      /\ live' = live - 1 /\ live' \in Nat
      /\ live' = Cardinality(LiveSlots)'
      /\ In("PendingOutgoing")' = In("PendingOutgoing") \ {i}
      /\ In("PendingIncoming")' = In("PendingIncoming") \ {i}
      /\ HasLocal' = HasLocal \ {i}
      /\ \A j \in HasLocal' : slots'[j] = slots[j]
      /\ PeerNumbersUnique'
  BY <1>1, <1>2, RemoveEffect
<1>6. /\ Cardinality(In("PendingOutgoing") \ {i})
           = Cardinality(In("PendingOutgoing")) - 1
      /\ Cardinality(In("PendingOutgoing")) # 0
  BY <1>1, <1>3, Counting
<1>7. CountersExact'
  <2>1. In("PendingIncoming")' = In("PendingIncoming")
    BY <1>1, <1>5
  <2> QED BY <1>2, <1>3, <1>5, <1>6, <2>1 DEF CountersExact
<1>8. pendingOutgoing' \in Nat
  BY <1>2, <1>3, <1>6 DEF CountersExact, TypeOK
<1> DEFINE s == Append(tombstones, n)
<1>9. /\ s \in Seq(Number)
      /\ DOMAIN s = DOMAIN tombstones \cup {Len(tombstones) + 1}
      /\ DOMAIN s \subseteq Nat
      /\ \A k \in DOMAIN tombstones : s[k] = tombstones[k]
      /\ s[Len(tombstones) + 1] = n
      /\ Len(tombstones) + 1 \notin DOMAIN tombstones
  BY <1>3, <1>4, AppendProperties, LenProperties DEF TypeOK
<1> HIDE DEF s
<1>10. /\ tombstones' \in Seq(Number)
       /\ Len(tombstones') <= MaxTombstones
       /\ \E d \in Nat : \A k \in DOMAIN tombstones' :
             k + d \in DOMAIN s /\ tombstones'[k] = s[k + d]
  BY <1>2, <1>9, TrimmedSeq DEF s
<1>11. PICK d \in Nat : \A k \in DOMAIN tombstones' :
          k + d \in DOMAIN s /\ tombstones'[k] = s[k + d]
  BY <1>10
<1>12. /\ \A k \in DOMAIN s : Allocated(s[k])
       /\ \A j, k \in DOMAIN s : s[j] = s[k] => j = k
       /\ \A j \in HasLocal \ {i} : \A k \in DOMAIN s :
             slots[j].state.local # s[k]
  BY <1>1, <1>3, <1>9 DEF LocalNumbersUnique, n
<1>13. LocalNumbersUnique'
  <2>1. \A k \in DOMAIN tombstones' : Allocated(tombstones[k])'
    BY <1>2, <1>11, <1>12 DEF Allocated
  <2>2. \A j \in HasLocal' : Allocated(slots[j].state.local)'
    BY <1>2, <1>3, <1>5 DEF LocalNumbersUnique, Allocated
  <2>3. \A j, k \in DOMAIN tombstones' : tombstones'[j] = tombstones'[k] => j = k
    <3>1. DOMAIN tombstones' \subseteq Nat
      BY <1>10, LenProperties
    <3>2. ASSUME NEW j \in DOMAIN tombstones', NEW k \in DOMAIN tombstones',
                 tombstones'[j] = tombstones'[k]
          PROVE  j = k
      <4>1. j + d = k + d
        BY <3>2, <1>11, <1>12
      <4>2. j \in Nat /\ k \in Nat /\ d \in Nat
        BY <3>1
      <4> QED BY <4>1, <4>2
    <3> QED BY <3>2
  <2>4. \A j, k \in HasLocal' :
          slots'[j].state.local = slots'[k].state.local => j = k
    BY <1>3, <1>5 DEF LocalNumbersUnique
  <2>5. \A j \in HasLocal' : \A k \in DOMAIN tombstones' :
          slots'[j].state.local # tombstones'[k]
    BY <1>5, <1>11, <1>12
  <2>6. numbersExhausted' => nextLocal' = MaxNumber
    BY <1>2, <1>3 DEF LocalNumbersUnique
  <2> QED
    BY <2>1, <2>2, <2>3, <2>4, <2>5, <2>6 DEF LocalNumbersUnique
<1>14. TypeOK' /\ LimitsHold'
  BY <1>2, <1>3, <1>5, <1>8, <1>10, OpeningConstants
     DEF TypeOK, TableOK, LimitsHold
<1> QED
  BY <1>5, <1>7, <1>13, <1>14 DEF IndInv, TableOK

\* refuse, accept without a number left, and OPEN_FAILURE all remove a
\* pending slot and decrement its counter; they differ in the queue.
LEMMA RefuseWithInv ==
    ASSUME IndInv, NEW i \in In("PendingIncoming"), RefuseWith(i),
           UNCHANGED <<nextLocal, numbersExhausted, tombstones, pendingOutgoing>>
    PROVE  IndInv'
<1>1. /\ i \in LiveSlots /\ i \notin In("Established")
      /\ i \notin In("PendingOutgoing") /\ i \in HasPeer
  BY DEF In, LiveSlots, HasPeer
<1>2. /\ RemoveSlot(i)
      /\ pendingIncoming' = pendingIncoming - 1
      /\ outgoing' = Append(outgoing, FailureMsg(slots[i].state.peer))
  BY DEF RefuseWith
<1>3. TableOK /\ TypeOK /\ LocalNumbersUnique /\ CountersExact /\ LimitsHold
  BY TableFromInv DEF IndInv
<1>4. /\ TableOK'
      /\ live' = live - 1 /\ live' \in Nat
      /\ live' = Cardinality(LiveSlots)'
      /\ In("PendingOutgoing")' = In("PendingOutgoing") \ {i}
      /\ In("PendingIncoming")' = In("PendingIncoming") \ {i}
      /\ HasLocal' = HasLocal \ {i}
      /\ \A j \in HasLocal' : slots'[j] = slots[j]
      /\ PeerNumbersUnique'
  BY <1>1, <1>2, RemoveEffect
<1>5. /\ Cardinality(In("PendingIncoming") \ {i})
           = Cardinality(In("PendingIncoming")) - 1
      /\ Cardinality(In("PendingIncoming")) # 0
  BY <1>3, Counting
<1>6. CountersExact'
  <2>1. In("PendingOutgoing")' = In("PendingOutgoing")
    BY <1>1, <1>4
  <2> QED BY <1>2, <1>3, <1>4, <1>5, <2>1 DEF CountersExact
<1>7. pendingIncoming' \in Nat
  BY <1>2, <1>3, <1>5 DEF CountersExact, TypeOK
<1>8. LocalNumbersUnique'
  BY <1>3, <1>4, LocalsKept
<1>9. outgoing' \in Seq(Message)
  <2>1. slots[i].state.peer \in Number
    BY <1>1, <1>3, NumbersTyped DEF TypeOK
  <2>2. FailureMsg(slots[i].state.peer) \in Message
    BY <2>1 DEF FailureMsg, Message
  <2> QED BY <1>2, <1>3, <2>2, AppendProperties DEF TypeOK
<1>10. TypeOK' /\ LimitsHold'
  BY <1>2, <1>3, <1>4, <1>7, <1>9, OpeningConstants
     DEF TypeOK, TableOK, LimitsHold
<1> QED
  BY <1>4, <1>6, <1>8, <1>10 DEF IndInv, TableOK

LEMMA RefuseInv ==
    ASSUME IndInv, NEW h \in Handle, Refuse(h) \/ AcceptExhausted(h)
    PROVE  IndInv'
<1>1. h.index \in In("PendingIncoming")
  BY DEF Refuse, AcceptExhausted, Resolves, In
<1>2. /\ RefuseWith(h.index)
      /\ UNCHANGED <<nextLocal, numbersExhausted, tombstones, pendingOutgoing>>
  BY DEF Refuse, AcceptExhausted, numbers
<1> QED BY <1>1, <1>2, RefuseWithInv

LEMMA HandleFailureInv ==
    ASSUME IndInv, NEW n \in Number, HandleFailure(n)
    PROVE  IndInv'
<1>1. PICK i \in DOMAIN slots : LocatedPending(i, n) /\ RemoveSlot(i)
  BY DEF HandleFailure
<1>2. /\ i \in In("PendingOutgoing") /\ i \in LiveSlots
      /\ i \notin In("Established") /\ i \notin In("PendingIncoming")
  BY <1>1 DEF LocatedPending, In, LiveSlots
<1>3. /\ pendingOutgoing' = pendingOutgoing - 1
      /\ UNCHANGED <<nextLocal, numbersExhausted, tombstones, outgoing,
                     pendingIncoming>>
  BY DEF HandleFailure, numbers
<1>4. TableOK /\ TypeOK /\ LocalNumbersUnique /\ CountersExact /\ LimitsHold
  BY TableFromInv DEF IndInv
<1>5. /\ TableOK'
      /\ live' = live - 1 /\ live' \in Nat
      /\ live' = Cardinality(LiveSlots)'
      /\ In("PendingOutgoing")' = In("PendingOutgoing") \ {i}
      /\ In("PendingIncoming")' = In("PendingIncoming") \ {i}
      /\ HasLocal' = HasLocal \ {i}
      /\ \A j \in HasLocal' : slots'[j] = slots[j]
      /\ PeerNumbersUnique'
  BY <1>1, <1>2, RemoveEffect
<1>6. /\ Cardinality(In("PendingOutgoing") \ {i})
           = Cardinality(In("PendingOutgoing")) - 1
      /\ Cardinality(In("PendingOutgoing")) # 0
  BY <1>2, <1>4, Counting
<1>7. CountersExact'
  <2>1. In("PendingIncoming")' = In("PendingIncoming")
    BY <1>2, <1>5
  <2> QED BY <1>3, <1>4, <1>5, <1>6, <2>1 DEF CountersExact
<1>8. pendingOutgoing' \in Nat
  BY <1>3, <1>4, <1>6 DEF CountersExact, TypeOK
<1>9. LocalNumbersUnique'
  BY <1>3, <1>4, <1>5, LocalsKept
<1>10. TypeOK' /\ LimitsHold'
  BY <1>3, <1>4, <1>5, <1>8, OpeningConstants
     DEF TypeOK, TableOK, LimitsHold
<1> QED
  BY <1>5, <1>7, <1>9, <1>10 DEF IndInv, TableOK

\* What accept and OPEN_CONFIRMATION have in common: a pending slot turns
\* established in place, and the peer numbers stay unique.
LEMMA EstablishEffect ==
    ASSUME IndInv, NEW i \in LiveSlots, i \notin In("Established"),
           NEW n \in Number, NEW p \in Number,
           SetState(i, Established(n, p)),
           \A j \in HasPeer : slots[j].state.peer = p => j = i
    PROVE  /\ TableOK'
           /\ live' = live /\ live' = Cardinality(LiveSlots)'
           /\ In("PendingOutgoing")' = In("PendingOutgoing") \ {i}
           /\ In("PendingIncoming")' = In("PendingIncoming") \ {i}
           /\ HasLocal' = HasLocal \cup {i}
           /\ slots'[i].state.local = n
           /\ \A j \in HasLocal : j # i => slots'[j] = slots[j]
           /\ PeerNumbersUnique'
<1>1. TableOK /\ live = Cardinality(LiveSlots)
  BY TableFromInv
<1> DEFINE st == Established(n, p)
<1>2. /\ st \in State /\ st.phase = "Established"
      /\ st.local = n /\ st.peer = p
  BY StateBuilt
<1> HIDE DEF st
<1>3. /\ TableOK'
      /\ live' = live
      /\ DOMAIN slots' = DOMAIN slots
      /\ slots'[i].state = st
      /\ \A j \in DOMAIN slots : j # i => slots'[j] = slots[j]
  <2>1. SetState(i, st)
    BY DEF st
  <2> QED BY <1>1, <1>2, <2>1, SetStateTable
<1>4. DOMAIN slots' = DOMAIN slots \cup {i}
  BY <1>3 DEF LiveSlots
<1>5. /\ In("PendingOutgoing")' = In("PendingOutgoing") \ {i}
      /\ In("PendingIncoming")' = In("PendingIncoming") \ {i}
      /\ In("Established")' = In("Established") \cup {i}
      /\ LiveSlots' = LiveSlots \cup {i}
  BY <1>2, <1>3, <1>4, OneSlotSets
<1>6. LiveSlots' = LiveSlots
  BY <1>5
<1>7. /\ HasLocal' = HasLocal \cup {i} /\ HasPeer' = HasPeer \cup {i}
      /\ HasLocal \subseteq DOMAIN slots /\ HasPeer \subseteq DOMAIN slots
  BY <1>5 DEF HasLocal, HasPeer, In
<1>8. /\ slots'[i].state.local = n /\ slots'[i].state.peer = p
      /\ \A j \in HasPeer : j # i => slots'[j] = slots[j]
      /\ \A j \in HasLocal : j # i => slots'[j] = slots[j]
  BY <1>2, <1>3, <1>7
<1>9. PeerNumbersUnique'
  BY <1>7, <1>8 DEF IndInv, PeerNumbersUnique
<1> QED
  BY <1>1, <1>3, <1>5, <1>6, <1>7, <1>8, <1>9

LEMMA AcceptInv ==
    ASSUME IndInv, NEW h \in Handle, Accept(h)
    PROVE  IndInv'
<1> DEFINE i == h.index
           p == slots[i].state.peer
<1>1. /\ i \in In("PendingIncoming") /\ i \in LiveSlots
      /\ i \notin In("Established") /\ i \notin In("PendingOutgoing")
      /\ i \in HasPeer /\ i \notin HasLocal
  BY DEF Accept, Resolves, In, LiveSlots, HasPeer, HasLocal
<1>2. /\ AllocateNumber
      /\ SetState(i, Established(nextLocal, p))
      /\ outgoing' = Append(outgoing, ConfirmMsg(p, nextLocal))
      /\ pendingIncoming' = pendingIncoming - 1
      /\ UNCHANGED <<tombstones, pendingOutgoing>>
  BY DEF Accept
<1>3. /\ TableOK /\ TypeOK /\ LocalNumbersUnique /\ CountersExact
      /\ LimitsHold /\ PeerNumbersUnique
  BY TableFromInv DEF IndInv
<1>4. /\ nextLocal \in Number /\ nextLocal' \in Number
      /\ numbersExhausted' \in BOOLEAN
  BY <1>2, <1>3, AllocateFresh
<1>5. p \in Number
  BY <1>1, <1>3, NumbersTyped DEF TypeOK
<1>6. \A j \in HasPeer : slots[j].state.peer = p => j = i
  BY <1>1, <1>3 DEF PeerNumbersUnique
<1> HIDE DEF i, p
<1>7. /\ TableOK'
      /\ live' = live /\ live' = Cardinality(LiveSlots)'
      /\ In("PendingOutgoing")' = In("PendingOutgoing") \ {i}
      /\ In("PendingIncoming")' = In("PendingIncoming") \ {i}
      /\ HasLocal' = HasLocal \cup {i}
      /\ slots'[i].state.local = nextLocal
      /\ \A j \in HasLocal : j # i => slots'[j] = slots[j]
      /\ PeerNumbersUnique'
  BY <1>1, <1>2, <1>4, <1>5, <1>6, EstablishEffect
<1>8. /\ Cardinality(In("PendingIncoming") \ {i})
           = Cardinality(In("PendingIncoming")) - 1
      /\ Cardinality(In("PendingIncoming")) # 0
  BY <1>1, <1>3, Counting
<1>9. CountersExact'
  <2>1. In("PendingOutgoing")' = In("PendingOutgoing")
    BY <1>1, <1>7
  <2> QED BY <1>2, <1>3, <1>7, <1>8, <2>1 DEF CountersExact
<1>10. pendingIncoming' \in Nat
  BY <1>2, <1>3, <1>8 DEF CountersExact, TypeOK
<1>11. LocalNumbersUnique'
  <2>1. \A j \in HasLocal : slots'[j].state.local = slots[j].state.local
    BY <1>1, <1>7
  <2> QED BY <1>1, <1>2, <1>3, <1>7, <2>1, LocalAdded
<1>12. outgoing' \in Seq(Message)
  <2>1. ConfirmMsg(p, nextLocal) \in Message
    BY <1>4, <1>5 DEF ConfirmMsg, Message
  <2> QED BY <1>2, <1>3, <2>1, AppendProperties DEF TypeOK
<1>13. TypeOK' /\ LimitsHold'
  BY <1>2, <1>3, <1>4, <1>7, <1>10, <1>12, OpeningConstants
     DEF TypeOK, TableOK, LimitsHold
<1> QED
  BY <1>7, <1>9, <1>11, <1>13 DEF IndInv, TableOK

LEMMA HandleConfirmationInv ==
    ASSUME IndInv, NEW n \in Number, NEW p \in Number, HandleConfirmation(n, p)
    PROVE  IndInv'
<1>1. PICK i \in DOMAIN slots :
         LocatedPending(i, n) /\ SetState(i, Established(n, p))
  BY DEF HandleConfirmation
<1>2. /\ i \in In("PendingOutgoing") /\ i \in LiveSlots
      /\ i \notin In("Established") /\ i \notin In("PendingIncoming")
      /\ i \in HasLocal /\ slots[i].state.local = n
  BY <1>1 DEF LocatedPending, In, LiveSlots, HasLocal
<1>3. /\ ~PeerNumberInUse(p)
      /\ pendingOutgoing' = pendingOutgoing - 1
      /\ UNCHANGED <<nextLocal, numbersExhausted, tombstones, outgoing,
                     pendingIncoming>>
  BY DEF HandleConfirmation, numbers
<1>4. TableOK /\ TypeOK /\ LocalNumbersUnique /\ CountersExact /\ LimitsHold
  BY TableFromInv DEF IndInv
<1>5. \A j \in HasPeer : slots[j].state.peer = p => j = i
  BY <1>3 DEF PeerNumberInUse
<1>6. /\ TableOK'
      /\ live' = live /\ live' = Cardinality(LiveSlots)'
      /\ In("PendingOutgoing")' = In("PendingOutgoing") \ {i}
      /\ In("PendingIncoming")' = In("PendingIncoming") \ {i}
      /\ HasLocal' = HasLocal \cup {i}
      /\ slots'[i].state.local = n
      /\ \A j \in HasLocal : j # i => slots'[j] = slots[j]
      /\ PeerNumbersUnique'
  BY <1>1, <1>2, <1>5, EstablishEffect
<1>7. /\ Cardinality(In("PendingOutgoing") \ {i})
           = Cardinality(In("PendingOutgoing")) - 1
      /\ Cardinality(In("PendingOutgoing")) # 0
  BY <1>2, <1>4, Counting
<1>8. CountersExact'
  <2>1. In("PendingIncoming")' = In("PendingIncoming")
    BY <1>2, <1>6
  <2> QED BY <1>3, <1>4, <1>6, <1>7, <2>1 DEF CountersExact
<1>9. pendingOutgoing' \in Nat
  BY <1>3, <1>4, <1>7 DEF CountersExact, TypeOK
<1>10. LocalNumbersUnique'
  <2>1. HasLocal' = HasLocal
    BY <1>2, <1>6
  <2>2. \A j \in HasLocal' : slots'[j].state.local = slots[j].state.local
    BY <1>2, <1>6, <2>1
  <2> QED BY <1>3, <1>4, <2>1, <2>2, LocalsKept
<1>11. TypeOK' /\ LimitsHold'
  BY <1>3, <1>4, <1>6, <1>9, OpeningConstants, SMTT(20)
     DEF TypeOK, TableOK, LimitsHold
<1> QED
  BY <1>6, <1>8, <1>10, <1>11 DEF IndInv, TableOK

LEMMA HandleOpenInv ==
    ASSUME IndInv, NEW p \in Number, HandleOpen(p)
    PROVE  IndInv'
<1>1. /\ TableOK /\ TypeOK /\ LocalNumbersUnique /\ CountersExact
      /\ LimitsHold /\ PeerNumbersUnique
  BY TableFromInv DEF IndInv
<1>2. /\ ~PeerNumberInUse(p)
      /\ pendingIncoming < MaxPendingIncoming /\ live < MaxChannels
      /\ Insert(PendingIncoming(p))
      /\ pendingIncoming' = pendingIncoming + 1
      /\ UNCHANGED <<nextLocal, numbersExhausted, tombstones, outgoing,
                     pendingOutgoing>>
  BY <1>1, OpeningConstants DEF HandleOpen, AtIncomingLimit, numbers, TypeOK
<1> DEFINE st == PendingIncoming(p)
<1>3. st \in State /\ st.phase = "PendingIncoming" /\ st.peer = p
  BY StateBuilt
<1> HIDE DEF st
<1>4. /\ TableOK'
      /\ live' = live + 1
      /\ \E k \in (DOMAIN slots') \ LiveSlots :
            /\ slots'[k].state = st
            /\ DOMAIN slots' = DOMAIN slots \cup {k}
            /\ \A j \in DOMAIN slots : j # k => slots'[j] = slots[j]
  <2>1. Insert(st) /\ live = Cardinality(LiveSlots)
    BY <1>1, <1>2 DEF st, CountersExact
  <2> QED BY <1>1, <1>2, <1>3, <2>1, InsertSlot
<1>5. PICK k \in (DOMAIN slots') \ LiveSlots :
         /\ slots'[k].state = st
         /\ DOMAIN slots' = DOMAIN slots \cup {k}
         /\ \A j \in DOMAIN slots : j # k => slots'[j] = slots[j]
  BY <1>4
<1>6. /\ In("PendingIncoming")' = In("PendingIncoming") \cup {k}
      /\ In("PendingOutgoing")' = In("PendingOutgoing")
      /\ In("Established")' = In("Established")
      /\ LiveSlots' = LiveSlots \cup {k}
      /\ k \notin In("PendingOutgoing") /\ k \notin In("PendingIncoming")
      /\ k \notin In("Established")
  <2>1. /\ In("PendingIncoming")' = In("PendingIncoming") \cup {k}
        /\ In("PendingOutgoing")' = In("PendingOutgoing") \ {k}
        /\ In("Established")' = In("Established") \ {k}
        /\ LiveSlots' = LiveSlots \cup {k}
    BY <1>3, <1>5, OneSlotSets
  <2>2. \A ph : ph # "None" => k \notin In(ph)
    BY <1>5 DEF In, LiveSlots
  <2> QED BY <2>1, <2>2
<1>7. CountersExact'
  <2>1. /\ Cardinality(In("PendingIncoming") \cup {k})
             = Cardinality(In("PendingIncoming")) + 1
        /\ Cardinality(LiveSlots \cup {k}) = Cardinality(LiveSlots) + 1
    BY <1>1, <1>5, <1>6, Counting
  <2> QED BY <1>1, <1>2, <1>4, <1>6, <2>1 DEF CountersExact
<1>8. LocalNumbersUnique'
  <2>1. HasLocal' = HasLocal /\ k \notin HasLocal
    BY <1>6 DEF HasLocal
  <2>2. \A j \in HasLocal' : slots'[j].state.local = slots[j].state.local
    BY <1>5, <2>1 DEF HasLocal, In
  <2> QED BY <1>1, <1>2, <2>1, <2>2, LocalsKept
<1>9. PeerNumbersUnique'
  <2>1. HasPeer' = HasPeer \cup {k} /\ k \notin HasPeer
    BY <1>6 DEF HasPeer
  <2>2. slots'[k].state.peer = p
    BY <1>3, <1>5
  <2>3. \A j \in HasPeer : slots'[j] = slots[j] /\ slots[j].state.peer # p
    BY <1>2, <1>5, <2>1 DEF HasPeer, In, PeerNumberInUse
  <2> QED BY <1>1, <2>1, <2>2, <2>3 DEF PeerNumbersUnique
<1>10. TypeOK' /\ LimitsHold'
  BY <1>1, <1>2, <1>4, OpeningConstants, SMTT(20) DEF TypeOK, TableOK, LimitsHold
<1> QED
  BY <1>4, <1>7, <1>8, <1>9, <1>10 DEF IndInv, TableOK

\* The steps that only move a message or a tombstone.
LEMMA QueueInv ==
    ASSUME IndInv,
           NextOutgoing \/ \E p \in Number : HandleOpenByLimit(p)
    PROVE  IndInv'
<1>1. TypeOK
  BY DEF IndInv
<1>2. /\ UNCHANGED <<slots, free, live, pendingOutgoing, pendingIncoming,
                     nextLocal, numbersExhausted, tombstones>>
  BY DEF NextOutgoing, HandleOpenByLimit, registry, counters, numbers
<1>3. outgoing' \in Seq(Message)
  <2>1. CASE NextOutgoing
    BY <1>1, <2>1, HeadTailProperties DEF TypeOK, NextOutgoing
  <2>2. CASE \E p \in Number : HandleOpenByLimit(p)
    <3>1. PICK p \in Number : HandleOpenByLimit(p)
      BY <2>2
    <3>2. FailureMsg(p) \in Message
      BY DEF FailureMsg, Message
    <3> QED
      BY <1>1, <3>1, <3>2, AppendProperties DEF TypeOK, HandleOpenByLimit
  <2> QED BY <2>1, <2>2
<1>4. TypeOK'
  BY <1>1, <1>2, <1>3 DEF TypeOK
<1>5. \A ph : In(ph)' = In(ph)
  BY <1>2 DEF In, Phase
<1>6. LiveSlots' = LiveSlots /\ HasLocal' = HasLocal /\ HasPeer' = HasPeer
  BY <1>2, <1>5 DEF LiveSlots, HasLocal, HasPeer, Phase
<1>7. FreeListExact' /\ CountersExact' /\ LimitsHold' /\ PeerNumbersUnique'
  BY <1>2, <1>5, <1>6
     DEF IndInv, FreeListExact, CountersExact, LimitsHold, PeerNumbersUnique
<1>8. LocalNumbersUnique'
  BY <1>1, <1>2, <1>6, LocalsKept DEF IndInv
<1> QED BY <1>4, <1>7, <1>8 DEF IndInv

LEMMA LateReplyInv ==
    ASSUME IndInv, NEW n \in Number,
           ConsumeTombstone(n),
           UNCHANGED <<slots, free, live, pendingOutgoing, pendingIncoming,
                       nextLocal, numbersExhausted, outgoing>>
    PROVE  IndInv'
<1>1. TypeOK /\ LocalNumbersUnique /\ LimitsHold
  BY DEF IndInv
<1>2. PICK k \in DOMAIN tombstones : tombstones' = RemoveAt(tombstones, k)
  BY DEF ConsumeTombstone
<1>3. Len(tombstones) \in Nat /\ DOMAIN tombstones = 1..Len(tombstones)
  BY <1>1, LenProperties DEF TypeOK
<1>4. /\ tombstones' \in Seq(Number)
      /\ Len(tombstones') = Len(tombstones) - 1
      /\ \A i \in DOMAIN tombstones' :
            IF i < k THEN i \in DOMAIN tombstones /\ tombstones'[i] = tombstones[i]
            ELSE i + 1 \in DOMAIN tombstones /\ tombstones'[i] = tombstones[i + 1]
  BY <1>1, <1>2, RemoveAtSeq DEF TypeOK
<1>5. DOMAIN tombstones' \subseteq Nat /\ k \in Nat
  BY <1>3, <1>4, LenProperties
<1>6. TypeOK' /\ LimitsHold'
  BY <1>1, <1>3, <1>4, OpeningConstants DEF TypeOK, LimitsHold
<1>7. \A ph : In(ph)' = In(ph)
  BY DEF In, Phase
<1>8. LiveSlots' = LiveSlots /\ HasLocal' = HasLocal /\ HasPeer' = HasPeer
  BY <1>7 DEF LiveSlots, HasLocal, HasPeer, Phase
<1>9. FreeListExact' /\ CountersExact' /\ PeerNumbersUnique'
  BY <1>7, <1>8 DEF IndInv, FreeListExact, CountersExact, PeerNumbersUnique
<1>10. LocalNumbersUnique'
  <2>1. \A i \in DOMAIN tombstones' : Allocated(tombstones[i])'
    BY <1>1, <1>4 DEF LocalNumbersUnique, Allocated
  <2>2. \A i \in HasLocal' : Allocated(slots[i].state.local)'
    BY <1>1, <1>8 DEF LocalNumbersUnique, Allocated
  <2>3. ASSUME NEW i \in DOMAIN tombstones', NEW j \in DOMAIN tombstones',
               tombstones'[i] = tombstones'[j]
        PROVE  i = j
    <3>1. \A a, b \in DOMAIN tombstones : tombstones[a] = tombstones[b] => a = b
      BY <1>1 DEF LocalNumbersUnique
    <3>2. i \in Nat /\ j \in Nat
      BY <1>5
    <3>3. CASE i < k /\ j < k
      BY <3>3, <1>4, <2>3, <3>1
    <3>4. CASE i < k /\ ~(j < k)
      <4>1. i = j + 1
        BY <3>4, <1>4, <2>3, <3>1
      <4> QED BY <4>1, <3>2, <3>4, <1>5
    <3>5. CASE ~(i < k) /\ j < k
      <4>1. i + 1 = j
        BY <3>5, <1>4, <2>3, <3>1
      <4> QED BY <4>1, <3>2, <3>5, <1>5
    <3>6. CASE ~(i < k) /\ ~(j < k)
      <4>1. i + 1 = j + 1
        BY <3>6, <1>4, <2>3, <3>1
      <4> QED BY <4>1, <3>2
    <3> QED BY <3>3, <3>4, <3>5, <3>6
  <2>4. \A i \in HasLocal' : \A j \in DOMAIN tombstones' :
          slots'[i].state.local # tombstones'[j]
    BY <1>1, <1>4, <1>8 DEF LocalNumbersUnique
  <2>5. /\ numbersExhausted' => nextLocal' = MaxNumber
        /\ \A i, j \in HasLocal' :
              slots'[i].state.local = slots'[j].state.local => i = j
    BY <1>1, <1>8 DEF LocalNumbersUnique
  <2> QED
    BY <2>1, <2>2, <2>3, <2>4, <2>5 DEF LocalNumbersUnique
<1> QED BY <1>6, <1>9, <1>10 DEF IndInv

LEMMA TransportLostInv ==
    ASSUME IndInv, TransportLost
    PROVE  IndInv'
<1>1. TableOK /\ TypeOK /\ LocalNumbersUnique /\ LimitsHold
  BY TableFromInv DEF IndInv
<1>2. /\ pendingOutgoing' = 0 /\ pendingIncoming' = 0 /\ live' = 0
      /\ outgoing' = <<>>
      /\ UNCHANGED <<nextLocal, numbersExhausted, tombstones>>
  BY DEF TransportLost, numbers
<1>3. /\ TableOK'
      /\ LiveSlots' = {}
      /\ In("PendingOutgoing")' = {} /\ In("PendingIncoming")' = {}
      /\ In("Established")' = {}
  BY <1>1, TransportLostTable
<1>4. CountersExact'
  <2>1. Cardinality({}) = 0
    BY FS_EmptySet
  <2> QED BY <1>2, <1>3, <2>1 DEF CountersExact
<1>5. HasLocal' = {} /\ HasPeer' = {}
  BY <1>3 DEF HasLocal, HasPeer
<1>6. LocalNumbersUnique'
  BY <1>1, <1>2, <1>5, LocalsKept
<1>7. PeerNumbersUnique'
  BY <1>5 DEF PeerNumbersUnique
<1>8. TypeOK' /\ LimitsHold'
  BY <1>1, <1>2, <1>3, EmptySeq, OpeningConstants
     DEF TypeOK, TableOK, LimitsHold
<1> QED
  BY <1>3, <1>4, <1>6, <1>7, <1>8 DEF IndInv, TableOK

----------------------------------------------------------------------------
(* The theorems.                                                           *)

\* A new engine satisfies the invariant.
LEMMA InitInv == Init => IndInv
<1> SUFFICES ASSUME Init PROVE IndInv
  OBVIOUS
<1>1. slots = <<>> /\ free = <<>> /\ DOMAIN slots = {} /\ DOMAIN free = {}
  BY DEF Init
<1>2. \A ph : In(ph) = {}
  BY <1>1 DEF In
<1>3. LiveSlots = {} /\ HasLocal = {} /\ HasPeer = {}
  BY <1>1, <1>2 DEF LiveSlots, HasLocal, HasPeer
<1>4. TypeOK
  <2>1. 0 \in Number /\ 0 \in Nat /\ FALSE \in BOOLEAN
    BY OpeningConstants DEF Number
  <2>2. \A S : <<>> \in Seq(S)
    BY EmptySeq
  <2> QED BY <2>1, <2>2, Zenon DEF Init, TypeOK
<1>5. FreeListExact
  BY <1>1, <1>2 DEF FreeListExact
<1>6. CountersExact
  BY <1>2, <1>3, FS_EmptySet DEF Init, CountersExact
<1>7. LimitsHold
  BY EmptySeq, OpeningConstants DEF Init, LimitsHold
<1>8. LocalNumbersUnique /\ PeerNumbersUnique
  BY <1>3 DEF Init, LocalNumbersUnique, PeerNumbersUnique
<1> QED BY <1>4, <1>5, <1>6, <1>7, <1>8 DEF IndInv

\* Every command and every peer message preserves it.
LEMMA StepInv == IndInv /\ [Next]_vars => IndInv'
<1> SUFFICES ASSUME IndInv, [Next]_vars PROVE IndInv'
  OBVIOUS
<1>1. CASE Open
  BY <1>1, OpenInv
<1>2. CASE \E h \in Handle : Cancel(h)
  BY <1>2, CancelInv
<1>3. CASE \E h \in Handle : Accept(h)
  BY <1>3, AcceptInv
<1>4. CASE \E h \in Handle : AcceptExhausted(h) \/ Refuse(h)
  BY <1>4, RefuseInv
<1>5. CASE TransportLost
  BY <1>5, TransportLostInv
<1>6. CASE NextOutgoing \/ \E p \in Number : HandleOpenByLimit(p)
  BY <1>6, QueueInv
<1>7. CASE \E p \in Number : HandleOpen(p)
  BY <1>7, HandleOpenInv
<1>8. CASE \E n, p \in Number : HandleConfirmation(n, p)
  BY <1>8, HandleConfirmationInv
<1>9. CASE \E n \in Number : HandleFailure(n)
  BY <1>9, HandleFailureInv
<1>10. CASE \E n, p \in Number : HandleLateConfirmation(n, p)
  <2>1. PICK n \in Number, p \in Number : HandleLateConfirmation(n, p)
    BY <1>10
  <2>2. /\ ConsumeTombstone(n)
        /\ UNCHANGED <<slots, free, live, pendingOutgoing, pendingIncoming,
                       nextLocal, numbersExhausted, outgoing>>
    BY <2>1 DEF HandleLateConfirmation, registry, counters, numbers
  <2> QED BY <2>2, LateReplyInv
<1>11. CASE \E n \in Number : HandleLateFailure(n)
  <2>1. PICK n \in Number : HandleLateFailure(n)
    BY <1>11
  <2>2. /\ ConsumeTombstone(n)
        /\ UNCHANGED <<slots, free, live, pendingOutgoing, pendingIncoming,
                       nextLocal, numbersExhausted, outgoing>>
    BY <2>1 DEF HandleLateFailure, registry, counters, numbers
  <2> QED BY <2>2, LateReplyInv
<1>12. CASE UNCHANGED vars
  <2>1. UNCHANGED <<slots, free, live, pendingOutgoing, pendingIncoming,
                    nextLocal, numbersExhausted, tombstones, outgoing>>
    BY <1>12 DEF vars
  <2> QED
    BY <2>1 DEF IndInv, TypeOK, FreeListExact, CountersExact, LimitsHold,
                LocalNumbersUnique, PeerNumbersUnique, Allocated, HasLocal,
                HasPeer, LiveSlots, In, Phase
<1> QED
  BY <1>1, <1>2, <1>3, <1>4, <1>5, <1>6, <1>7, <1>8, <1>9, <1>10, <1>11,
     <1>12 DEF Next, Command, PeerMessage

\* The invariant holds in every reachable state.
THEOREM Invariance == Spec => []IndInv
<1> QED BY InitInv, StepInv, PTL DEF Spec

\* The engine's fields keep their types whatever the application and the
\* peer do.
THEOREM TypeCorrect == Spec => []TypeOK
<1>1. IndInv => TypeOK
  BY DEF IndInv
<1> QED BY Invariance, <1>1, PTL

\* The counters that open and handle_open test are exact, so the limits hold
\* for every value of OpeningLimits; insert never lands on a live channel and
\* remove never loses a slot (open, cancel, accept, refuse, the three message
\* handlers and transport_lost).
THEOREM RegistryCorrect == Spec => []RegistryExact
<1>1. IndInv => RegistryExact
  BY DEF IndInv, WithinLimits, RegistryExact
<1> QED BY Invariance, <1>1, PTL

\* A local number names one live channel or one tombstone, so locate_reply
\* can find one match only; and no peer, however it numbers its opens and
\* confirmations, gets two live channels with one number.
THEOREM NumbersCorrect == Spec => []NumbersUnique
<1>1. IndInv => NumbersUnique
  BY DEF IndInv, NumbersUnique
<1> QED BY Invariance, <1>1, PTL

----------------------------------------------------------------------------
(* The channels of the reference model are the live slots.                 *)

ChannelOf(i) ==
    [handle |-> HandleOf(i), phase |-> Phase(i), local |-> slots[i].state.local,
     peer |-> slots[i].state.peer]

LEMMA ChannelFields ==
    /\ \A c : c \in LiveChannels <=> \E i \in LiveSlots : c = ChannelOf(i)
    /\ \A i : /\ ChannelOf(i).handle = HandleOf(i)
              /\ ChannelOf(i).phase = Phase(i)
              /\ ChannelOf(i).local = slots[i].state.local
              /\ ChannelOf(i).peer = slots[i].state.peer
    /\ \A i : HandleOf(i).index = i /\ HandleOf(i).generation = slots[i].generation
    /\ \A i, j : ChannelOf(i) = ChannelOf(j) => i = j
<1>1. \A c : c \in LiveChannels <=> \E i \in LiveSlots : c = ChannelOf(i)
  BY DEF LiveChannels, ChannelOf
<1>2. \A i : /\ ChannelOf(i).handle = HandleOf(i)
             /\ ChannelOf(i).phase = Phase(i)
             /\ ChannelOf(i).local = slots[i].state.local
             /\ ChannelOf(i).peer = slots[i].state.peer
  BY DEF ChannelOf
<1>3. \A i : HandleOf(i).index = i /\ HandleOf(i).generation = slots[i].generation
  BY DEF HandleOf
<1>4. ASSUME NEW i, NEW j, ChannelOf(i) = ChannelOf(j)
      PROVE  i = j
  <2>1. HandleOf(i).index = HandleOf(j).index
    BY <1>2, <1>4
  <2> QED BY <1>3, <2>1
<1> QED BY <1>1, <1>2, <1>3, <1>4

\* The model counts channels where the engine counts slots.
LEMMA ImageSize ==
    ASSUME NEW S, IsFiniteSet(S), NEW T, T = {ChannelOf(i) : i \in S}
    PROVE  Cardinality(T) = Cardinality(S)
<1> DEFINE f == [i \in S |-> ChannelOf(i)]
<1>1. f \in Bijection(S, T)
  <2>1. f \in [S -> T]
    OBVIOUS
  <2>2. \A i, j \in S : f[i] = f[j] => i = j
    BY ChannelFields
  <2>3. \A t \in T : \E i \in S : f[i] = t
    OBVIOUS
  <2> HIDE DEF f
  <2> QED BY <2>1, <2>2, <2>3 DEF Bijection, Injection, Surjection, IsInjective
<1>2. ExistsBijection(S, T)
  BY <1>1 DEF ExistsBijection
<1> QED BY <1>2, FS_Bijection

LEMMA SameSize ==
    ASSUME slots \in Seq(Slot)
    PROVE  /\ Cardinality(LiveChannels) = Cardinality(LiveSlots)
           /\ \A ph : ph # "None" =>
                 Cardinality({c \in LiveChannels : c.phase = ph}) = Cardinality(In(ph))
<1>1. Cardinality(LiveChannels) = Cardinality(LiveSlots)
  <2>1. LiveChannels = {ChannelOf(i) : i \in LiveSlots}
    BY DEF LiveChannels, ChannelOf
  <2>2. IsFiniteSet(LiveSlots)
    BY SlotSetsFinite
  <2> QED BY <2>1, <2>2, ImageSize
<1>2. ASSUME NEW ph, ph # "None"
      PROVE  Cardinality({c \in LiveChannels : c.phase = ph}) = Cardinality(In(ph))
  <2>1. {c \in LiveChannels : c.phase = ph} = {ChannelOf(i) : i \in In(ph)}
    <3>1. \A i : i \in In(ph) <=> i \in LiveSlots /\ Phase(i) = ph
      BY <1>2 DEF In, LiveSlots
    <3> QED BY <3>1, ChannelFields
  <2>2. IsFiniteSet(In(ph))
    BY SlotSetsFinite
  <2> QED BY <2>1, <2>2, ImageSize
<1> QED BY <1>1, <1>2

\* When one slot changes, one channel does.
LEMMA ChannelChange ==
    ASSUME NEW k, NEW st,
           DOMAIN slots' = DOMAIN slots \cup {k},
           slots'[k].state = st,
           \A j \in DOMAIN slots : j # k => slots'[j] = slots[j]
    PROVE  LiveChannels' = (LiveChannels \ {ChannelOf(k)}) \cup
                           (IF st.phase # "None" THEN {ChannelOf(k)'} ELSE {})
<1>1. LiveSlots' = IF st.phase # "None" THEN LiveSlots \cup {k} ELSE LiveSlots \ {k}
  BY OneSlotSets
<1>2. \A j \in LiveSlots : j # k => ChannelOf(j)' = ChannelOf(j)
  BY DEF LiveSlots, ChannelOf, HandleOf, Phase
<1>3. \A c : c \in LiveChannels' <=> \E i \in LiveSlots' : c = ChannelOf(i)'
  BY DEF LiveChannels, ChannelOf
<1> QED BY <1>1, <1>2, <1>3, ChannelFields

----------------------------------------------------------------------------
(* The engine answers as the reference model does.                         *)

\* The library operators are those of the model.
LEMMA SameLibrary ==
    /\ \A S : Reference!Cardinality(S) = Cardinality(S)
    /\ \A s, e : Reference!Contains(s, e) = Contains(s, e)
<1>1. \A S : Reference!Cardinality(S) = Cardinality(S)
  BY DEF Reference!Cardinality, Cardinality
<1>2. \A s, e : Reference!Contains(s, e) = Contains(s, e)
  BY DEF Reference!Contains, Contains
<1> QED BY <1>1, <1>2

LEMMA SameOpenError ==
    ASSUME IndInv
    PROVE  OpenError = Reference!OpenError
<1>1. /\ pendingOutgoing = Cardinality({c \in LiveChannels : c.phase = "PendingOutgoing"})
      /\ live = Cardinality(LiveChannels)
  BY SameSize DEF IndInv, TypeOK, CountersExact
<1>2. numbersExhausted <=> (IF numbersExhausted THEN MaxNumber + 1 ELSE nextLocal) > MaxNumber
  BY OpeningConstants DEF IndInv, TypeOK, Number
<1> QED BY <1>1, <1>2, SameLibrary DEF OpenError, Reference!OpenError, Reference!Of

LEMMA SameHandleError ==
    ASSUME NEW h \in Handle, NEW ph \in {"PendingOutgoing", "PendingIncoming"}
    PROVE  HandleError(h, ph) = Reference!PhaseError(h, ph)
<1>1. \A i : HandleOf(i) = h <=> i = h.index /\ slots[i].generation = h.generation
  BY DEF Handle, HandleOf
<1>2. (\E c \in LiveChannels : c.handle = h)
         <=> h.index \in LiveSlots /\ slots[h.index].generation = h.generation
  BY <1>1, ChannelFields
<1>3. (\E c \in LiveChannels : c.handle = h /\ c.phase = ph)
         <=> /\ h.index \in LiveSlots /\ slots[h.index].generation = h.generation
             /\ Phase(h.index) = ph
  BY <1>1, ChannelFields
<1> QED BY <1>2, <1>3 DEF HandleError, Reference!PhaseError, LiveSlots

LEMMA SamePeers ==
    ASSUME NEW p
    PROVE  PeerNumberInUse(p) <=> Reference!PeerNumberLive(p)
<1>1. \A ph : ph # "None" =>
        (p \in Reference!Peers(ph) <=> \E i \in In(ph) : slots[i].state.peer = p)
  <2>1. \A ph, i : ph # "None" => (i \in In(ph) <=> i \in LiveSlots /\ Phase(i) = ph)
    BY DEF In, LiveSlots
  <2> QED BY <2>1, ChannelFields DEF Reference!Peers, Reference!Of
<1> QED BY <1>1 DEF PeerNumberInUse, HasPeer, Reference!PeerNumberLive

\* One answer differs, see AnswersAgree.
LEMMA SameReply ==
    ASSUME IndInv, NEW n \in Number
    PROVE  \/ LocateReply(n) = Reference!ReplyTarget(n)
           \/ /\ numbersExhausted /\ n = MaxNumber
              /\ LocateReply(n) = "ReplyToIncoming"
              /\ Reference!ReplyTarget(n) = "UnknownRecipient"
<1>0. \A ph, i : ph # "None" => (i \in In(ph) <=> i \in LiveSlots /\ Phase(i) = ph)
  BY DEF In, LiveSlots
<1> DEFINE pend == \E i \in DOMAIN slots : LocatedPending(i, n)
           est  == \E i \in In("Established") : slots[i].state.local = n
           late == Contains(tombstones, n)
           inc  == \E i \in In("PendingIncoming") : slots[i].state.peer = n
           next == IF numbersExhausted THEN MaxNumber + 1 ELSE nextLocal
<1>1. /\ n \in Reference!Locals("PendingOutgoing") <=> pend
      /\ n \in Reference!Locals("Established") <=> est
      /\ n \in Reference!Peers("PendingIncoming") <=> inc
  <2>1. n \in Reference!Locals("PendingOutgoing") <=> pend
    <3>1. pend <=> \E i \in In("PendingOutgoing") : slots[i].state.local = n
      BY DEF LocatedPending, In
    <3> HIDE DEF pend
    <3> QED BY <1>0, <3>1, ChannelFields DEF Reference!Locals, Reference!Of
  <2>2. n \in Reference!Locals("Established") <=> est
    BY <1>0, ChannelFields DEF Reference!Locals, Reference!Of
  <2>3. n \in Reference!Peers("PendingIncoming") <=> inc
    BY <1>0, ChannelFields DEF Reference!Peers, Reference!Of
  <2> QED BY <2>1, <2>2, <2>3
<1>2. /\ ~(pend /\ est) /\ ~(pend /\ late) /\ ~(est /\ late)
      /\ (\A i \in HasLocal : slots[i].state.local # n) <=> ~pend /\ ~est
  <2>1. (\A i \in HasLocal : slots[i].state.local # n) <=> ~pend /\ ~est
    BY DEF HasLocal, LocatedPending, In
  <2>2. ~(pend /\ late) /\ ~(est /\ late)
    <3>1. DOMAIN tombstones = 1..Len(tombstones)
      BY LenProperties DEF IndInv, TypeOK
    <3> QED BY <2>1, <3>1 DEF IndInv, LocalNumbersUnique, Contains
  <2>3. ~(pend /\ est)
    BY DEF IndInv, LocalNumbersUnique, LocatedPending, HasLocal, In
  <2> QED BY <2>1, <2>2, <2>3
<1>3. Reference!ReplyTarget(n) =
        IF pend THEN "Pending" ELSE IF est THEN "DuplicateReply"
        ELSE IF late THEN "Tombstone"
        ELSE IF n >= next /\ inc THEN "ReplyToIncoming" ELSE "UnknownRecipient"
  BY <1>1, SameLibrary DEF Reference!ReplyTarget
<1>4. LocateReply(n) =
        CASE pend -> "Pending"
          [] est -> "DuplicateReply"
          [] ~pend /\ ~est /\ late -> "Tombstone"
          [] OTHER -> IF n >= nextLocal /\ inc THEN "ReplyToIncoming"
                      ELSE "UnknownRecipient"
  BY <1>2 DEF LocateReply
<1>5. \/ (n >= next) = (n >= nextLocal)
      \/ numbersExhausted /\ n = MaxNumber /\ ~(n >= next) /\ n >= nextLocal
  BY OpeningConstants DEF IndInv, TypeOK, LocalNumbersUnique, Number
<1> HIDE DEF pend, est, late, inc, next
<1>6. LocateReply(n) =
        IF pend THEN "Pending" ELSE IF est THEN "DuplicateReply"
        ELSE IF late THEN "Tombstone"
        ELSE IF n >= nextLocal /\ inc THEN "ReplyToIncoming" ELSE "UnknownRecipient"
  BY <1>2, <1>4
<1> QED BY <1>3, <1>5, <1>6

LEMMA InvAnswers == IndInv => AnswersAgree
<1> SUFFICES ASSUME IndInv PROVE AnswersAgree
  OBVIOUS
<1>1. OpenError = Reference!OpenError
  BY SameOpenError
<1>2. \A h \in Handle : \A ph \in {"PendingOutgoing", "PendingIncoming"} :
        HandleError(h, ph) = Reference!PhaseError(h, ph)
  BY SameHandleError
<1>3. ASSUME NEW m \in PeerMessages
      PROVE  \/ Violation(m) = Reference!Violation(m)
             \/ numbersExhausted /\ m.recipient = MaxNumber
                /\ Violation(m) = "ReplyToIncoming"
  <2>1. m.kind = "OPEN" \/ m.recipient \in Number
    BY DEF PeerMessages, OpenMsg, ConfirmMsg, FailureMsg
  <2>2. PeerNumberInUse(m.sender) <=> Reference!PeerNumberLive(m.sender)
    BY SamePeers
  <2>3. CASE m.kind = "OPEN"
    BY <2>2, <2>3 DEF Violation, Reference!Violation
  <2>4. CASE m.kind # "OPEN"
    <3>1. \/ LocateReply(m.recipient) = Reference!ReplyTarget(m.recipient)
          \/ /\ numbersExhausted /\ m.recipient = MaxNumber
             /\ LocateReply(m.recipient) = "ReplyToIncoming"
      BY <2>1, <2>4, SameReply
    <3> QED BY <2>2, <2>4, <3>1 DEF Violation, Reference!Violation
  <2> QED BY <2>3, <2>4
<1> QED BY <1>1, <1>2, <1>3 DEF AnswersAgree

----------------------------------------------------------------------------
(* Handles.                                                                *)

\* A channel with this handle is or was in slot i.
WasIssued(i, g) == g < slots[i].generation \/ (g = slots[i].generation /\ i \in LiveSlots)

\* The handles issued are exactly those of the slots' pasts, so that their
\* number bounds every generation and none comes round again.
HandlesInv ==
    /\ IsFiniteSet(issued) /\ Cardinality(issued) <= MaxInserts
    /\ \A h \in issued : /\ h.index \in DOMAIN slots
                         /\ h.generation \in Nat /\ WasIssued(h.index, h.generation)
    /\ \A i \in DOMAIN slots : \A g \in Nat :
          WasIssued(i, g) => [index |-> i, generation |-> g] \in issued

LEMMA GenerationTyped ==
    ASSUME slots \in Seq(Slot)
    PROVE  \A i \in DOMAIN slots : slots[i].generation \in Generation /\ slots[i].generation \in Nat
<1>1. \A i \in DOMAIN slots : slots[i] \in Slot
  BY LenProperties, ElementOfSeq
<1> QED BY <1>1, OpeningConstants DEF Slot, Generation

\* A live slot has not reached the last generation.
LEMMA NoWrap ==
    ASSUME HandlesInv, slots \in Seq(Slot), NEW i \in LiveSlots
    PROVE  (slots[i].generation + 1) % GenerationMod = slots[i].generation + 1
<1> DEFINE g == slots[i].generation
           f == [x \in 0..g |-> [index |-> i, generation |-> x]]
<1>1. i \in DOMAIN slots /\ g \in Nat
  BY GenerationTyped DEF LiveSlots
<1>2. f \in Injection(0..g, issued)
  <2>1. \A x \in 0..g : [index |-> i, generation |-> x] \in issued
    BY <1>1 DEF HandlesInv, WasIssued
  <2>2. f \in [0..g -> issued]
    BY <2>1
  <2>3. \A x, y \in 0..g : f[x] = f[y] => x = y
    <3>1. \A x \in 0..g : f[x].generation = x
      OBVIOUS
    <3> QED BY <3>1
  <2> HIDE DEF f
  <2> QED BY <2>2, <2>3 DEF Injection, IsInjective
<1> HIDE DEF f
<1>3. Cardinality(0..g) <= Cardinality(issued)
  BY <1>2, FS_Injection DEF HandlesInv
<1>4. Cardinality(0..g) = g + 1
  <2>1. 0 \in Int /\ g \in Int
    BY <1>1
  <2>2. Cardinality(0..g) = IF 0 > g THEN 0 ELSE g - 0 + 1
    BY <2>1, FS_Interval, Zenon
  <2> QED BY <1>1, <2>2
<1>5. Cardinality(issued) \in Nat
  BY FS_CardinalityType DEF HandlesInv
<1>6. g + 1 < GenerationMod
  BY <1>1, <1>3, <1>4, <1>5, HandlesBound, OpeningConstants DEF HandlesInv
<1> HIDE DEF g
<1>7. (g + 1) % GenerationMod = g + 1
  BY <1>1, <1>6, OpeningConstants
<1> QED BY <1>7 DEF g

\* A step that vacates the slots R, perhaps none, and brings none to life.
LEMMA HandlesKept ==
    ASSUME HandlesInv, slots \in Seq(Slot), NEW R \in SUBSET LiveSlots,
           DOMAIN slots' = DOMAIN slots,
           LiveSlots' = LiveSlots \ R,
           \A i \in DOMAIN slots : slots'[i].generation =
              IF i \in R THEN (slots[i].generation + 1) % GenerationMod
              ELSE slots[i].generation,
           Record
    PROVE  HandlesInv' /\ issued' = issued
<1>1. issued' = issued
  <2>1. Created = {}
    BY DEF Created, LiveSlots, Phase
  <2> QED BY <2>1 DEF Record
<1>2. \A i \in DOMAIN slots : slots[i].generation \in Nat
  BY GenerationTyped
<1>3. \A i \in R : slots'[i].generation = slots[i].generation + 1 /\ i \in DOMAIN slots
  BY NoWrap DEF LiveSlots
<1>4. \A i \in DOMAIN slots : i \notin R => slots'[i].generation = slots[i].generation
  OBVIOUS
<1>5. \A i \in DOMAIN slots : \A g \in Nat : WasIssued(i, g)' <=> WasIssued(i, g)
  <2> SUFFICES ASSUME NEW i \in DOMAIN slots, NEW g \in Nat
               PROVE  (g < slots'[i].generation \/ (g = slots'[i].generation /\ i \in LiveSlots'))
                      <=> WasIssued(i, g)
    BY DEF WasIssued
  <2>1. CASE i \in R
    <3>1. /\ slots'[i].generation = slots[i].generation + 1
          /\ i \in LiveSlots /\ i \notin LiveSlots'
          /\ slots[i].generation \in Nat
      BY <2>1, <1>2, <1>3
    <3> QED BY <3>1 DEF WasIssued
  <2>2. CASE i \notin R
    BY <2>2, <1>4 DEF WasIssued
  <2> QED BY <2>1, <2>2
<1> QED BY <1>1, <1>5 DEF HandlesInv

\* A step that brings slot k to life issues a handle that never was.
LEMMA HandlesFresh ==
    ASSUME HandlesInv, slots \in Seq(Slot), slots' \in Seq(Slot), Len(slots') <= MaxChannels,
           NEW k \in (DOMAIN slots') \ LiveSlots,
           DOMAIN slots' = DOMAIN slots \cup {k},
           LiveSlots' = LiveSlots \cup {k},
           slots'[k].generation = IF k \in DOMAIN slots THEN slots[k].generation ELSE 0,
           \A j \in DOMAIN slots : j # k => slots'[j] = slots[j],
           Record, Cardinality(issued') <= MaxInserts
    PROVE  /\ HandlesInv'
           /\ issued' = issued \cup {HandleOf(k)'}
           /\ HandleOf(k)' \notin issued
           /\ HandleOf(k)' \in Handle
<1> DEFINE gen == slots'[k].generation
           h == [index |-> k, generation |-> gen]
<1>1. h = HandleOf(k)'
  BY DEF HandleOf
<1>2. issued' = issued \cup {h}
  <2>1. Created = {k}
    BY DEF Created, LiveSlots, Phase
  <2> QED BY <2>1 DEF Record
<1>3. /\ \A i \in DOMAIN slots : slots[i].generation \in Nat
      /\ gen \in Generation /\ gen \in Nat
  <2>1. ASSUME NEW s \in Seq(Slot), NEW i \in DOMAIN s
        PROVE  s[i].generation \in Generation /\ s[i].generation \in Nat
    <3>1. s[i] \in Slot
      BY LenProperties, ElementOfSeq
    <3> QED BY <3>1, OpeningConstants DEF Slot, Generation
  <2> QED BY <2>1
<1>4. h \in Handle
  <2>1. DOMAIN slots' = 1..Len(slots') /\ Len(slots') \in Nat
    BY LenProperties
  <2>2. k \in 1..MaxChannels
    BY <2>1, OpeningConstants
  <2> QED BY <1>3, <2>2 DEF Handle
<1>5. h \notin issued
  <2> SUFFICES ASSUME h \in issued PROVE FALSE
    OBVIOUS
  <2>1. k \in DOMAIN slots /\ WasIssued(k, gen)
    BY DEF HandlesInv
  <2> QED BY <1>3, <2>1 DEF WasIssued
<1> HIDE DEF h
<1>6. IsFiniteSet(issued')
  BY <1>2, FS_AddElement DEF HandlesInv
<1>7. \A j \in DOMAIN slots : j # k => \A g : WasIssued(j, g)' <=> WasIssued(j, g)
  BY DEF WasIssued
<1>8. \A g \in Nat : WasIssued(k, g)' <=> g <= gen
  BY <1>3 DEF WasIssued
<1>9. k \in DOMAIN slots => \A g \in Nat : g < gen <=> WasIssued(k, g)
  BY <1>3 DEF WasIssued
<1>10. ASSUME NEW e \in issued'
       PROVE  /\ e.index \in DOMAIN slots'
              /\ e.generation \in Nat /\ WasIssued(e.index, e.generation)'
  <2>1. CASE e = h
    BY <2>1, <1>3, <1>8 DEF h
  <2>2. CASE e \in issued
    <3>1. e.index \in DOMAIN slots /\ e.generation \in Nat /\ WasIssued(e.index, e.generation)
      BY <2>2 DEF HandlesInv
    <3>2. CASE e.index = k
      BY <3>1, <3>2, <1>3, <1>8, <1>9
    <3>3. CASE e.index # k
      BY <3>1, <3>3, <1>7
    <3> QED BY <3>2, <3>3
  <2> QED BY <2>1, <2>2, <1>2, <1>10
<1>11. ASSUME NEW i \in DOMAIN slots', NEW g \in Nat, WasIssued(i, g)'
       PROVE  [index |-> i, generation |-> g] \in issued'
  <2>1. CASE i # k
    BY <2>1, <1>2, <1>7, <1>11 DEF HandlesInv
  <2>2. CASE i = k /\ g = gen
    BY <2>2, <1>2 DEF h
  <2>3. CASE i = k /\ g # gen
    <3>1. g < gen /\ gen # 0
      BY <2>3, <1>3, <1>8, <1>11
    <3>2. k \in DOMAIN slots
      BY <3>1
    <3> QED BY <3>1, <3>2, <2>3, <1>2, <1>9 DEF HandlesInv
  <2> QED BY <2>1, <2>2, <2>3
<1> QED BY <1>1, <1>2, <1>4, <1>5, <1>6, <1>10, <1>11 DEF HandlesInv

----------------------------------------------------------------------------
(* What each change of the slot table is to the reference model.           *)

\* insert: a channel under a handle never issued before.
LEMMA InsertChannel ==
    ASSUME IndInv, HandlesInv, live < MaxChannels,
           NEW st \in State, st.phase # "None", Insert(st),
           Record, Cardinality(issued') <= MaxInserts
    PROVE  /\ HandlesInv'
           /\ \E h \in Handle :
                 /\ h \notin issued /\ issued' = issued \cup {h}
                 /\ LiveChannels' = LiveChannels \cup
                       {Reference!Channel(h, st.phase, st.local, st.peer)}
<1>1. TableOK /\ live = Cardinality(LiveSlots)
  BY TableFromInv
<1>2. TableOK'
  BY <1>1, InsertSlot
<1>3. PICK k \in (DOMAIN slots') \ LiveSlots :
         /\ slots'[k].state = st
         /\ slots'[k].generation = IF k \in DOMAIN slots THEN slots[k].generation ELSE 0
         /\ DOMAIN slots' = DOMAIN slots \cup {k}
         /\ \A j \in DOMAIN slots : j # k => slots'[j] = slots[j]
  BY <1>1, InsertSlot
<1>4. LiveSlots' = LiveSlots \cup {k}
  BY <1>3, OneSlotSets
<1>5. slots \in Seq(Slot) /\ slots' \in Seq(Slot) /\ Len(slots') <= MaxChannels
  BY <1>1, <1>2 DEF TableOK
<1>6. /\ HandlesInv'
      /\ issued' = issued \cup {HandleOf(k)'}
      /\ HandleOf(k)' \notin issued /\ HandleOf(k)' \in Handle
  BY <1>3, <1>4, <1>5, HandlesFresh
<1>7. LiveChannels' = (LiveChannels \ {ChannelOf(k)}) \cup {ChannelOf(k)'}
  BY <1>3, ChannelChange
<1>8. ChannelOf(k) \notin LiveChannels
  BY ChannelFields, <1>3
<1>9. ChannelOf(k)' = Reference!Channel(HandleOf(k)', st.phase, st.local, st.peer)
  BY <1>3 DEF ChannelOf, Phase, Reference!Channel
<1>10. LiveChannels' = LiveChannels \cup
         {Reference!Channel(HandleOf(k)', st.phase, st.local, st.peer)}
  BY <1>7, <1>8, <1>9
<1> QED BY <1>6, <1>10

\* remove: a channel goes and its handle stays issued.
LEMMA RemoveChannel ==
    ASSUME IndInv, HandlesInv, NEW i \in LiveSlots, RemoveSlot(i), Record
    PROVE  /\ HandlesInv' /\ issued' = issued
           /\ ChannelOf(i) \in LiveChannels
           /\ LiveChannels' = LiveChannels \ {ChannelOf(i)}
<1>1. TableOK /\ slots \in Seq(Slot)
  BY TableFromInv DEF TableOK
<1>2. /\ DOMAIN slots' = DOMAIN slots
      /\ slots'[i] = Vacated(slots[i])
      /\ slots'[i].state = Vacant
      /\ \A j \in DOMAIN slots : j # i => slots'[j] = slots[j]
  BY <1>1, RemoveSlotTable
<1>3. i \in DOMAIN slots /\ Vacant.phase = "None"
  BY DEF LiveSlots, Vacant
<1>4. DOMAIN slots' = DOMAIN slots \cup {i}
  BY <1>2, <1>3
<1>5. LiveSlots' = LiveSlots \ {i}
  BY <1>2, <1>3, <1>4, OneSlotSets
<1>6. slots'[i].generation = (slots[i].generation + 1) % GenerationMod
  BY <1>2 DEF Vacated
<1>7. \A j \in DOMAIN slots : slots'[j].generation =
         IF j \in {i} THEN (slots[j].generation + 1) % GenerationMod
         ELSE slots[j].generation
  BY <1>2, <1>6
<1>8. {i} \in SUBSET LiveSlots
  OBVIOUS
<1>9. HandlesInv' /\ issued' = issued
  BY <1>1, <1>2, <1>5, <1>7, <1>8, HandlesKept
<1>10. LiveChannels' = (LiveChannels \ {ChannelOf(i)}) \cup {}
  BY <1>2, <1>3, <1>4, ChannelChange
<1>11. ChannelOf(i) \in LiveChannels
  BY ChannelFields
<1> QED BY <1>9, <1>10, <1>11

\* set: a channel is established under the handle it had.
LEMMA EstablishChannel ==
    ASSUME IndInv, HandlesInv, NEW i \in LiveSlots,
           NEW n \in Number, NEW p \in Number, SetState(i, Established(n, p)), Record
    PROVE  /\ HandlesInv' /\ issued' = issued
           /\ ChannelOf(i) \in LiveChannels
           /\ LiveChannels' = (LiveChannels \ {ChannelOf(i)}) \cup
                 {Reference!Channel(ChannelOf(i).handle, "Established", n, p)}
<1> DEFINE st == Established(n, p)
<1>1. TableOK /\ slots \in Seq(Slot)
  BY TableFromInv DEF TableOK
<1>2. /\ st \in State /\ st.phase = "Established"
      /\ st.local = n /\ st.peer = p
  BY StateBuilt
<1>3. SetState(i, st) /\ st.phase # "None"
  BY <1>2
<1> HIDE DEF st
<1>4. /\ DOMAIN slots' = DOMAIN slots
      /\ slots'[i] = Holding(slots[i], st)
      /\ slots'[i].state = st
      /\ \A j \in DOMAIN slots : j # i => slots'[j] = slots[j]
  BY <1>1, <1>2, <1>3, SetStateTable
<1>5. i \in DOMAIN slots
  BY DEF LiveSlots
<1>6. DOMAIN slots' = DOMAIN slots \cup {i}
  BY <1>4, <1>5
<1>7. LiveSlots' = LiveSlots \ {}
  <2>1. LiveSlots' = LiveSlots \cup {i}
    BY <1>3, <1>4, <1>6, OneSlotSets
  <2> QED BY <2>1
<1>8. slots'[i].generation = slots[i].generation
  BY <1>4 DEF Holding
<1>9. \A j \in DOMAIN slots : slots'[j].generation =
         IF j \in {} THEN (slots[j].generation + 1) % GenerationMod
         ELSE slots[j].generation
  BY <1>4, <1>8
<1>10. {} \in SUBSET LiveSlots
  OBVIOUS
<1>11. HandlesInv' /\ issued' = issued
  BY <1>1, <1>4, <1>7, <1>9, <1>10, HandlesKept
<1>12. LiveChannels' = (LiveChannels \ {ChannelOf(i)}) \cup {ChannelOf(i)'}
  BY <1>3, <1>4, <1>6, ChannelChange
<1>13. ChannelOf(i) \in LiveChannels /\ ChannelOf(i).handle = HandleOf(i)
  BY ChannelFields
<1>14. ChannelOf(i)' = Reference!Channel(HandleOf(i), "Established", n, p)
  BY <1>2, <1>4, <1>8 DEF ChannelOf, HandleOf, Phase, Reference!Channel
<1> QED BY <1>11, <1>12, <1>13, <1>14

\* The slots stay as they are.
LEMMA SameChannels ==
    ASSUME IndInv, HandlesInv, slots' = slots, Record
    PROVE  HandlesInv' /\ issued' = issued /\ LiveChannels' = LiveChannels
<1>1. slots \in Seq(Slot) /\ {} \in SUBSET LiveSlots
  BY DEF IndInv, TypeOK
<1>2. DOMAIN slots' = DOMAIN slots /\ LiveSlots' = LiveSlots \ {}
  BY DEF LiveSlots, Phase
<1>3. \A j \in DOMAIN slots : slots'[j].generation =
         IF j \in {} THEN (slots[j].generation + 1) % GenerationMod
         ELSE slots[j].generation
  OBVIOUS
<1>4. HandlesInv' /\ issued' = issued
  BY <1>1, <1>2, <1>3, HandlesKept
<1>5. LiveChannels' = LiveChannels
  BY <1>2 DEF LiveChannels, HandleOf, Phase
<1> QED BY <1>4, <1>5

\* The model's counter is one past the last number once all are handed out.
LEMMA AllocateNext ==
    ASSUME TypeOK, AllocateNumber
    PROVE  /\ (IF numbersExhausted THEN MaxNumber + 1 ELSE nextLocal) = nextLocal
           /\ nextLocal <= MaxNumber
           /\ (IF numbersExhausted' THEN MaxNumber + 1 ELSE nextLocal') = nextLocal + 1
<1>1. ~numbersExhausted /\ nextLocal \in Nat /\ nextLocal <= MaxNumber
  BY OpeningConstants DEF AllocateNumber, TypeOK, Number
<1>2. CASE nextLocal < MaxNumber
  <2>1. nextLocal' = nextLocal + 1 /\ ~numbersExhausted'
    BY <1>1, <1>2 DEF AllocateNumber
  <2> QED BY <1>1, <2>1
<1>3. CASE ~(nextLocal < MaxNumber)
  <2>1. numbersExhausted'
    BY <1>3 DEF AllocateNumber
  <2>2. nextLocal = MaxNumber
    BY <1>1, <1>3, OpeningConstants
  <2> QED BY <1>1, <2>1, <2>2
<1> QED BY <1>2, <1>3

\* The trimming loop of cancel drops at most one tombstone, the oldest.
LEMMA TrimOne ==
    ASSUME NEW s \in Seq(Number), Len(s) <= MaxTombstones + 1
    PROVE  Trimmed(s) = IF Len(s) <= MaxTombstones THEN s ELSE Tail(s)
<1>1. Len(s) \in Nat /\ MaxTombstones \in Nat
  BY LenProperties, OpeningConstants
<1>2. CASE Len(s) <= MaxTombstones
  BY <1>1, <1>2 DEF Trimmed
<1>3. CASE ~(Len(s) <= MaxTombstones)
  <2>1. Len(s) > MaxTombstones /\ Len(s) - MaxTombstones + 1 = 2
    BY <1>1, <1>3
  <2>2. Trimmed(s) = SubSeq(s, 2, Len(s))
    BY <2>1 DEF Trimmed
  <2>3. s # <<>>
    BY <1>1, <1>3
  <2>4. Tail(s) = SubSeq(s, 2, Len(s))
    BY <2>3, TailIsSubSeq
  <2> QED BY <1>3, <2>2, <2>4
<1> QED BY <1>2, <1>3

\* The tombstone consumed is the one the model removes.
LEMMA ConsumeFirst ==
    ASSUME IndInv, NEW n \in Number, ConsumeTombstone(n)
    PROVE  tombstones' = Reference!RemoveFirst(tombstones, n)
<1>1. PICK k \in DOMAIN tombstones :
         tombstones[k] = n /\ tombstones' = RemoveAt(tombstones, k)
  BY DEF ConsumeTombstone
<1>2. DOMAIN tombstones = 1..Len(tombstones) /\ Len(tombstones) \in Nat
  BY LenProperties DEF IndInv, TypeOK
<1>3. \A j \in 1..Len(tombstones) : tombstones[j] = n <=> j = k
  BY <1>1, <1>2 DEF IndInv, LocalNumbersUnique
<1> DEFINE I == {j \in 1..Len(tombstones) : tombstones[j] = n}
<1>4. I = {k} /\ k \in Nat
  BY <1>1, <1>2, <1>3
<1>5. Reference!Min({k}) = k
  BY <1>4 DEF Reference!Min
<1>6. Reference!RemoveFirst(tombstones, n) =
         Reference!RemoveAt(tombstones, IF I # {} THEN Reference!Min(I) ELSE 0)
  BY <1>1, <1>2 DEF Reference!RemoveFirst, Reference!SelectInSeq
<1>7. (IF I # {} THEN Reference!Min(I) ELSE 0) = k
  BY <1>4, <1>5
<1> HIDE DEF I
<1>8. Reference!RemoveAt(tombstones, k) = RemoveAt(tombstones, k)
  BY DEF Reference!RemoveAt, RemoveAt
<1> QED BY <1>1, <1>6, <1>7, <1>8

----------------------------------------------------------------------------
(* Each action of the engine is the model's action of the same call.       *)

LEMMA OpenModel ==
    ASSUME IndInv, HandlesInv, Open, Record, Cardinality(issued') <= MaxInserts
    PROVE  HandlesInv' /\ Reference!Open
<1>1. TypeOK /\ AllocateNumber /\ live < MaxChannels /\ nextLocal \in Number
  BY DEF Open, IndInv, TypeOK
<1>2. /\ (IF numbersExhausted THEN MaxNumber + 1 ELSE nextLocal) = nextLocal
      /\ nextLocal <= MaxNumber
      /\ (IF numbersExhausted' THEN MaxNumber + 1 ELSE nextLocal') = nextLocal + 1
  BY <1>1, AllocateNext
<1> DEFINE st == PendingOutgoing(nextLocal)
<1>3. /\ st \in State /\ st.phase = "PendingOutgoing"
      /\ st.local = nextLocal /\ st.peer = NoNumber
  BY <1>1, StateBuilt DEF PendingOutgoing
<1>4. Insert(st) /\ st.phase # "None"
  BY <1>3 DEF Open
<1> HIDE DEF st
<1>5. /\ HandlesInv'
      /\ \E h \in Handle :
            /\ h \notin issued /\ issued' = issued \cup {h}
            /\ LiveChannels' = LiveChannels \cup
                  {Reference!Channel(h, st.phase, st.local, st.peer)}
  BY <1>1, <1>3, <1>4, InsertChannel
<1>6. \E h \in Handle :
         /\ h \notin issued /\ issued' = issued \cup {h}
         /\ LiveChannels' = LiveChannels \cup
               {Reference!Channel(h, "PendingOutgoing", nextLocal, NoNumber)}
  BY <1>3, <1>5
<1>7. OpenError = "None"
  <2>1. /\ pendingOutgoing < MaxPendingOutgoing /\ live < MaxChannels
        /\ ~numbersExhausted
    BY DEF Open, AllocateNumber
  <2>2. pendingOutgoing \in Nat /\ live \in Nat
    BY <1>1 DEF TypeOK
  <2> QED BY <2>1, <2>2, OpeningConstants DEF OpenError
<1>8. Reference!OpenError = "None"
  BY <1>7, SameOpenError
<1>9. Reference!Allocate
  BY <1>2 DEF Reference!Allocate
<1>10. /\ outgoing' = Append(outgoing, OpenMsg(nextLocal))
       /\ tombstones' = tombstones
  BY DEF Open
<1>11. Reference!Expect(Reference!Message("OPEN", nextLocal, NoNumber))
  BY <1>10 DEF Reference!Expect, Reference!Message, OpenMsg
<1>12. NoNumber = Reference!NoNumber
  BY DEF NoNumber, Reference!NoNumber
<1> QED
  BY <1>2, <1>5, <1>6, <1>8, <1>9, <1>10, <1>11, <1>12
  DEF Reference!Open, Reference!NoteFreshHandle

LEMMA CancelModel ==
    ASSUME IndInv, HandlesInv, NEW h \in Handle, Cancel(h), Record
    PROVE  HandlesInv' /\ Reference!Cancel
<1> DEFINE i == h.index
           n == slots[i].state.local
<1>1. /\ i \in LiveSlots /\ Phase(i) = "PendingOutgoing" /\ RemoveSlot(i)
      /\ tombstones' = Trimmed(Append(tombstones, n))
      /\ numbersExhausted' = numbersExhausted /\ nextLocal' = nextLocal
      /\ outgoing' = outgoing
  BY DEF Cancel, Resolves, LiveSlots, numbers
<1>2. n \in Number
  BY <1>1, NumbersTyped DEF IndInv, TypeOK, HasLocal, In, LiveSlots
<1> HIDE DEF i
<1>3. /\ HandlesInv' /\ issued' = issued
      /\ ChannelOf(i) \in LiveChannels
      /\ LiveChannels' = LiveChannels \ {ChannelOf(i)}
  BY <1>1, RemoveChannel
<1>4. ChannelOf(i).phase = "PendingOutgoing" /\ ChannelOf(i).local = n
  BY <1>1, ChannelFields
<1> HIDE DEF n
<1>5. Append(tombstones, n) \in Seq(Number) /\ Len(Append(tombstones, n)) = Len(tombstones) + 1
  BY <1>2, AppendProperties DEF IndInv, TypeOK
<1>6. Len(Append(tombstones, n)) <= MaxTombstones + 1
  BY <1>5, LenProperties, OpeningConstants DEF IndInv, TypeOK, LimitsHold
<1>7. Reference!Tombstone(n)
  BY <1>1, <1>5, <1>6, TrimOne DEF Reference!Tombstone
<1>8. ChannelOf(i) \in Reference!Of("PendingOutgoing")
  BY <1>3, <1>4 DEF Reference!Of
<1> QED
  BY <1>1, <1>3, <1>4, <1>7, <1>8 DEF Reference!Cancel

LEMMA AcceptModel ==
    ASSUME IndInv, HandlesInv, NEW h \in Handle, Accept(h), Record
    PROVE  HandlesInv' /\ Reference!Accept
<1> DEFINE i == h.index
           p == slots[i].state.peer
<1>1. /\ i \in LiveSlots /\ Phase(i) = "PendingIncoming" /\ AllocateNumber
      /\ SetState(i, Established(nextLocal, p))
      /\ outgoing' = Append(outgoing, ConfirmMsg(p, nextLocal))
      /\ tombstones' = tombstones
  BY DEF Accept, Resolves, LiveSlots
<1>2. TypeOK /\ nextLocal \in Number
  BY DEF IndInv, TypeOK
<1>3. p \in Number
  BY <1>1, NumbersTyped DEF IndInv, TypeOK, HasPeer, In, LiveSlots
<1> HIDE DEF i
<1>4. /\ (IF numbersExhausted THEN MaxNumber + 1 ELSE nextLocal) = nextLocal
      /\ nextLocal <= MaxNumber
      /\ (IF numbersExhausted' THEN MaxNumber + 1 ELSE nextLocal') = nextLocal + 1
  BY <1>1, <1>2, AllocateNext
<1>5. ChannelOf(i).phase = "PendingIncoming" /\ ChannelOf(i).peer = p
  BY <1>1, ChannelFields
<1> HIDE DEF p
<1>6. /\ HandlesInv' /\ issued' = issued
      /\ ChannelOf(i) \in LiveChannels
      /\ LiveChannels' = (LiveChannels \ {ChannelOf(i)}) \cup
            {Reference!Channel(ChannelOf(i).handle, "Established", nextLocal, p)}
  BY <1>1, <1>2, <1>3, EstablishChannel
<1>7. ChannelOf(i) \in Reference!Of("PendingIncoming")
  BY <1>5, <1>6 DEF Reference!Of
<1>8. Reference!Allocate
  BY <1>4 DEF Reference!Allocate
<1>9. Reference!Expect(Reference!Message("CONFIRMATION", nextLocal, p))
  BY <1>1 DEF Reference!Expect, Reference!Message, ConfirmMsg
<1> QED
  BY <1>1, <1>4, <1>5, <1>6, <1>7, <1>8, <1>9 DEF Reference!Accept

LEMMA RefuseModel ==
    ASSUME IndInv, HandlesInv, NEW h \in Handle, Refuse(h) \/ AcceptExhausted(h), Record
    PROVE  HandlesInv' /\ Reference!Refuse
<1> DEFINE i == h.index
           p == slots[i].state.peer
<1>1. /\ i \in LiveSlots /\ Phase(i) = "PendingIncoming" /\ RemoveSlot(i)
      /\ outgoing' = Append(outgoing, FailureMsg(p))
      /\ numbersExhausted' = numbersExhausted /\ nextLocal' = nextLocal
      /\ tombstones' = tombstones
  BY DEF Refuse, AcceptExhausted, RefuseWith, Resolves, LiveSlots, numbers
<1> HIDE DEF i
<1>2. /\ HandlesInv' /\ issued' = issued
      /\ ChannelOf(i) \in LiveChannels
      /\ LiveChannels' = LiveChannels \ {ChannelOf(i)}
  BY <1>1, RemoveChannel
<1>3. ChannelOf(i).phase = "PendingIncoming" /\ ChannelOf(i).peer = p
  BY <1>1, ChannelFields
<1> HIDE DEF p
<1>4. ChannelOf(i) \in Reference!Of("PendingIncoming")
  BY <1>2, <1>3 DEF Reference!Of
<1>5. Reference!Expect(Reference!Message("FAILURE", Reference!NoNumber, p))
  BY <1>1 DEF Reference!Expect, Reference!Message, FailureMsg, NoNumber, Reference!NoNumber
<1> QED
  BY <1>1, <1>2, <1>3, <1>4, <1>5 DEF Reference!Refuse

LEMMA TransportLostModel ==
    ASSUME IndInv, HandlesInv, TransportLost, Record
    PROVE  HandlesInv' /\ Reference!TransportLost
<1>1. TableOK /\ slots \in Seq(Slot) /\ LiveSlots \in SUBSET LiveSlots
  BY TableFromInv DEF TableOK
<1>2. DOMAIN slots' = DOMAIN slots /\ LiveSlots' = {}
  BY <1>1, TransportLostTable
<1>3. LiveSlots' = LiveSlots \ LiveSlots
  BY <1>2
<1>4. \A i \in DOMAIN slots : slots'[i].generation =
         IF i \in LiveSlots THEN (slots[i].generation + 1) % GenerationMod
         ELSE slots[i].generation
  <2>1. slots' = [i \in DOMAIN slots |->
                    IF i \in LiveSlots THEN Vacated(slots[i]) ELSE slots[i]]
    BY DEF TransportLost
  <2> QED BY <2>1 DEF Vacated
<1>5. HandlesInv' /\ issued' = issued
  BY <1>1, <1>2, <1>3, <1>4, HandlesKept
<1>6. LiveChannels' = {}
  BY <1>2 DEF LiveChannels
<1>7. /\ outgoing' = <<>> /\ tombstones' = tombstones
      /\ numbersExhausted' = numbersExhausted /\ nextLocal' = nextLocal
  BY DEF TransportLost, numbers
<1> QED BY <1>5, <1>6, <1>7 DEF Reference!TransportLost

LEMMA NextOutgoingModel ==
    ASSUME IndInv, HandlesInv, NextOutgoing, Record
    PROVE  HandlesInv' /\ Reference!CheckOutgoing
<1>1. /\ outgoing # <<>> /\ outgoing' = Tail(outgoing)
      /\ slots' = slots /\ tombstones' = tombstones
      /\ numbersExhausted' = numbersExhausted /\ nextLocal' = nextLocal
  BY DEF NextOutgoing, registry, counters, numbers
<1>2. HandlesInv' /\ issued' = issued /\ LiveChannels' = LiveChannels
  BY <1>1, SameChannels
<1> QED BY <1>1, <1>2 DEF Reference!CheckOutgoing

\* The limits are tested on counters here and on the channels in the model.
LEMMA SameIncomingLimit ==
    ASSUME IndInv
    PROVE  AtIncomingLimit <=>
              \/ Reference!Cardinality(Reference!Of("PendingIncoming")) >= MaxPendingIncoming
              \/ Reference!Cardinality(LiveChannels) >= MaxChannels
<1>1. /\ pendingIncoming = Cardinality({c \in LiveChannels : c.phase = "PendingIncoming"})
      /\ live = Cardinality(LiveChannels)
  BY SameSize DEF IndInv, TypeOK, CountersExact
<1> QED BY <1>1, SameLibrary DEF AtIncomingLimit, Reference!Of

LEMMA HandleOpenModel ==
    ASSUME IndInv, HandlesInv, NEW p \in Number, HandleOpen(p),
           Record, Cardinality(issued') <= MaxInserts
    PROVE  HandlesInv' /\ Reference!PeerOpen(p)
<1>1. /\ ~PeerNumberInUse(p) /\ ~AtIncomingLimit
      /\ outgoing' = outgoing /\ tombstones' = tombstones
      /\ numbersExhausted' = numbersExhausted /\ nextLocal' = nextLocal
  BY DEF HandleOpen, numbers
<1>2. live < MaxChannels
  BY <1>1, OpeningConstants DEF AtIncomingLimit, IndInv, TypeOK
<1> DEFINE st == PendingIncoming(p)
<1>3. /\ st \in State /\ st.phase = "PendingIncoming"
      /\ st.local = NoNumber /\ st.peer = p
  BY StateBuilt DEF PendingIncoming
<1>4. Insert(st) /\ st.phase # "None"
  BY <1>3 DEF HandleOpen
<1> HIDE DEF st
<1>5. /\ HandlesInv'
      /\ \E h \in Handle :
            /\ h \notin issued /\ issued' = issued \cup {h}
            /\ LiveChannels' = LiveChannels \cup
                  {Reference!Channel(h, st.phase, st.local, st.peer)}
  BY <1>2, <1>3, <1>4, InsertChannel
<1>6. NoNumber = Reference!NoNumber
  BY DEF NoNumber, Reference!NoNumber
<1>7. \E h \in Handle :
         /\ Reference!NoteFreshHandle(h)
         /\ LiveChannels' = LiveChannels \cup
               {Reference!Channel(h, "PendingIncoming", Reference!NoNumber, p)}
  BY <1>3, <1>5, <1>6 DEF Reference!NoteFreshHandle
<1>8. ~Reference!PeerNumberLive(p)
  BY <1>1, SamePeers
<1>9. ~(\/ Reference!Cardinality(Reference!Of("PendingIncoming")) >= MaxPendingIncoming
        \/ Reference!Cardinality(LiveChannels) >= MaxChannels)
  BY <1>1, SameIncomingLimit
<1> QED BY <1>1, <1>5, <1>7, <1>8, <1>9 DEF Reference!PeerOpen

LEMMA HandleOpenByLimitModel ==
    ASSUME IndInv, HandlesInv, NEW p \in Number, HandleOpenByLimit(p), Record
    PROVE  HandlesInv' /\ Reference!PeerOpen(p)
<1>1. /\ ~PeerNumberInUse(p) /\ AtIncomingLimit
      /\ outgoing' = Append(outgoing, FailureMsg(p))
      /\ slots' = slots /\ tombstones' = tombstones
      /\ numbersExhausted' = numbersExhausted /\ nextLocal' = nextLocal
  BY DEF HandleOpenByLimit, registry, counters, numbers
<1>2. HandlesInv' /\ issued' = issued /\ LiveChannels' = LiveChannels
  BY <1>1, SameChannels
<1>3. Reference!Expect(Reference!Message("FAILURE", Reference!NoNumber, p))
  BY <1>1 DEF Reference!Expect, Reference!Message, FailureMsg, NoNumber, Reference!NoNumber
<1>4. ~Reference!PeerNumberLive(p)
  BY <1>1, SamePeers
<1>5. \/ Reference!Cardinality(Reference!Of("PendingIncoming")) >= MaxPendingIncoming
      \/ Reference!Cardinality(LiveChannels) >= MaxChannels
  BY <1>1, SameIncomingLimit
<1> QED BY <1>1, <1>2, <1>3, <1>4, <1>5 DEF Reference!PeerOpen

LEMMA HandleConfirmationModel ==
    ASSUME IndInv, HandlesInv, NEW n \in Number, NEW p \in Number,
           HandleConfirmation(n, p), Record
    PROVE  HandlesInv' /\ Reference!PeerConfirm(n, p)
<1>1. PICK i \in DOMAIN slots : LocatedPending(i, n) /\ SetState(i, Established(n, p))
  BY DEF HandleConfirmation
<1>2. /\ ~PeerNumberInUse(p) /\ outgoing' = outgoing /\ tombstones' = tombstones
      /\ numbersExhausted' = numbersExhausted /\ nextLocal' = nextLocal
  BY DEF HandleConfirmation, numbers
<1>3. /\ i \in LiveSlots /\ Phase(i) = "PendingOutgoing" /\ slots[i].state.local = n
  BY <1>1 DEF LocatedPending, In, LiveSlots
<1>4. /\ HandlesInv' /\ issued' = issued
      /\ ChannelOf(i) \in LiveChannels
      /\ LiveChannels' = (LiveChannels \ {ChannelOf(i)}) \cup
            {Reference!Channel(ChannelOf(i).handle, "Established", n, p)}
  BY <1>1, <1>3, EstablishChannel
<1>5. ChannelOf(i).phase = "PendingOutgoing" /\ ChannelOf(i).local = n
  BY <1>3, ChannelFields
<1>6. ChannelOf(i) \in Reference!Of("PendingOutgoing")
  BY <1>4, <1>5 DEF Reference!Of
<1>7. ~Reference!PeerNumberLive(p)
  BY <1>2, SamePeers
<1> QED BY <1>2, <1>4, <1>5, <1>6, <1>7 DEF Reference!PeerConfirm

LEMMA HandleFailureModel ==
    ASSUME IndInv, HandlesInv, NEW n \in Number, HandleFailure(n), Record
    PROVE  HandlesInv' /\ Reference!PeerFail(n)
<1>1. PICK i \in DOMAIN slots : LocatedPending(i, n) /\ RemoveSlot(i)
  BY DEF HandleFailure
<1>2. /\ outgoing' = outgoing /\ tombstones' = tombstones
      /\ numbersExhausted' = numbersExhausted /\ nextLocal' = nextLocal
  BY DEF HandleFailure, numbers
<1>3. /\ i \in LiveSlots /\ Phase(i) = "PendingOutgoing" /\ slots[i].state.local = n
  BY <1>1 DEF LocatedPending, In, LiveSlots
<1>4. /\ HandlesInv' /\ issued' = issued
      /\ ChannelOf(i) \in LiveChannels
      /\ LiveChannels' = LiveChannels \ {ChannelOf(i)}
  BY <1>1, <1>3, RemoveChannel
<1>5. ChannelOf(i).phase = "PendingOutgoing" /\ ChannelOf(i).local = n
  BY <1>3, ChannelFields
<1>6. ChannelOf(i) \in Reference!Of("PendingOutgoing")
  BY <1>4, <1>5 DEF Reference!Of
<1> QED BY <1>2, <1>4, <1>5, <1>6 DEF Reference!PeerFail

LEMMA LateModel ==
    ASSUME IndInv, HandlesInv, NEW n \in Number,
           LocateReply(n) = "Tombstone", ConsumeTombstone(n),
           UNCHANGED <<registry, counters, numbers, outgoing>>, Record
    PROVE  HandlesInv' /\ Reference!Late(n)
<1>1. /\ slots' = slots /\ outgoing' = outgoing
      /\ numbersExhausted' = numbersExhausted /\ nextLocal' = nextLocal
  BY DEF registry, counters, numbers
<1>2. HandlesInv' /\ issued' = issued /\ LiveChannels' = LiveChannels
  BY <1>1, SameChannels
<1>3. Reference!ReplyTarget(n) = "Tombstone"
  BY SameReply
<1>4. tombstones' = Reference!RemoveFirst(tombstones, n)
  BY ConsumeFirst
<1> QED BY <1>1, <1>2, <1>3, <1>4 DEF Reference!Late

LEMMA InitModel == HInit => HandlesInv /\ Reference!Init
<1> SUFFICES ASSUME HInit PROVE HandlesInv /\ Reference!Init
  OBVIOUS
<1>1. /\ slots = <<>> /\ issued = {} /\ ~numbersExhausted /\ nextLocal = 0
      /\ tombstones = <<>> /\ outgoing = <<>>
  BY DEF HInit, Init
<1>2. DOMAIN slots = {}
  BY <1>1
<1>3. LiveChannels = {}
  BY <1>2 DEF LiveChannels, LiveSlots
<1>4. IsFiniteSet({}) /\ Cardinality({}) = 0
  BY FS_EmptySet
<1>5. HandlesInv
  BY <1>1, <1>2, <1>4, HandlesBound DEF HandlesInv
<1> QED BY <1>1, <1>3, <1>5 DEF Reference!Init

\* One step of the engine is one step of the model, and none is none.
LEMMA StepModel ==
    ASSUME IndInv, HandlesInv, [HNext]_<<vars, issued>>
    PROVE  HandlesInv' /\ [Reference!Next]_(Reference!vars)
<1>1. CASE UNCHANGED <<vars, issued>>
  <2>1. /\ slots' = slots /\ issued' = issued /\ tombstones' = tombstones
        /\ outgoing' = outgoing /\ nextLocal' = nextLocal
        /\ numbersExhausted' = numbersExhausted
    BY <1>1 DEF vars
  <2>2. LiveChannels' = LiveChannels /\ LiveSlots' = LiveSlots
    BY <2>1 DEF LiveChannels, LiveSlots, HandleOf, Phase
  <2>3. HandlesInv'
    BY <2>1, <2>2 DEF HandlesInv, WasIssued
  <2> QED BY <2>1, <2>2, <2>3 DEF Reference!vars
<1>2. CASE HNext
  <2>0. Next /\ Record /\ Cardinality(issued') <= MaxInserts
    BY <1>2 DEF HNext
  <2>00. Reference!Number = Number
    BY DEF Number, Reference!Number
  <2> SUFFICES HandlesInv' /\ Reference!Next
    OBVIOUS
  <2>1. CASE Open
    BY <2>0, <2>1, OpenModel DEF Reference!Next
  <2>2. CASE \E h \in Handle : Cancel(h)
    BY <2>0, <2>2, CancelModel DEF Reference!Next
  <2>3. CASE \E h \in Handle : Accept(h)
    BY <2>0, <2>3, AcceptModel DEF Reference!Next
  <2>4. CASE \E h \in Handle : Refuse(h) \/ AcceptExhausted(h)
    BY <2>0, <2>4, RefuseModel DEF Reference!Next
  <2>5. CASE TransportLost
    BY <2>0, <2>5, TransportLostModel DEF Reference!Next
  <2>6. CASE NextOutgoing
    BY <2>0, <2>6, NextOutgoingModel DEF Reference!Next
  <2>7. CASE \E p \in Number : HandleOpen(p)
    BY <2>0, <2>00, <2>7, HandleOpenModel DEF Reference!Next
  <2>8. CASE \E p \in Number : HandleOpenByLimit(p)
    BY <2>0, <2>00, <2>8, HandleOpenByLimitModel DEF Reference!Next
  <2>9. CASE \E n, p \in Number : HandleConfirmation(n, p)
    BY <2>0, <2>00, <2>9, HandleConfirmationModel DEF Reference!Next
  <2>10. CASE \E n \in Number : HandleFailure(n)
    BY <2>0, <2>00, <2>10, HandleFailureModel DEF Reference!Next
  <2>11. CASE \E n, p \in Number : HandleLateConfirmation(n, p)
    <3>1. PICK n \in Number, p \in Number : HandleLateConfirmation(n, p)
      BY <2>11
    <3>2. /\ ~PeerNumberInUse(p) /\ LocateReply(n) = "Tombstone" /\ ConsumeTombstone(n)
          /\ UNCHANGED <<registry, counters, numbers, outgoing>>
      BY <3>1 DEF HandleLateConfirmation
    <3>3. HandlesInv' /\ Reference!Late(n)
      BY <2>0, <3>2, LateModel
    <3>4. Reference!PeerConfirm(n, p)
      BY <3>2, <3>3, SamePeers DEF Reference!PeerConfirm
    <3> QED BY <2>00, <3>3, <3>4 DEF Reference!Next
  <2>12. CASE \E n \in Number : HandleLateFailure(n)
    <3>1. PICK n \in Number : HandleLateFailure(n)
      BY <2>12
    <3>2. /\ LocateReply(n) = "Tombstone" /\ ConsumeTombstone(n)
          /\ UNCHANGED <<registry, counters, numbers, outgoing>>
      BY <3>1 DEF HandleLateFailure
    <3>3. HandlesInv' /\ Reference!Late(n)
      BY <2>0, <3>2, LateModel
    <3>4. Reference!PeerFail(n)
      BY <3>3 DEF Reference!PeerFail
    <3> QED BY <2>00, <3>3, <3>4 DEF Reference!Next
  <2> QED
    BY <2>0, <2>1, <2>2, <2>3, <2>4, <2>5, <2>6, <2>7, <2>8, <2>9, <2>10, <2>11, <2>12
    DEF Next, Command, PeerMessage
<1> QED BY <1>1, <1>2

\* The engine's invariant holds with the history of its handles, and every
\* handle that a slot's past can have issued is recorded: no generation has
\* come round again (insert and remove of opening.rs).
THEOREM HandlesInvariance == HSpec => [](IndInv /\ HandlesInv)
<1>1. HInit => IndInv /\ HandlesInv
  BY InitInv, InitModel DEF HInit
<1>2. IndInv /\ HandlesInv /\ [HNext]_<<vars, issued>> => (IndInv /\ HandlesInv)'
  <2> SUFFICES ASSUME IndInv, HandlesInv, [HNext]_<<vars, issued>>
               PROVE  IndInv' /\ HandlesInv'
    OBVIOUS
  <2>1. [Next]_vars
    BY DEF HNext
  <2>2. IndInv'
    BY <2>1, StepInv
  <2>3. HandlesInv'
    BY StepModel
  <2> QED BY <2>2, <2>3
<1> QED BY <1>1, <1>2, PTL DEF HSpec

\* What open, the handle commands and the handlers of the peer's messages
\* answer is what the fuzz target's model predicts, in every reachable state
\* and for every value of the limits and of the number space.
THEOREM AnswersCorrect == HSpec => []AnswersAgree
<1> QED BY HandlesInvariance, InvAnswers, PTL

\* The engine implements the model it is fuzzed against, as long as no slot
\* is reused often enough for its 32-bit generation to come round.
THEOREM ImplementsModelCorrect == HSpec => ImplementsModel
<1>1. HInit => Reference!Init
  BY InitModel
<1>2. IndInv /\ HandlesInv /\ [HNext]_<<vars, issued>> => [Reference!Next]_(Reference!vars)
  BY StepModel
<1> QED BY <1>1, <1>2, HandlesInvariance, PTL DEF HSpec, ImplementsModel, Reference!Spec

----------------------------------------------------------------------------
(* What the other side can know of an engine: its numbers by phase.        *)

Pending == {slots[i].state.local : i \in In("PendingOutgoing")}
Waiting == {slots[i].state.peer : i \in In("PendingIncoming")}
Channels == {<<slots[i].state.local, slots[i].state.peer>> : i \in In("Established")}
Numbered == {n \in Number : Allocated(n)}

\* Which slot tells a number.
LEMMA PhaseSets ==
    /\ \A n : n \in Pending <=> \E i \in In("PendingOutgoing") : slots[i].state.local = n
    /\ \A p : p \in Waiting <=> \E i \in In("PendingIncoming") : slots[i].state.peer = p
    /\ \A c : c \in Channels <=> \E i \in In("Established") :
                                   c = <<slots[i].state.local, slots[i].state.peer>>
BY DEF Pending, Waiting, Channels

\* One slot changes and so does what its phase tells; numbers are unique, so
\* what it told before is told by no other.
LEMMA PhaseChange ==
    ASSUME IndInv, NEW k, k \notin In("Established"), NEW st,
           DOMAIN slots' = DOMAIN slots \cup {k},
           slots'[k].state = st,
           \A j \in DOMAIN slots : j # k => slots'[j] = slots[j]
    PROVE  /\ \A n : n \in Pending' <=>
                 \/ n \in Pending
                    /\ ~(k \in In("PendingOutgoing") /\ slots[k].state.local = n)
                 \/ st.phase = "PendingOutgoing" /\ n = st.local
           /\ \A p : p \in Waiting' <=>
                 \/ p \in Waiting
                    /\ ~(k \in In("PendingIncoming") /\ slots[k].state.peer = p)
                 \/ st.phase = "PendingIncoming" /\ p = st.peer
           /\ \A c : c \in Channels' <=>
                 \/ c \in Channels
                 \/ st.phase = "Established" /\ c = <<st.local, st.peer>>
<1>1. \A ph : In(ph)' = IF ph = st.phase THEN In(ph) \cup {k} ELSE In(ph) \ {k}
  BY OneSlotSets
<1> DEFINE O == In("PendingOutgoing")   O2 == In("PendingOutgoing")'
           I == In("PendingIncoming")   I2 == In("PendingIncoming")'
           E == In("Established")       E2 == In("Established")'
<1>2. /\ O \subseteq DOMAIN slots /\ I \subseteq DOMAIN slots /\ E \subseteq DOMAIN slots
      /\ \A i, j \in O : slots[i].state.local = slots[j].state.local => i = j
      /\ \A i, j \in I : slots[i].state.peer = slots[j].state.peer => i = j
  BY DEF IndInv, LocalNumbersUnique, PeerNumbersUnique, HasLocal, HasPeer, In
<1>3. /\ O2 = IF "PendingOutgoing" = st.phase THEN O \cup {k} ELSE O \ {k}
      /\ I2 = IF "PendingIncoming" = st.phase THEN I \cup {k} ELSE I \ {k}
      /\ E2 = IF "Established" = st.phase THEN E \cup {k} ELSE E
  BY <1>1
<1>4. /\ \A n : n \in Pending <=> \E i \in O : slots[i].state.local = n
      /\ \A p : p \in Waiting <=> \E i \in I : slots[i].state.peer = p
      /\ \A c : c \in Channels <=> \E i \in E :
                                     c = <<slots[i].state.local, slots[i].state.peer>>
  BY PhaseSets
<1>5. /\ \A n : n \in Pending' <=> \E i \in O2 : slots'[i].state.local = n
      /\ \A p : p \in Waiting' <=> \E i \in I2 : slots'[i].state.peer = p
      /\ \A c : c \in Channels' <=> \E i \in E2 :
                                      c = <<slots'[i].state.local, slots'[i].state.peer>>
  BY DEF Pending, Waiting, Channels
<1> DEFINE P == Pending  P2 == Pending'  W == Waiting  W2 == Waiting'
           C == Channels  C2 == Channels'
<1>6. k \notin E
  OBVIOUS
<1> HIDE DEF O, O2, I, I2, E, E2, P, P2, W, W2, C, C2
<1>7. \A n : n \in P2 <=>
         \/ n \in P /\ ~(k \in O /\ slots[k].state.local = n)
         \/ st.phase = "PendingOutgoing" /\ n = st.local
  <2> USE DEF P, P2
  <2>1. \A n : n \in P <=> \E i \in O : slots[i].state.local = n
    BY <1>4
  <2>2. \A n : n \in P2 <=> \E i \in O2 : slots'[i].state.local = n
    BY <1>5
  <2> HIDE DEF P, P2
  <2> QED BY <1>2, <1>3, <2>1, <2>2
<1>8. \A p : p \in W2 <=>
         \/ p \in W /\ ~(k \in I /\ slots[k].state.peer = p)
         \/ st.phase = "PendingIncoming" /\ p = st.peer
  <2> USE DEF W, W2
  <2>1. \A p : p \in W <=> \E i \in I : slots[i].state.peer = p
    BY <1>4
  <2>2. \A p : p \in W2 <=> \E i \in I2 : slots'[i].state.peer = p
    BY <1>5
  <2> HIDE DEF W, W2
  <2> QED BY <1>2, <1>3, <2>1, <2>2
<1>9. \A c : c \in C2 <=> c \in C \/ (st.phase = "Established" /\ c = <<st.local, st.peer>>)
  <2> USE DEF C, C2
  <2>1. \A c : c \in C <=> \E i \in E : c = <<slots[i].state.local, slots[i].state.peer>>
    BY <1>4
  <2>2. \A c : c \in C2 <=> \E i \in E2 : c = <<slots'[i].state.local, slots'[i].state.peer>>
    BY <1>5
  <2> HIDE DEF C, C2
  <2> QED BY <1>2, <1>3, <1>6, <2>1, <2>2
<1> QED BY <1>7, <1>8, <1>9 DEF O, I, P, P2, W, W2, C, C2

\* allocate_number takes one number from those left.
LEMMA NumberedOne ==
    ASSUME IndInv, AllocateNumber
    PROVE  /\ nextLocal \in Number /\ nextLocal \notin Numbered
           /\ Numbered' = Numbered \cup {nextLocal}
<1>1. TypeOK /\ LocalNumbersUnique
  BY DEF IndInv
<1>a. nextLocal \in Number /\ ~Allocated(nextLocal)
  BY <1>1, AllocateFresh
<1>b. ~numbersExhausted
  BY DEF AllocateNumber
<1>2. /\ nextLocal \in Number /\ ~Allocated(nextLocal)
      /\ nextLocal \in Nat /\ MaxNumber \in Nat /\ ~numbersExhausted
  BY <1>a, <1>b, OpeningConstants DEF Number
<1>3. ASSUME NEW n \in Number
      PROVE  Allocated(n)' <=> Allocated(n) \/ n = nextLocal
  <2>1. CASE nextLocal < MaxNumber
    <3>1. nextLocal' = nextLocal + 1 /\ numbersExhausted' = numbersExhausted
      BY <2>1 DEF AllocateNumber
    <3> QED BY <1>2, <3>1 DEF Allocated, Number
  <2>2. CASE ~(nextLocal < MaxNumber)
    <3>1. nextLocal' = nextLocal /\ numbersExhausted' = TRUE /\ nextLocal = MaxNumber
      BY <1>2, <2>2 DEF AllocateNumber, Number
    <3> QED BY <1>2, <3>1 DEF Allocated, Number
  <2> QED BY <2>1, <2>2
<1> QED BY <1>2, <1>3 DEF Numbered

\* No number is allocated.
LEMMA NumberedSame ==
    ASSUME UNCHANGED numbers
    PROVE  Numbered' = Numbered
BY DEF numbers, Numbered, Allocated

\* The slots are as they were.
LEMMA PhasesSame ==
    ASSUME slots' = slots
    PROVE  Pending' = Pending /\ Waiting' = Waiting /\ Channels' = Channels
BY DEF Pending, Waiting, Channels, In, Phase

\* insert adds what the new state tells.
LEMMA InsertPhases ==
    ASSUME IndInv, live < MaxChannels, NEW st \in State, st.phase # "None", Insert(st)
    PROVE  /\ Pending' = Pending \cup
                 (IF st.phase = "PendingOutgoing" THEN {st.local} ELSE {})
           /\ Waiting' = Waiting \cup
                 (IF st.phase = "PendingIncoming" THEN {st.peer} ELSE {})
           /\ Channels' = Channels \cup
                 (IF st.phase = "Established" THEN {<<st.local, st.peer>>} ELSE {})
<1>1. TableOK /\ live = Cardinality(LiveSlots)
  BY TableFromInv
<1>2. PICK k \in (DOMAIN slots') \ LiveSlots :
         /\ slots'[k].state = st
         /\ DOMAIN slots' = DOMAIN slots \cup {k}
         /\ \A j \in DOMAIN slots : j # k => slots'[j] = slots[j]
  BY <1>1, InsertSlot
<1>3. \A ph : ph # "None" => k \notin In(ph)
  BY <1>2 DEF In, LiveSlots
<1>4. /\ k \notin In("Established") /\ k \notin In("PendingOutgoing")
      /\ k \notin In("PendingIncoming")
  BY <1>3
<1>5. /\ \A n : n \in Pending' <=> n \in Pending \/ (st.phase = "PendingOutgoing" /\ n = st.local)
      /\ \A p : p \in Waiting' <=> p \in Waiting \/ (st.phase = "PendingIncoming" /\ p = st.peer)
      /\ \A c : c \in Channels' <=>
            c \in Channels \/ (st.phase = "Established" /\ c = <<st.local, st.peer>>)
  BY <1>2, <1>4, PhaseChange
<1> QED BY <1>5

\* A slot in a pending phase changes to another state st.
LEMMA ChangePhases ==
    ASSUME IndInv, NEW i \in DOMAIN slots, i \notin In("Established"), NEW st,
           DOMAIN slots' = DOMAIN slots, slots'[i].state = st,
           \A j \in DOMAIN slots : j # i => slots'[j] = slots[j],
           st.phase \notin {"PendingOutgoing", "PendingIncoming"}
    PROVE  /\ Pending' = IF i \in In("PendingOutgoing")
                         THEN Pending \ {slots[i].state.local} ELSE Pending
           /\ Waiting' = IF i \in In("PendingIncoming")
                         THEN Waiting \ {slots[i].state.peer} ELSE Waiting
           /\ Channels' = Channels \cup
                 (IF st.phase = "Established" THEN {<<st.local, st.peer>>} ELSE {})
           /\ i \in In("PendingOutgoing") => slots[i].state.local \in Pending
           /\ i \in In("PendingIncoming") => slots[i].state.peer \in Waiting
<1>1. DOMAIN slots' = DOMAIN slots \cup {i}
  OBVIOUS
<1>2. /\ \A n : n \in Pending' <=>
            n \in Pending /\ ~(i \in In("PendingOutgoing") /\ slots[i].state.local = n)
      /\ \A p : p \in Waiting' <=>
            p \in Waiting /\ ~(i \in In("PendingIncoming") /\ slots[i].state.peer = p)
      /\ \A c : c \in Channels' <=>
            c \in Channels \/ (st.phase = "Established" /\ c = <<st.local, st.peer>>)
  BY <1>1, PhaseChange
<1>3. /\ i \in In("PendingOutgoing") => slots[i].state.local \in Pending
      /\ i \in In("PendingIncoming") => slots[i].state.peer \in Waiting
  BY PhaseSets
<1> QED BY <1>2, <1>3

----------------------------------------------------------------------------
(* What each action is to the other side.                                  *)

\* open
LEMMA OpenTold ==
    ASSUME IndInv, Open
    PROVE  /\ nextLocal \in Number /\ nextLocal \notin Numbered
           /\ Pending' = Pending \cup {nextLocal}
           /\ Waiting' = Waiting /\ Channels' = Channels
           /\ Numbered' = Numbered \cup {nextLocal}
           /\ tombstones' = tombstones
           /\ outgoing' = Append(outgoing, OpenMsg(nextLocal))
<1>1. /\ AllocateNumber /\ live < MaxChannels /\ Insert(PendingOutgoing(nextLocal))
      /\ tombstones' = tombstones
      /\ outgoing' = Append(outgoing, OpenMsg(nextLocal))
  BY DEF Open
<1>2. /\ nextLocal \in Number /\ nextLocal \notin Numbered
      /\ Numbered' = Numbered \cup {nextLocal}
  BY <1>1, NumberedOne
<1> DEFINE st == PendingOutgoing(nextLocal)
<1>3. st \in State /\ st.phase = "PendingOutgoing" /\ st.local = nextLocal
  BY <1>2, StateBuilt
<1> HIDE DEF st
<1>4. Insert(st)
  BY <1>1 DEF st
<1>5. /\ Pending' = Pending \cup {nextLocal}
      /\ Waiting' = Waiting /\ Channels' = Channels
  BY <1>1, <1>3, <1>4, InsertPhases
<1> QED BY <1>1, <1>2, <1>5

\* What a removal tells: the slot was in phase ph.
LEMMA RemoveTold ==
    ASSUME IndInv, NEW i, i \in In("PendingOutgoing") \cup In("PendingIncoming"),
           RemoveSlot(i)
    PROVE  /\ i \in In("PendingOutgoing") =>
                 /\ slots[i].state.local \in Pending
                 /\ Pending' = Pending \ {slots[i].state.local} /\ Waiting' = Waiting
           /\ i \in In("PendingIncoming") =>
                 /\ slots[i].state.peer \in Waiting
                 /\ Waiting' = Waiting \ {slots[i].state.peer} /\ Pending' = Pending
           /\ Channels' = Channels
<1>1. TableOK
  BY TableFromInv
<1>2. /\ i \in LiveSlots /\ i \in DOMAIN slots /\ i \notin In("Established")
      /\ ~(i \in In("PendingOutgoing") /\ i \in In("PendingIncoming"))
  BY DEF In, LiveSlots
<1>3. /\ DOMAIN slots' = DOMAIN slots /\ slots'[i].state = Vacant
      /\ \A j \in DOMAIN slots : j # i => slots'[j] = slots[j]
  BY <1>1, <1>2, RemoveSlotTable
<1>4. Vacant.phase = "None"
  BY DEF Vacant
<1> QED BY <1>2, <1>3, <1>4, ChangePhases

\* What establishing tells: the slot was in a pending phase.
LEMMA EstablishTold ==
    ASSUME IndInv, NEW i, i \in In("PendingOutgoing") \cup In("PendingIncoming"),
           NEW n \in Number, NEW p \in Number, SetState(i, Established(n, p))
    PROVE  /\ i \in In("PendingOutgoing") =>
                 /\ slots[i].state.local \in Pending
                 /\ Pending' = Pending \ {slots[i].state.local} /\ Waiting' = Waiting
           /\ i \in In("PendingIncoming") =>
                 /\ slots[i].state.peer \in Waiting
                 /\ Waiting' = Waiting \ {slots[i].state.peer} /\ Pending' = Pending
           /\ Channels' = Channels \cup {<<n, p>>}
<1>1. TableOK
  BY TableFromInv
<1>2. /\ i \in LiveSlots /\ i \in DOMAIN slots /\ i \notin In("Established")
      /\ ~(i \in In("PendingOutgoing") /\ i \in In("PendingIncoming"))
  BY DEF In, LiveSlots
<1> DEFINE st == Established(n, p)
<1>3. st \in State /\ st.phase = "Established" /\ st.local = n /\ st.peer = p
  BY StateBuilt
<1>4. SetState(i, st)
  OBVIOUS
<1> HIDE DEF st
<1>5. /\ DOMAIN slots' = DOMAIN slots /\ slots'[i].state = st
      /\ \A j \in DOMAIN slots : j # i => slots'[j] = slots[j]
  BY <1>1, <1>2, <1>3, <1>4, SetStateTable
<1> QED BY <1>2, <1>3, <1>5, ChangePhases

\* cancel
LEMMA CancelTold ==
    ASSUME IndInv, NEW h, Cancel(h)
    PROVE  LET n == slots[h.index].state.local IN
           /\ n \in Pending /\ Pending' = Pending \ {n}
           /\ Waiting' = Waiting /\ Channels' = Channels /\ Numbered' = Numbered
           /\ tombstones' = IF Len(tombstones) < MaxTombstones
                            THEN Append(tombstones, n) ELSE Tail(Append(tombstones, n))
           /\ outgoing' = outgoing
<1> DEFINE n == slots[h.index].state.local
<1>1. /\ h.index \in In("PendingOutgoing") /\ RemoveSlot(h.index) /\ UNCHANGED numbers
      /\ tombstones' = Trimmed(Append(tombstones, n))
      /\ outgoing' = outgoing
  BY DEF Cancel, Resolves, In
<1>2. n \in Number
  BY <1>1, NumbersTyped DEF IndInv, TypeOK, HasLocal
<1>3. /\ tombstones \in Seq(Number) /\ Len(tombstones) <= MaxTombstones
      /\ Len(tombstones) \in Nat /\ MaxTombstones \in Nat
  BY LenProperties, OpeningConstants DEF IndInv, TypeOK, LimitsHold
<1> HIDE DEF n
<1>4. Append(tombstones, n) \in Seq(Number) /\ Len(Append(tombstones, n)) = Len(tombstones) + 1
  BY <1>2, <1>3, AppendProperties
<1>5. Trimmed(Append(tombstones, n)) =
         IF Len(tombstones) < MaxTombstones
         THEN Append(tombstones, n) ELSE Tail(Append(tombstones, n))
  <2>1. Len(Append(tombstones, n)) <= MaxTombstones + 1
    BY <1>3, <1>4
  <2>2. Trimmed(Append(tombstones, n)) =
           IF Len(Append(tombstones, n)) <= MaxTombstones
           THEN Append(tombstones, n) ELSE Tail(Append(tombstones, n))
    BY <1>4, <2>1, TrimOne
  <2> QED BY <1>3, <1>4, <2>2
<1> USE DEF n
<1> QED BY <1>1, <1>5, RemoveTold, NumberedSame

\* accept
LEMMA AcceptTold ==
    ASSUME IndInv, NEW h, Accept(h)
    PROVE  LET p == slots[h.index].state.peer IN
           /\ nextLocal \in Number /\ nextLocal \notin Numbered
           /\ p \in Waiting /\ Waiting' = Waiting \ {p}
           /\ Pending' = Pending /\ Channels' = Channels \cup {<<nextLocal, p>>}
           /\ Numbered' = Numbered \cup {nextLocal}
           /\ tombstones' = tombstones
           /\ outgoing' = Append(outgoing, ConfirmMsg(p, nextLocal))
<1> DEFINE p == slots[h.index].state.peer
<1>1. /\ h.index \in In("PendingIncoming") /\ AllocateNumber
      /\ SetState(h.index, Established(nextLocal, p))
      /\ tombstones' = tombstones
      /\ outgoing' = Append(outgoing, ConfirmMsg(p, nextLocal))
  BY DEF Accept, Resolves, In
<1>2. p \in Number
  BY <1>1, NumbersTyped DEF IndInv, TypeOK, HasPeer
<1>3. /\ nextLocal \in Number /\ nextLocal \notin Numbered
      /\ Numbered' = Numbered \cup {nextLocal}
  BY <1>1, NumberedOne
<1> QED BY <1>1, <1>2, <1>3, EstablishTold

\* refuse, and accept with no number left
LEMMA RefuseTold ==
    ASSUME IndInv, NEW h, Refuse(h) \/ AcceptExhausted(h)
    PROVE  LET p == slots[h.index].state.peer IN
           /\ p \in Waiting /\ Waiting' = Waiting \ {p}
           /\ Pending' = Pending /\ Channels' = Channels /\ Numbered' = Numbered
           /\ tombstones' = tombstones
           /\ outgoing' = Append(outgoing, FailureMsg(p))
<1>1. /\ h.index \in In("PendingIncoming") /\ RemoveSlot(h.index) /\ UNCHANGED numbers
      /\ tombstones' = tombstones
      /\ outgoing' = Append(outgoing, FailureMsg(slots[h.index].state.peer))
  BY DEF Refuse, AcceptExhausted, RefuseWith, Resolves, In
<1> QED BY <1>1, RemoveTold, NumberedSame

\* transport_lost: the numbers and the tombstones survive.
LEMMA LostTold ==
    ASSUME IndInv, TransportLost
    PROVE  /\ Pending' = {} /\ Waiting' = {} /\ Channels' = {}
           /\ Numbered' = Numbered /\ tombstones' = tombstones /\ outgoing' = <<>>
<1>1. TableOK
  BY TableFromInv
<1>2. /\ In("PendingOutgoing")' = {} /\ In("PendingIncoming")' = {}
      /\ In("Established")' = {}
  BY <1>1, TransportLostTable
<1>3. Pending' = {} /\ Waiting' = {} /\ Channels' = {}
  BY <1>2 DEF Pending, Waiting, Channels
<1>4. UNCHANGED numbers /\ tombstones' = tombstones /\ outgoing' = <<>>
  BY DEF TransportLost
<1> QED BY <1>3, <1>4, NumberedSame

\* handle_open
LEMMA HandleOpenTold ==
    ASSUME IndInv, NEW p \in Number, HandleOpen(p)
    PROVE  /\ Waiting' = Waiting \cup {p}
           /\ Pending' = Pending /\ Channels' = Channels /\ Numbered' = Numbered
           /\ tombstones' = tombstones /\ outgoing' = outgoing
<1>1. /\ live < MaxChannels /\ Insert(PendingIncoming(p)) /\ UNCHANGED numbers
      /\ tombstones' = tombstones /\ outgoing' = outgoing
  BY OpeningConstants DEF HandleOpen, AtIncomingLimit, IndInv, TypeOK
<1> DEFINE st == PendingIncoming(p)
<1>2. st \in State /\ st.phase = "PendingIncoming" /\ st.peer = p
  BY StateBuilt
<1>3. Insert(st)
  BY <1>1
<1> HIDE DEF st
<1>4. Waiting' = Waiting \cup {p} /\ Pending' = Pending /\ Channels' = Channels
  BY <1>1, <1>2, <1>3, InsertPhases
<1> QED BY <1>1, <1>4, NumberedSame

\* handle_open at a limit
LEMMA HandleOpenByLimitTold ==
    ASSUME NEW p, HandleOpenByLimit(p)
    PROVE  /\ Pending' = Pending /\ Waiting' = Waiting /\ Channels' = Channels
           /\ Numbered' = Numbered /\ tombstones' = tombstones
           /\ outgoing' = Append(outgoing, FailureMsg(p))
BY PhasesSame, NumberedSame DEF HandleOpenByLimit, registry

\* handle_open_confirmation of a pending open
LEMMA HandleConfirmationTold ==
    ASSUME IndInv, NEW n \in Number, NEW p \in Number, HandleConfirmation(n, p)
    PROVE  /\ n \in Pending /\ Pending' = Pending \ {n}
           /\ Waiting' = Waiting /\ Channels' = Channels \cup {<<n, p>>}
           /\ Numbered' = Numbered /\ tombstones' = tombstones /\ outgoing' = outgoing
<1>1. UNCHANGED numbers /\ tombstones' = tombstones /\ outgoing' = outgoing
  BY DEF HandleConfirmation
<1>2. PICK i \in DOMAIN slots : LocatedPending(i, n) /\ SetState(i, Established(n, p))
  BY DEF HandleConfirmation
<1>3. i \in In("PendingOutgoing") /\ slots[i].state.local = n
  BY <1>2 DEF LocatedPending
<1> QED BY <1>1, <1>2, <1>3, EstablishTold, NumberedSame

\* handle_open_failure of a pending open
LEMMA HandleFailureTold ==
    ASSUME IndInv, NEW n \in Number, HandleFailure(n)
    PROVE  /\ n \in Pending /\ Pending' = Pending \ {n}
           /\ Waiting' = Waiting /\ Channels' = Channels
           /\ Numbered' = Numbered /\ tombstones' = tombstones /\ outgoing' = outgoing
<1>1. UNCHANGED numbers /\ tombstones' = tombstones /\ outgoing' = outgoing
  BY DEF HandleFailure
<1>2. PICK i \in DOMAIN slots : LocatedPending(i, n) /\ RemoveSlot(i)
  BY DEF HandleFailure
<1>3. i \in In("PendingOutgoing") /\ slots[i].state.local = n
  BY <1>2 DEF LocatedPending
<1> QED BY <1>1, <1>2, <1>3, RemoveTold, NumberedSame

\* A reply naming a pending or a buried number is no violation, and a number
\* is not both.
LEMMA ReplyKnown ==
    ASSUME IndInv, NEW n \in Number
    PROVE  /\ n \in Pending => LocateReply(n) = "Pending"
           /\ (\E k \in DOMAIN tombstones : tombstones[k] = n) =>
                 LocateReply(n) = "Tombstone" /\ n \notin Pending
<1> DEFINE pend == \E i \in DOMAIN slots : LocatedPending(i, n)
           est  == \E i \in In("Established") : slots[i].state.local = n
           none == \A i \in HasLocal : slots[i].state.local # n
           late == Contains(tombstones, n)
           other == IF n >= nextLocal
                       /\ \E i \in In("PendingIncoming") : slots[i].state.peer = n
                    THEN "ReplyToIncoming" ELSE "UnknownRecipient"
<1>1. LocateReply(n) =
        CASE pend -> "Pending" [] est -> "DuplicateReply" [] none /\ late -> "Tombstone"
          [] OTHER -> other
  BY DEF LocateReply
<1>2. pend <=> n \in Pending
  BY PhaseSets DEF LocatedPending, In
<1>3. (\E k \in DOMAIN tombstones : tombstones[k] = n) <=> late
  <2>1. DOMAIN tombstones = 1..Len(tombstones)
    BY LenProperties DEF IndInv, TypeOK
  <2> QED BY <2>1 DEF Contains
<1>4. late => none
  BY <1>3 DEF IndInv, LocalNumbersUnique
<1>5. none => ~pend /\ ~est
  BY DEF HasLocal, LocatedPending, In
<1>6. ~(pend /\ est)
  BY DEF IndInv, LocalNumbersUnique, LocatedPending, HasLocal, In
<1> HIDE DEF pend, est, none, late, other
<1>7. pend => LocateReply(n) = "Pending"
  BY <1>1, <1>5, <1>6
<1>8. late => LocateReply(n) = "Tombstone" /\ ~pend
  BY <1>1, <1>4, <1>5
<1> QED BY <1>2, <1>3, <1>7, <1>8

\* Which numbers of the peer are in use.
LEMMA PeerKnown ==
    ASSUME IndInv, NEW p
    PROVE  PeerNumberInUse(p) <=> p \in Waiting \/ \E c \in Channels : c[2] = p
<1>1. PeerNumberInUse(p) <=> \/ \E i \in In("PendingIncoming") : slots[i].state.peer = p
                             \/ \E i \in In("Established") : slots[i].state.peer = p
  BY DEF PeerNumberInUse, HasPeer
<1>2. p \in Waiting <=> \E i \in In("PendingIncoming") : slots[i].state.peer = p
  BY PhaseSets
<1>3. (\E c \in Channels : c[2] = p) <=> \E i \in In("Established") : slots[i].state.peer = p
  <2>1. ASSUME NEW c \in Channels, c[2] = p
        PROVE  \E i \in In("Established") : slots[i].state.peer = p
    <3>1. PICK i \in In("Established") : c = <<slots[i].state.local, slots[i].state.peer>>
      BY PhaseSets
    <3> QED BY <2>1, <3>1
  <2>2. ASSUME NEW i \in In("Established"), slots[i].state.peer = p
        PROVE  \E c \in Channels : c[2] = p
    <3>1. <<slots[i].state.local, p>> \in Channels
      BY <2>2, PhaseSets
    <3>2. <<slots[i].state.local, p>>[2] = p
      OBVIOUS
    <3> QED BY <3>1, <3>2
  <2> QED BY <2>1, <2>2
<1> QED BY <1>1, <1>2, <1>3

\* Either reply to a cancelled open.
LEMMA LateTold ==
    ASSUME IndInv, NEW n \in Number,
           HandleLateFailure(n) \/ \E p : HandleLateConfirmation(n, p)
    PROVE  /\ Pending' = Pending /\ Waiting' = Waiting /\ Channels' = Channels
           /\ Numbered' = Numbered /\ outgoing' = outgoing
           /\ n \notin Pending
           /\ \E k \in DOMAIN tombstones :
                 /\ tombstones[k] = n
                 /\ Len(tombstones') = Len(tombstones) - 1
                 /\ \A i \in DOMAIN tombstones' :
                       IF i < k THEN i \in DOMAIN tombstones /\ tombstones'[i] = tombstones[i]
                       ELSE i + 1 \in DOMAIN tombstones /\ tombstones'[i] = tombstones[i + 1]
<1>1. /\ slots' = slots /\ UNCHANGED numbers /\ outgoing' = outgoing
      /\ ConsumeTombstone(n)
  BY DEF HandleLateFailure, HandleLateConfirmation, registry
<1>2. \E k \in DOMAIN tombstones :
         tombstones[k] = n /\ tombstones' = RemoveAt(tombstones, k)
  BY <1>1 DEF ConsumeTombstone
<1>3. n \notin Pending
  BY <1>2, ReplyKnown
<1>4. tombstones \in Seq(Number)
  BY DEF IndInv, TypeOK
<1> QED BY <1>1, <1>2, <1>3, <1>4, RemoveAtSeq, PhasesSame, NumberedSame

\* Types of what the other side can know.
LEMMA ToldTyped ==
    ASSUME IndInv
    PROVE  /\ Pending \subseteq Number /\ Waiting \subseteq Number
           /\ Numbered \subseteq Number
           /\ Channels \subseteq Number \X Number
           /\ tombstones \in Seq(Number) /\ Len(tombstones) <= MaxTombstones
           /\ outgoing \in Seq(Message)
<1>1. /\ \A i \in HasLocal : slots[i].state.local \in Number
      /\ \A i \in HasPeer : slots[i].state.peer \in Number
  BY NumbersTyped DEF IndInv, TypeOK
<1>2. Pending \subseteq Number /\ Waiting \subseteq Number
  BY <1>1 DEF Pending, Waiting, HasLocal, HasPeer
<1>3. Channels \subseteq Number \X Number
  BY <1>1 DEF Channels, HasLocal, HasPeer
<1> QED BY <1>2, <1>3 DEF Numbered, IndInv, TypeOK, LimitsHold

============================================================================
