------------------------------ MODULE Opening ------------------------------
(***************************************************************************)
(* The channel-opening engine of tatami_ssh_connection (opening.rs): one   *)
(* endpoint's registry of SSH channels between "someone wants a channel"   *)
(* and "both sides agree it exists".                                       *)
(*                                                                         *)
(* The application calls open, cancel, accept, refuse and transport_lost;  *)
(* the binding hands over decoded OPEN, OPEN_CONFIRMATION and OPEN_FAILURE *)
(* messages and drains the outgoing queue.  The peer is arbitrary here: it *)
(* may send any message with any number at any time.  OpeningPair puts two *)
(* engines face to face.                                                   *)
(*                                                                         *)
(* Channel types, credit, descriptions and reason codes are carried        *)
(* verbatim by the code and never tested; they are left out.  A call that  *)
(* the code rejects (OpenError, HandleError, Violation) changes nothing,   *)
(* so it is the negation of an action's guard and not a step.              *)
(*                                                                         *)
(* A definition whose name starts with Faulty is a plausible bug in the    *)
(* definition that follows it; each shows that some property can fail.     *)
(***************************************************************************)
EXTENDS Integers, SequencesExt

CONSTANTS
    MaxPendingOutgoing,  \* OpeningLimits::max_pending_outgoing
    MaxPendingIncoming,  \* OpeningLimits::max_pending_incoming
    MaxChannels,         \* OpeningLimits::max_channels
    MaxTombstones,       \* OpeningLimits::max_tombstones
    MaxNumber,           \* u32::MAX, the last channel number
    GenerationMod        \* 2^32, where a slot's generation wraps

ASSUME OpeningConstants ==
    /\ MaxPendingOutgoing \in Nat
    /\ MaxPendingIncoming \in Nat
    /\ MaxChannels \in Nat
    /\ MaxTombstones \in Nat
    /\ MaxNumber \in Nat
    /\ GenerationMod \in Nat \ {0}

VARIABLES
    slots,             \* Vec<Slot>: generation and Option<State>
    free,              \* vacated slot indices, a stack
    nextLocal,         \* the next local number to hand out
    numbersExhausted,  \* set once MaxNumber has been handed out
    tombstones,        \* cancelled local numbers still awaiting a reply
    outgoing,          \* messages the binding must send, in order
    pendingOutgoing,   \* counters the limits are tested against
    pendingIncoming,
    live

registry == <<slots, free, live>>
counters == <<pendingOutgoing, pendingIncoming>>
numbers  == <<nextLocal, numbersExhausted>>
vars == <<slots, free, nextLocal, numbersExhausted, tombstones, outgoing,
          pendingOutgoing, pendingIncoming, live>>

----------------------------------------------------------------------------
Number   == 0..MaxNumber
NoNumber == -1
Generation == 0..(GenerationMod - 1)

\* Option<State>.  None is Vacant; a pending incoming open has no local
\* number yet and a pending outgoing one no peer number.
Vacant == [phase |-> "None", local |-> NoNumber, peer |-> NoNumber]
PendingOutgoing(n) ==
    [phase |-> "PendingOutgoing", local |-> n, peer |-> NoNumber]
PendingIncoming(p) ==
    [phase |-> "PendingIncoming", local |-> NoNumber, peer |-> p]
Established(n, p) == [phase |-> "Established", local |-> n, peer |-> p]

State == {Vacant}
         \cup {PendingOutgoing(n) : n \in Number}
         \cup {PendingIncoming(p) : p \in Number}
         \cup {Established(x[1], x[2]) : x \in Number \X Number}
Slot == [generation : Generation, state : State]

\* Outgoing messages: sender is our number, recipient the peer's.
OpenMsg(n)       == [kind |-> "OPEN", sender |-> n, recipient |-> NoNumber]
ConfirmMsg(p, n) == [kind |-> "CONFIRMATION", sender |-> n, recipient |-> p]
FailureMsg(p)    == [kind |-> "FAILURE", sender |-> NoNumber, recipient |-> p]
Message == [kind : {"OPEN", "CONFIRMATION", "FAILURE"},
            sender : Number \cup {NoNumber},
            recipient : Number \cup {NoNumber}]

Handle == [index : 1..MaxChannels, generation : Generation]

Phase(i) == slots[i].state.phase
In(ph)   == {i \in DOMAIN slots : Phase(i) = ph}
LiveSlots == {i \in DOMAIN slots : Phase(i) # "None"}

\* The slots that carry a local number and those that carry a peer number.
HasLocal == In("PendingOutgoing") \cup In("Established")
HasPeer  == In("PendingIncoming") \cup In("Established")

----------------------------------------------------------------------------
(* Internals.                                                              *)

\* get: a handle resolves when its slot is live and of its generation.
Resolves(h, ph) ==
    /\ h.index \in DOMAIN slots
    /\ slots[h.index].generation = h.generation
    /\ Phase(h.index) = ph

\* What a command that needs a handle in phase ph answers.
HandleError(h, ph) ==
    IF h.index \notin DOMAIN slots \/ slots[h.index].generation # h.generation
       \/ Phase(h.index) = "None"
    THEN "Stale"
    ELSE IF Phase(h.index) # ph THEN "WrongPhase" ELSE "None"

\* What open answers when it does not open.
OpenError ==
    IF pendingOutgoing >= MaxPendingOutgoing THEN "TooManyPendingOutgoing"
    ELSE IF live >= MaxChannels THEN "TooManyChannels"
    ELSE IF numbersExhausted THEN "NumbersExhausted" ELSE "None"

PeerNumberInUse(p) == \E i \in HasPeer : slots[i].state.peer = p

\* allocate_number hands out nextLocal.
AllocateNumber ==
    /\ ~numbersExhausted
    /\ IF nextLocal < MaxNumber
       THEN nextLocal' = nextLocal + 1 /\ UNCHANGED numbersExhausted
       ELSE numbersExhausted' = TRUE /\ UNCHANGED nextLocal

Holding(slot, state) == [generation |-> slot.generation, state |-> state]
Vacated(slot) == [generation |-> (slot.generation + 1) % GenerationMod,
                  state |-> Vacant]

\* insert reuses the most recently vacated slot, or adds one.
Insert(state) ==
    /\ live' = live + 1
    /\ IF free # <<>>
       THEN /\ slots' = [slots EXCEPT ![Last(free)] = Holding(@, state)]
            /\ free' = Front(free)
       ELSE /\ slots' = Append(slots, [generation |-> 0, state |-> state])
            /\ UNCHANGED free

SetState(i, state) ==
    /\ slots' = [slots EXCEPT ![i] = Holding(@, state)]
    /\ UNCHANGED <<free, live>>

\* The index is not pushed on the free stack.
FaultyRemoveSlot(i) ==
    /\ slots' = [slots EXCEPT ![i] = Vacated(@)]
    /\ live' = live - 1
    /\ UNCHANGED free

RemoveSlot(i) ==
    /\ slots' = [slots EXCEPT ![i] = Vacated(@)]
    /\ free' = Append(free, i)
    /\ live' = live - 1

\* refuse_with
RefuseWith(i) ==
    /\ RemoveSlot(i)
    /\ pendingIncoming' = pendingIncoming - 1
    /\ outgoing' = Append(outgoing, FailureMsg(slots[i].state.peer))

\* The slot of the pending outgoing open that a reply names.
LocatedPending(i, n) ==
    i \in In("PendingOutgoing") /\ slots[i].state.local = n

\* A number below the counter may be the peer's own, too.
FaultyLocateReply(n) ==
    CASE \E i \in DOMAIN slots : LocatedPending(i, n) -> "Pending"
      [] \E i \in In("Established") : slots[i].state.local = n ->
             "DuplicateReply"
      [] (\A i \in HasLocal : slots[i].state.local # n)
         /\ Contains(tombstones, n) -> "Tombstone"
      [] OTHER ->
             IF \E i \in In("PendingIncoming") : slots[i].state.peer = n
             THEN "ReplyToIncoming"
             ELSE "UnknownRecipient"

\* locate_reply: what a reply naming n is about.  The last three answers are
\* violations.  (The number counter bounds ReplyToIncoming: a number below it
\* was ours.)
LocateReply(n) ==
    CASE \E i \in DOMAIN slots : LocatedPending(i, n) -> "Pending"
      [] \E i \in In("Established") : slots[i].state.local = n ->
             "DuplicateReply"
      [] (\A i \in HasLocal : slots[i].state.local # n)
         /\ Contains(tombstones, n) -> "Tombstone"
      [] OTHER ->
             IF /\ n >= nextLocal
                /\ \E i \in In("PendingIncoming") : slots[i].state.peer = n
             THEN "ReplyToIncoming"
             ELSE "UnknownRecipient"

\* What the handlers report for a peer's message m, "None" if it is legal.
Violation(m) ==
    IF m.kind # "OPEN" /\ LocateReply(m.recipient) \notin {"Pending", "Tombstone"}
    THEN LocateReply(m.recipient)
    ELSE IF m.kind # "FAILURE" /\ PeerNumberInUse(m.sender)
         THEN "DuplicatePeerNumber"
         ELSE "None"

\* consume_reply: the first tombstone of that number is consumed.
ConsumeTombstone(n) ==
    \E k \in DOMAIN tombstones :
        /\ tombstones[k] = n
        /\ \A j \in 1..(k - 1) : tombstones[j] # n
        /\ tombstones' = RemoveAt(tombstones, k)

\* pop_back instead of pop_front.
FaultyTrimmed(s) ==
    IF Len(s) > MaxTombstones THEN SubSeq(s, 1, MaxTombstones) ELSE s

\* The trimming loop of cancel.
Trimmed(s) ==
    IF Len(s) > MaxTombstones
    THEN SubSeq(s, Len(s) - MaxTombstones + 1, Len(s))
    ELSE s

----------------------------------------------------------------------------
(* Application commands.                                                   *)

Open ==
    /\ pendingOutgoing < MaxPendingOutgoing
    /\ live < MaxChannels
    /\ AllocateNumber
    /\ Insert(PendingOutgoing(nextLocal))
    /\ pendingOutgoing' = pendingOutgoing + 1
    /\ outgoing' = Append(outgoing, OpenMsg(nextLocal))
    /\ UNCHANGED <<tombstones, pendingIncoming>>

Cancel(h) ==
    /\ Resolves(h, "PendingOutgoing")
    /\ RemoveSlot(h.index)
    /\ pendingOutgoing' = pendingOutgoing - 1
    /\ tombstones' = Trimmed(Append(tombstones, slots[h.index].state.local))
    /\ UNCHANGED <<numbers, outgoing, pendingIncoming>>

Accept(h) ==
    /\ Resolves(h, "PendingIncoming")
    /\ AllocateNumber
    /\ LET p == slots[h.index].state.peer IN
       /\ SetState(h.index, Established(nextLocal, p))
       /\ outgoing' = Append(outgoing, ConfirmMsg(p, nextLocal))
    /\ pendingIncoming' = pendingIncoming - 1
    /\ UNCHANGED <<tombstones, pendingOutgoing>>

\* accept with no number left: the open is refused and Stale returned.
AcceptExhausted(h) ==
    /\ Resolves(h, "PendingIncoming")
    /\ numbersExhausted
    /\ RefuseWith(h.index)
    /\ UNCHANGED <<numbers, tombstones, pendingOutgoing>>

Refuse(h) ==
    /\ Resolves(h, "PendingIncoming")
    /\ RefuseWith(h.index)
    /\ UNCHANGED <<numbers, tombstones, pendingOutgoing>>

\* The order in which transport_lost vacates the live slots.  Exactly one
\* sequence qualifies.
SlotOrder(S) ==
    {s \in [1..Cardinality(S) -> S] :
        /\ \A j \in S : \E i \in DOMAIN s : s[i] = j
        /\ \A i, j \in DOMAIN s : i < j => s[i] < s[j]}

\* Tombstones and the number counter survive the transport.
TransportLost ==
    /\ slots' = [i \in DOMAIN slots |->
                    IF i \in LiveSlots THEN Vacated(slots[i]) ELSE slots[i]]
    /\ \E order \in SlotOrder(LiveSlots) : free' = free \o order
    /\ pendingOutgoing' = 0
    /\ pendingIncoming' = 0
    /\ live' = 0
    /\ outgoing' = <<>>
    /\ UNCHANGED <<numbers, tombstones>>

\* next_outgoing
NextOutgoing ==
    /\ outgoing # <<>>
    /\ outgoing' = Tail(outgoing)
    /\ UNCHANGED <<registry, counters, numbers, tombstones>>

----------------------------------------------------------------------------
(* Peer messages.                                                          *)

AtIncomingLimit ==
    pendingIncoming >= MaxPendingIncoming \/ live >= MaxChannels

HandleOpen(p) ==
    /\ ~PeerNumberInUse(p)
    /\ ~AtIncomingLimit
    /\ Insert(PendingIncoming(p))
    /\ pendingIncoming' = pendingIncoming + 1
    /\ UNCHANGED <<numbers, tombstones, outgoing, pendingOutgoing>>

\* The open is dropped without an answer.
FaultyHandleOpenByLimit(p) ==
    /\ ~PeerNumberInUse(p)
    /\ AtIncomingLimit
    /\ UNCHANGED vars

\* handle_open at a limit: refused without the application.
HandleOpenByLimit(p) ==
    /\ ~PeerNumberInUse(p)
    /\ AtIncomingLimit
    /\ outgoing' = Append(outgoing, FailureMsg(p))
    /\ UNCHANGED <<registry, counters, numbers, tombstones>>

\* The peer's number is not checked.
FaultyHandleConfirmation(n, p) ==
    /\ \E i \in DOMAIN slots :
          /\ LocatedPending(i, n)
          /\ SetState(i, Established(n, p))
    /\ pendingOutgoing' = pendingOutgoing - 1
    /\ UNCHANGED <<numbers, tombstones, outgoing, pendingIncoming>>

\* handle_open_confirmation naming a pending open.
HandleConfirmation(n, p) ==
    /\ ~PeerNumberInUse(p)
    /\ \E i \in DOMAIN slots :
          /\ LocatedPending(i, n)
          /\ SetState(i, Established(n, p))
    /\ pendingOutgoing' = pendingOutgoing - 1
    /\ UNCHANGED <<numbers, tombstones, outgoing, pendingIncoming>>

\* handle_open_failure naming a pending open.
HandleFailure(n) ==
    /\ \E i \in DOMAIN slots : LocatedPending(i, n) /\ RemoveSlot(i)
    /\ pendingOutgoing' = pendingOutgoing - 1
    /\ UNCHANGED <<numbers, tombstones, outgoing, pendingIncoming>>

\* A late confirmation brings the cancelled channel to life.
FaultyHandleLateConfirmation(n, p) ==
    /\ ~PeerNumberInUse(p)
    /\ LocateReply(n) = "Tombstone"
    /\ ConsumeTombstone(n)
    /\ Insert(Established(n, p))
    /\ UNCHANGED <<counters, numbers, outgoing>>

\* Either reply to a cancelled open: Event::LateReply.
HandleLateConfirmation(n, p) ==
    /\ ~PeerNumberInUse(p)
    /\ LocateReply(n) = "Tombstone"
    /\ ConsumeTombstone(n)
    /\ UNCHANGED <<registry, counters, numbers, outgoing>>

HandleLateFailure(n) ==
    /\ LocateReply(n) = "Tombstone"
    /\ ConsumeTombstone(n)
    /\ UNCHANGED <<registry, counters, numbers, outgoing>>

----------------------------------------------------------------------------
Init ==
    /\ slots = <<>>
    /\ free = <<>>
    /\ nextLocal = 0
    /\ numbersExhausted = FALSE
    /\ tombstones = <<>>
    /\ outgoing = <<>>
    /\ pendingOutgoing = 0
    /\ pendingIncoming = 0
    /\ live = 0

Command ==
    \/ Open
    \/ \E h \in Handle : Cancel(h)
    \/ \E h \in Handle : Accept(h)
    \/ \E h \in Handle : AcceptExhausted(h)
    \/ \E h \in Handle : Refuse(h)
    \/ TransportLost
    \/ NextOutgoing

PeerMessage ==
    \/ \E p \in Number : HandleOpen(p)
    \/ \E p \in Number : HandleOpenByLimit(p)
    \/ \E n, p \in Number : HandleConfirmation(n, p)
    \/ \E n \in Number : HandleFailure(n)
    \/ \E n, p \in Number : HandleLateConfirmation(n, p)
    \/ \E n \in Number : HandleLateFailure(n)

Next == Command \/ PeerMessage

Spec == Init /\ [][Next]_vars

----------------------------------------------------------------------------
(* Properties.                                                             *)

\* Types of the engine's fields.  No local number above the last one is
\* allocated and the slot indices on the free stack are those of slots.
TypeOK ==
    /\ slots \in Seq(Slot)
    /\ free \in Seq(1..MaxChannels)
    /\ nextLocal \in Number
    /\ numbersExhausted \in BOOLEAN
    /\ tombstones \in Seq(Number)
    /\ outgoing \in Seq(Message)
    /\ pendingOutgoing \in Nat
    /\ pendingIncoming \in Nat
    /\ live \in Nat

\* The free stack holds every vacant slot exactly once, so insert never
\* overwrites a live channel and remove never loses a slot.
FreeListExact ==
    /\ \A i \in DOMAIN free : free[i] \in In("None")
    /\ \A i, j \in DOMAIN free : free[i] = free[j] => i = j
    /\ \A k \in In("None") : \E i \in DOMAIN free : free[i] = k

\* The three hand-maintained counters the limits are tested against equal
\* what they count, on every path in and out of a phase (open, cancel,
\* accept, refusal, confirmation, failure, transport loss).
CountersExact ==
    /\ pendingOutgoing = Cardinality(In("PendingOutgoing"))
    /\ pendingIncoming = Cardinality(In("PendingIncoming"))
    /\ live = Cardinality(LiveSlots)

\* OpeningLimits hold in every state.  The slot vector itself never outgrows
\* max_channels either: memory is bounded by the limit, not by the history.
LimitsHold ==
    /\ pendingOutgoing <= MaxPendingOutgoing
    /\ pendingIncoming <= MaxPendingIncoming
    /\ live <= MaxChannels
    /\ Len(slots) <= MaxChannels
    /\ Len(tombstones) <= MaxTombstones

\* The limits are enforced on what the registry really holds: the counters
\* they are tested against are exact and never beyond them.
WithinLimits == CountersExact /\ LimitsHold

\* The registry is exact: types, free stack, counters and limits agree with
\* the slots after any history of opens, cancels, replies and losses.
RegistryExact == TypeOK /\ FreeListExact /\ WithinLimits

Allocated(n) == n < nextLocal \/ (numbersExhausted /\ n = MaxNumber)

\* A local number names at most one thing: one live channel, or one
\* tombstone, never both.  This is what makes the first match of
\* locate_reply's scan the only match, and every such number was allocated.
LocalNumbersUnique ==
    /\ numbersExhausted => nextLocal = MaxNumber
    /\ \A i \in HasLocal : Allocated(slots[i].state.local)
    /\ \A k \in DOMAIN tombstones : Allocated(tombstones[k])
    /\ \A i, j \in HasLocal :
          slots[i].state.local = slots[j].state.local => i = j
    /\ \A j, k \in DOMAIN tombstones :
          tombstones[j] = tombstones[k] => j = k
    /\ \A i \in HasLocal : \A k \in DOMAIN tombstones :
          slots[i].state.local # tombstones[k]

\* The peer's numbers are unique among its live channels, whatever the peer
\* sends: both handlers check before any state changes.
PeerNumbersUnique ==
    \A i, j \in HasPeer : slots[i].state.peer = slots[j].state.peer => i = j

\* A number of either side names at most one thing, whatever the peer sends
\* and up to and past the end of the number space.
NumbersUnique == LocalNumbersUnique /\ PeerNumbersUnique

============================================================================
