---------------------------- MODULE OpeningPair ----------------------------
(***************************************************************************)
(* Two opening engines, A and B, joined by a reliable FIFO transport that  *)
(* may be lost and replaced.  The bindings (not part of the repository:    *)
(* modelled from the engine's interface) move each engine's outgoing       *)
(* messages to the other one, report the loss of the transport to each     *)
(* side in its own time, and connect again once both have been told.       *)
(***************************************************************************)
EXTENDS Integers, SequencesExt

CONSTANTS MaxPendingOutgoing, MaxPendingIncoming, MaxChannels,
          MaxTombstones, MaxNumber, GenerationMod

ASSUME PairConstants ==
    /\ MaxPendingOutgoing \in Nat /\ MaxPendingIncoming \in Nat
    /\ MaxChannels \in Nat /\ MaxTombstones \in Nat
    /\ MaxNumber \in Nat /\ GenerationMod \in Nat \ {0}

VARIABLES
    slotsA, freeA, nextLocalA, numbersExhaustedA, tombstonesA, outgoingA,
    pendingOutgoingA, pendingIncomingA, liveA,
    slotsB, freeB, nextLocalB, numbersExhaustedB, tombstonesB, outgoingB,
    pendingOutgoingB, pendingIncomingB, liveB,
    linkAB, linkBA,  \* messages in flight, by direction
    told,            \* the sides told of the loss, while the transport is down
    up,              \* the transport is up
    cancelled        \* history: the local numbers each side cancelled, in order

varsA == <<slotsA, freeA, nextLocalA, numbersExhaustedA, tombstonesA,
           outgoingA, pendingOutgoingA, pendingIncomingA, liveA>>
varsB == <<slotsB, freeB, nextLocalB, numbersExhaustedB, tombstonesB,
           outgoingB, pendingOutgoingB, pendingIncomingB, liveB>>
transport == <<linkAB, linkBA, told, up>>
vars == <<varsA, varsB, transport, cancelled>>

A == INSTANCE Opening WITH
        slots <- slotsA, free <- freeA, nextLocal <- nextLocalA,
        numbersExhausted <- numbersExhaustedA, tombstones <- tombstonesA,
        outgoing <- outgoingA, pendingOutgoing <- pendingOutgoingA,
        pendingIncoming <- pendingIncomingA, live <- liveA

B == INSTANCE Opening WITH
        slots <- slotsB, free <- freeB, nextLocal <- nextLocalB,
        numbersExhausted <- numbersExhaustedB, tombstones <- tombstonesB,
        outgoing <- outgoingB, pendingOutgoing <- pendingOutgoingB,
        pendingIncoming <- pendingIncomingB, live <- liveB

Sides == {"A", "B"}

----------------------------------------------------------------------------
Init ==
    /\ A!Init /\ B!Init
    /\ linkAB = <<>> /\ linkBA = <<>>
    /\ told = {} /\ up = TRUE
    /\ cancelled = [s \in Sides |-> <<>>]

(* The applications.  Each owns its engine and may call it at any time,    *)
(* transport or not.                                                       *)

OpenA == A!Open /\ UNCHANGED <<varsB, transport, cancelled>>
OpenB == B!Open /\ UNCHANGED <<varsA, transport, cancelled>>

CancelA(h) ==
    /\ A!Cancel(h)
    /\ cancelled' = [cancelled EXCEPT !["A"] = Append(@, slotsA[h.index].state.local)]
    /\ UNCHANGED <<varsB, transport>>
CancelB(h) ==
    /\ B!Cancel(h)
    /\ cancelled' = [cancelled EXCEPT !["B"] = Append(@, slotsB[h.index].state.local)]
    /\ UNCHANGED <<varsA, transport>>

\* The decision an application owes every IncomingOpen event.
DecideA(h) ==
    /\ A!Accept(h) \/ A!AcceptExhausted(h) \/ A!Refuse(h)
    /\ UNCHANGED <<varsB, transport, cancelled>>
DecideB(h) ==
    /\ B!Accept(h) \/ B!AcceptExhausted(h) \/ B!Refuse(h)
    /\ UNCHANGED <<varsA, transport, cancelled>>

(* The bindings.                                                           *)

SendA ==
    /\ up
    /\ A!NextOutgoing
    /\ linkAB' = Append(linkAB, Head(outgoingA))
    /\ UNCHANGED <<varsB, linkBA, told, up, cancelled>>
SendB ==
    /\ up
    /\ B!NextOutgoing
    /\ linkBA' = Append(linkBA, Head(outgoingB))
    /\ UNCHANGED <<varsA, linkAB, told, up, cancelled>>

\* A decoded message goes to its handler; one that violates the protocol
\* leaves the engine as it is.
DeliverToA ==
    /\ linkBA # <<>>
    /\ linkBA' = Tail(linkBA)
    /\ LET m == Head(linkBA) IN
       \/ m.kind = "OPEN" /\ (A!HandleOpen(m.sender) \/ A!HandleOpenByLimit(m.sender))
       \/ m.kind = "CONFIRMATION" /\
            (\/ A!HandleConfirmation(m.recipient, m.sender)
             \/ A!HandleLateConfirmation(m.recipient, m.sender))
       \/ m.kind = "FAILURE" /\
            (A!HandleFailure(m.recipient) \/ A!HandleLateFailure(m.recipient))
       \/ A!Violation(m) # "None" /\ UNCHANGED varsA
    /\ UNCHANGED <<varsB, linkAB, told, up, cancelled>>
DeliverToB ==
    /\ linkAB # <<>>
    /\ linkAB' = Tail(linkAB)
    /\ LET m == Head(linkAB) IN
       \/ m.kind = "OPEN" /\ (B!HandleOpen(m.sender) \/ B!HandleOpenByLimit(m.sender))
       \/ m.kind = "CONFIRMATION" /\
            (\/ B!HandleConfirmation(m.recipient, m.sender)
             \/ B!HandleLateConfirmation(m.recipient, m.sender))
       \/ m.kind = "FAILURE" /\
            (B!HandleFailure(m.recipient) \/ B!HandleLateFailure(m.recipient))
       \/ B!Violation(m) # "None" /\ UNCHANGED varsB
    /\ UNCHANGED <<varsA, linkBA, told, up, cancelled>>

\* The transport fails: what is in flight is gone.
Lose ==
    /\ up
    /\ up' = FALSE
    /\ linkAB' = <<>> /\ linkBA' = <<>>
    /\ UNCHANGED <<varsA, varsB, told, cancelled>>

TellA ==
    /\ ~up /\ "A" \notin told
    /\ A!TransportLost
    /\ told' = told \cup {"A"}
    /\ UNCHANGED <<varsB, linkAB, linkBA, up, cancelled>>
TellB ==
    /\ ~up /\ "B" \notin told
    /\ B!TransportLost
    /\ told' = told \cup {"B"}
    /\ UNCHANGED <<varsA, linkAB, linkBA, up, cancelled>>

Reconnect ==
    /\ told = Sides
    /\ told' = {}
    /\ up' = TRUE
    /\ UNCHANGED <<varsA, varsB, linkAB, linkBA, cancelled>>

Applications ==
    \/ OpenA \/ OpenB
    \/ \E h \in A!Handle : CancelA(h) \/ CancelB(h) \/ DecideA(h) \/ DecideB(h)
Bindings ==
    \/ SendA \/ SendB \/ DeliverToA \/ DeliverToB
    \/ Lose \/ TellA \/ TellB \/ Reconnect
Next == Applications \/ Bindings

(* The bindings keep draining, delivering and reporting, and an            *)
(* application answers every IncomingOpen event, as the event's            *)
(* documentation demands.  Nobody has to open or cancel, and the transport *)
(* has to be neither lost nor kept.                                        *)
Fairness ==
    /\ WF_vars(SendA) /\ WF_vars(SendB)
    /\ WF_vars(DeliverToA) /\ WF_vars(DeliverToB)
    /\ WF_vars(TellA \/ TellB \/ Reconnect)
    /\ WF_vars(\E h \in A!Handle : DecideA(h))
    /\ WF_vars(\E h \in B!Handle : DecideB(h))

Spec == Init /\ [][Next]_vars /\ Fairness

----------------------------------------------------------------------------
(* Properties.                                                             *)

LongCancelled(s, m) ==
    /\ m.kind # "OPEN"
    /\ \E k \in 1..(Len(cancelled[s]) - MaxTombstones) :
          cancelled[s][k] = m.recipient

\* An engine never accuses a peer that runs the same engine, except over a
\* reply to an open cancelled so long ago that MaxTombstones others have been
\* cancelled since: that is the one case the module documentation reserves.
HonestPeerNeverAccused ==
    /\ linkBA # <<>> /\ A!Violation(Head(linkBA)) # "None"
       => LongCancelled("A", Head(linkBA))
    /\ linkAB # <<>> /\ B!Violation(Head(linkAB)) # "None"
       => LongCancelled("B", Head(linkAB))

\* Where the answer to open n of one side can be: its OPEN still under way,
\* the open pending at the other side, or the reply under way.
Opens(s, n)   == {i \in DOMAIN s : s[i].kind = "OPEN" /\ s[i].sender = n}
Replies(s, n) == {i \in DOMAIN s : s[i].kind # "OPEN" /\ s[i].recipient = n}
Awaiting(slots, n) ==
    {i \in DOMAIN slots : slots[i].state.phase = "PendingIncoming"
                          /\ slots[i].state.peer = n}
Carriers(toPeer, slotsPeer, fromPeer, n) ==
    Cardinality(Opens(toPeer, n)) + Cardinality(Awaiting(slotsPeer, n))
        + Cardinality(Replies(fromPeer, n))

\* Every outgoing open has exactly one answer coming while the transport is
\* up, and never two, however cancels, limits and losses interleave.
OneAnswerPerOpen ==
    /\ \A n \in A!Number :
          LET c == Carriers(linkAB \o outgoingA, slotsB, linkBA \o outgoingB, n) IN
          /\ c <= 1
          /\ up /\ (\E i \in DOMAIN slotsA : A!LocatedPending(i, n)) => c = 1
    /\ \A n \in B!Number :
          LET c == Carriers(linkBA \o outgoingB, slotsA, linkAB \o outgoingA, n) IN
          /\ c <= 1
          /\ up /\ (\E i \in DOMAIN slotsB : B!LocatedPending(i, n)) => c = 1

HasChannel(slots, n, p) ==
    \E i \in DOMAIN slots : slots[i].state = A!Established(n, p)

\* Both sides agree on a channel's existence and numbers: whatever one side
\* calls established is established at the other under the mirrored numbers,
\* or its confirmation is on its way, or the opener has cancelled it.
EstablishedAgree ==
    up =>
    /\ \A i \in A!In("Established") :
          LET n == slotsA[i].state.local  p == slotsA[i].state.peer IN
          \/ HasChannel(slotsB, p, n)
          \/ Contains(linkAB \o outgoingA, A!ConfirmMsg(p, n))
          \/ Contains(cancelled["B"], p)
    /\ \A i \in B!In("Established") :
          LET n == slotsB[i].state.local  p == slotsB[i].state.peer IN
          \/ HasChannel(slotsA, p, n)
          \/ Contains(linkBA \o outgoingB, A!ConfirmMsg(p, n))
          \/ Contains(cancelled["A"], p)

\* The two engines agree, whatever cancels, limits and losses interleave: one
\* answer per open and the same channels on both sides.
PairAgrees == OneAnswerPerOpen /\ EstablishedAgree

PendingA(n) == \E i \in DOMAIN slotsA : A!LocatedPending(i, n)

\* Every outgoing open is resolved in the end: established, refused,
\* cancelled or lost with the transport.  Both sides are the same engine
\* under the same fairness, so it is stated for A.
OpensResolved == \A n \in A!Number : PendingA(n) ~> ~PendingA(n)

============================================================================
