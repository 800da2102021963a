---------------------------- MODULE OpeningModel ----------------------------
(***************************************************************************)
(* What the channel-opening engine promises: the reference model the       *)
(* project fuzzes it against (opening_model of fuzz/protocol/src/          *)
(* state_support.rs).  It knows channels by their numbers and handles as   *)
(* opaque tokens; it has no slots, generations, free stack or counters.    *)
(* OpeningHandles shows that the engine implements it.                     *)
(*                                                                         *)
(* pending_out, pending_in, established and live of the model are one set  *)
(* of channels here; a map over a number is the channels of a phase.       *)
(***************************************************************************)
EXTENDS Integers, FiniteSets, SequencesExt

CONSTANTS MaxPendingOutgoing, MaxPendingIncoming, MaxChannels, MaxTombstones,
          MaxNumber, Handle

VARIABLES
    nextLocal,         \* u64, so that exhaustion is representable
    channels,          \* the live channels, with their handles
    handles,           \* every handle ever issued
    tombstones,        \* cancelled numbers, oldest first
    expectedOutgoing   \* what the engine must hand out next

vars == <<nextLocal, channels, handles, tombstones, expectedOutgoing>>

Number == 0..MaxNumber
NoNumber == -1

Channel(h, phase, local, peer) ==
    [handle |-> h, phase |-> phase, local |-> local, peer |-> peer]
Of(phase) == {c \in channels : c.phase = phase}
Locals(phase) == {c.local : c \in Of(phase)}
Peers(phase) == {c.peer : c \in Of(phase)}

Message(kind, sender, recipient) ==
    [kind |-> kind, sender |-> sender, recipient |-> recipient]

----------------------------------------------------------------------------
(* The answers the model predicts.                                         *)

OpenError ==
    IF Cardinality(Of("PendingOutgoing")) >= MaxPendingOutgoing
    THEN "TooManyPendingOutgoing"
    ELSE IF Cardinality(channels) >= MaxChannels THEN "TooManyChannels"
    ELSE IF nextLocal > MaxNumber THEN "NumbersExhausted" ELSE "None"

\* phase_error: a handle of no live channel is stale.
PhaseError(h, wanted) ==
    IF \E c \in channels : c.handle = h /\ c.phase = wanted THEN "None"
    ELSE IF \E c \in channels : c.handle = h THEN "WrongPhase" ELSE "Stale"

PeerNumberLive(p) == p \in Peers("PendingIncoming") \cup Peers("Established")

ReplyTarget(n) ==
    IF n \in Locals("PendingOutgoing") THEN "Pending"
    ELSE IF n \in Locals("Established") THEN "DuplicateReply"
    ELSE IF Contains(tombstones, n) THEN "Tombstone"
    ELSE IF n >= nextLocal /\ n \in Peers("PendingIncoming") THEN "ReplyToIncoming"
    ELSE "UnknownRecipient"

\* What a message of the peer is answered with, "None" if it is legal.
Violation(m) ==
    LET target == ReplyTarget(m.recipient) IN
    IF m.kind # "OPEN" /\ target \notin {"Pending", "Tombstone"} THEN target
    ELSE IF m.kind # "FAILURE" /\ PeerNumberLive(m.sender)
    THEN "DuplicatePeerNumber" ELSE "None"

----------------------------------------------------------------------------
(* What each call does to the model.                                       *)

NoteFreshHandle(h) == h \notin handles /\ handles' = handles \cup {h}
Allocate == nextLocal <= MaxNumber /\ nextLocal' = nextLocal + 1
Expect(m) == expectedOutgoing' = Append(expectedOutgoing, m)
\* The oldest tombstone goes first; there is never more than one too many.
Tombstone(n) ==
    LET all == Append(tombstones, n)
    IN tombstones' = IF Len(all) <= MaxTombstones THEN all ELSE Tail(all)

Open ==
    /\ OpenError = "None"
    /\ Allocate
    /\ \E h \in Handle :
          /\ NoteFreshHandle(h)
          /\ channels' = channels \cup
                {Channel(h, "PendingOutgoing", nextLocal, NoNumber)}
    /\ Expect(Message("OPEN", nextLocal, NoNumber))
    /\ UNCHANGED tombstones

Cancel ==
    \E c \in Of("PendingOutgoing") :
        /\ channels' = channels \ {c}
        /\ Tombstone(c.local)
        /\ UNCHANGED <<nextLocal, handles, expectedOutgoing>>

Accept ==
    \E c \in Of("PendingIncoming") :
        /\ Allocate
        /\ channels' = (channels \ {c}) \cup
              {Channel(c.handle, "Established", nextLocal, c.peer)}
        /\ Expect(Message("CONFIRMATION", nextLocal, c.peer))
        /\ UNCHANGED <<handles, tombstones>>

\* refuse, and accept when no number is left.
Refuse ==
    \E c \in Of("PendingIncoming") :
        /\ channels' = channels \ {c}
        /\ Expect(Message("FAILURE", NoNumber, c.peer))
        /\ UNCHANGED <<nextLocal, handles, tombstones>>

TransportLost ==
    /\ channels' = {}
    /\ expectedOutgoing' = <<>>
    /\ UNCHANGED <<nextLocal, handles, tombstones>>

PeerOpen(p) ==
    /\ ~PeerNumberLive(p)
    /\ IF \/ Cardinality(Of("PendingIncoming")) >= MaxPendingIncoming
          \/ Cardinality(channels) >= MaxChannels
       THEN /\ Expect(Message("FAILURE", NoNumber, p))
            /\ UNCHANGED <<channels, handles>>
       ELSE /\ \E h \in Handle :
                  /\ NoteFreshHandle(h)
                  /\ channels' = channels \cup
                        {Channel(h, "PendingIncoming", NoNumber, p)}
            /\ UNCHANGED expectedOutgoing
    /\ UNCHANGED <<nextLocal, tombstones>>

\* consume_reply
Late(n) ==
    /\ ReplyTarget(n) = "Tombstone"
    /\ tombstones' = RemoveFirst(tombstones, n)
    /\ UNCHANGED <<nextLocal, channels, handles, expectedOutgoing>>

PeerConfirm(n, p) ==
    /\ ~PeerNumberLive(p)
    /\ \/ \E c \in Of("PendingOutgoing") :
             /\ c.local = n
             /\ channels' = (channels \ {c}) \cup
                   {Channel(c.handle, "Established", n, p)}
             /\ UNCHANGED <<nextLocal, handles, tombstones, expectedOutgoing>>
       \/ Late(n)

PeerFail(n) ==
    \/ \E c \in Of("PendingOutgoing") :
          /\ c.local = n
          /\ channels' = channels \ {c}
          /\ UNCHANGED <<nextLocal, handles, tombstones, expectedOutgoing>>
    \/ Late(n)

\* check_outgoing
CheckOutgoing ==
    /\ expectedOutgoing # <<>>
    /\ expectedOutgoing' = Tail(expectedOutgoing)
    /\ UNCHANGED <<nextLocal, channels, handles, tombstones>>

Init ==
    /\ nextLocal = 0
    /\ channels = {}
    /\ handles = {}
    /\ tombstones = <<>>
    /\ expectedOutgoing = <<>>

Next ==
    \/ Open \/ Cancel \/ Accept \/ Refuse \/ TransportLost \/ CheckOutgoing
    \/ \E p \in Number : PeerOpen(p)
    \/ \E n, p \in Number : PeerConfirm(n, p)
    \/ \E n \in Number : PeerFail(n)

Spec == Init /\ [][Next]_vars
=============================================================================
