-------------------------------- MODULE Gcm --------------------------------
(***************************************************************************)
(* Protected binary packets (crates/tatami_ssh_tcp/src/gcm.rs): one        *)
(* AeadDirection that seals, the AeadDirection of the other end that       *)
(* opens, and the byte stream between them.  The receiver's buffer holds   *)
(* the first `arrived' bytes of the stream, cut wherever a read ended.     *)
(*                                                                         *)
(* A packet is abstracted to what the two ends tell apart: the bytes it    *)
(* occupies, the length its clear field claims, its padding and payload    *)
(* lengths, the counter its nonce was made from and whether the stream     *)
(* still carries what was sealed.  The payload's identity is the packet's  *)
(* position among the sealed ones.                                         *)
(*                                                                         *)
(* The stream is not trusted: packets may be lost, repeated or altered in  *)
(* length field or body before they arrive, at most MaxFaults times.  AES- *)
(* GCM is the external primitive: a tag verifies exactly when the bytes    *)
(* are those sealed under the nonce the receiver expects.                  *)
(***************************************************************************)
EXTENDS Integers, Sequences, SequencesExt

CONSTANTS
    BlockSize, MinPadding, LengthLen, TagLen,
    MinPacketLength,
    LengthMax,          \* the largest uint32
    CounterMax,         \* the largest uint64
    MaxPacketLength,    \* PacketLimits::max_packet_length of the receiver
    PayloadLens,        \* payload lengths that are sealed
    OtherPaddings,      \* paddings another implementation may choose
    AlteredLengths,     \* what an altered length field may claim
    MaxWire, MaxFaults  \* bounds

ASSUME GcmConstants ==
    /\ BlockSize \in Nat \ {0} /\ MinPadding \in Nat /\ LengthLen \in Nat \ {0}
    /\ TagLen \in Nat /\ MinPacketLength \in Nat /\ LengthMax \in Nat
    /\ CounterMax \in Nat /\ MaxPacketLength \in Nat
    /\ PayloadLens \subseteq Nat /\ OtherPaddings \subseteq Nat
    /\ AlteredLengths \subseteq Nat /\ MaxWire \in Nat /\ MaxFaults \in Nat

\* What the receiver needs of the sender's framing: a block holds the smallest
\* packet, and the minimum padding fits a block.
ASSUME FramingConstants == MinPadding <= BlockSize /\ MinPacketLength = BlockSize

VARIABLES
    start,      \* the counter both ends read from the derived IV
    sender,     \* the sealing AeadDirection: counter and packets
    receiver,   \* the opening AeadDirection
    sealed,     \* history: every packet sealed, in order
    wire,       \* packets not yet consumed from the stream
    arrived,    \* bytes of `wire' in the receiver's buffer
    delivered,  \* history: identities of the payloads exposed, in order
    failed,     \* "no" or the OpenError that ended the receiving direction
    faults      \* how often the stream was altered

gcmVars == <<start, sender, receiver, sealed, wire, arrived, delivered,
             failed, faults>>

Direction(counter) == [counter |-> counter, packets |-> 0]

OpenErrors == {"TooLarge", "TooSmall", "Misaligned", "BadPadding",
               "TagMismatch", "CounterExhausted"}

ProtectedPacket == [id : Nat, size : Nat, length : Int, padding : Nat, payload : Int,
                    nonce : Nat, intact : BOOLEAN, ours : BOOLEAN]

-----------------------------------------------------------------------------
(* AeadDirection                                                           *)

FaultyCounterAvailable(dir) == TRUE

\* The counter's last value is never used.
CounterAvailable(dir) == dir.counter # CounterMax

\* `+= 1' on the u64 counter wraps; CounterAvailable guards every call.
Advance(dir) == [counter |-> (dir.counter + 1) % (CounterMax + 1),
                 packets |-> dir.packets + 1]

Unpadded(payload) == payload + 1

FaultyPadding(payload) == BlockSize - (Unpadded(payload) % BlockSize)

\* The padding that aligns packet_length, another block if below the minimum.
Padding(payload) ==
    LET fill == BlockSize - (Unpadded(payload) % BlockSize)
    IN  IF fill < MinPadding THEN fill + BlockSize ELSE fill

PacketLength(payload) == Unpadded(payload) + Padding(payload)

FaultyTotalLen(length) == LengthLen + length + TagLen + 1

TotalLen(length) == LengthLen + length + TagLen

Framed(payload, length, padding, ours) ==
    [id |-> Len(sealed) + 1, size |-> LengthLen + length + TagLen,
     length |-> length,
     padding |-> padding, payload |-> payload, nonce |-> sender.counter,
     intact |-> TRUE, ours |-> ours]

\* AEAD verification over nonce, clear length, body and tag.
Verifies(p) == p.intact /\ p.nonce = receiver.counter

-----------------------------------------------------------------------------

GcmInitAt(counter) ==
    /\ start = counter
    /\ sender = Direction(counter) /\ receiver = Direction(counter)
    /\ sealed = <<>> /\ wire = <<>> /\ arrived = 0
    /\ delivered = <<>> /\ failed = "no" /\ faults = 0

GcmInit == \E counter \in 0 .. CounterMax : GcmInitAt(counter)

SealedAs(p) ==
    /\ sealed' = Append(sealed, p)
    /\ wire' = Append(wire, p)
    /\ sender' = Advance(sender)
    /\ UNCHANGED <<start, receiver, arrived, delivered, failed, faults>>

\* AeadDirection::seal: a refusal (the counter at its last value, a length
\* that a uint32 cannot hold) leaves the direction and the stream as they were.
Seal(payload) ==
    /\ Len(wire) < MaxWire
    /\ CounterAvailable(sender)
    /\ PacketLength(payload) <= LengthMax
    /\ SealedAs(Framed(payload, PacketLength(payload), Padding(payload), TRUE))

\* External: another implementation that holds the keys seals a packet with
\* a padding of its own choice, which may be too short, too long or misaligned.
SealElsewhere(payload, padding) ==
    /\ Len(wire) < MaxWire
    /\ CounterAvailable(sender)
    /\ SealedAs(Framed(payload, payload + 1 + padding, padding, FALSE))

-----------------------------------------------------------------------------
(* The byte stream                                                         *)

Bytes(packets) == FoldLeft(LAMBDA sum, p : sum + p.size, 0, packets)

\* The bytes of the i-th packet are all still on their way.
Underway(i) == arrived <= Bytes(SubSeq(wire, 1, i - 1))

\* A read returns some of the bytes on their way.
Arrive ==
    /\ failed = "no"
    /\ arrived' \in arrived + 1 .. Bytes(wire)
    /\ UNCHANGED <<start, sender, receiver, sealed, wire, delivered, failed,
                   faults>>

\* Once the receiver has failed the connection is closed.
Alters ==
    /\ failed = "no"
    /\ faults < MaxFaults
    /\ faults' = faults + 1
    /\ UNCHANGED <<start, sender, receiver, sealed, arrived, delivered, failed>>

AlterBody(i) ==
    /\ Underway(i)
    /\ wire' = [wire EXCEPT ![i].intact = FALSE]
    /\ Alters

AlterLength(i, length) ==
    /\ Underway(i) /\ length # wire[i].length
    /\ wire' = [wire EXCEPT ![i].intact = FALSE, ![i].length = length]
    /\ Alters

Lose(i) ==
    /\ Underway(i)
    /\ wire' = RemoveAt(wire, i)
    /\ Alters

Repeat(i) ==
    /\ Len(wire) < MaxWire
    /\ wire' = Append(wire, sealed[i])
    /\ Alters

-----------------------------------------------------------------------------
(* AeadDirection::open.  With fewer bytes than the step needs it returns   *)
(* NeedMore and changes nothing.                                           *)

front == Head(wire)

LengthRead == failed = "no" /\ wire # <<>> /\ arrived >= LengthLen

\* The checks on the clear length, before the body is waited for.
LengthError ==
    IF front.length > MaxPacketLength THEN "TooLarge"
    ELSE IF front.length < MinPacketLength THEN "TooSmall"
    ELSE IF front.length % BlockSize # 0 THEN "Misaligned"
    ELSE "no"

Whole == LengthError = "no" /\ arrived >= TotalLen(front.length)

PaddingOk(p) == p.padding >= MinPadding /\ p.padding + 1 <= p.length

OpenRefused(error) ==
    /\ failed' = error
    /\ UNCHANGED <<start, sender, sealed, wire, arrived, delivered, faults>>

OpenBadLength ==
    /\ LengthRead /\ LengthError # "no"
    /\ OpenRefused(LengthError) /\ UNCHANGED receiver

OpenExhausted ==
    /\ LengthRead /\ Whole /\ ~CounterAvailable(receiver)
    /\ OpenRefused("CounterExhausted") /\ UNCHANGED receiver

OpenTagMismatch ==
    /\ LengthRead /\ Whole /\ CounterAvailable(receiver) /\ ~Verifies(front)
    /\ OpenRefused("TagMismatch") /\ UNCHANGED receiver

\* The counter has advanced by the time the padding is looked at.
OpenBadPadding ==
    /\ LengthRead /\ Whole /\ CounterAvailable(receiver) /\ Verifies(front)
    /\ ~PaddingOk(front)
    /\ OpenRefused("BadPadding") /\ receiver' = Advance(receiver)

Expose ==
    /\ LengthRead /\ Whole /\ CounterAvailable(receiver) /\ Verifies(front)
    /\ PaddingOk(front)
    /\ delivered' = Append(delivered, front.id)
    /\ wire' = Tail(wire)
    /\ arrived' = arrived - TotalLen(front.length)
    /\ UNCHANGED <<start, sender, sealed, failed, faults>>

FaultyOpenPacket == Expose /\ UNCHANGED receiver

\* The payload is exposed and the caller consumes total_len bytes.
OpenPacket == Expose /\ receiver' = Advance(receiver)

Open == \/ OpenBadLength \/ OpenExhausted \/ OpenTagMismatch
        \/ OpenBadPadding \/ OpenPacket

GcmNext ==
    \/ \E payload \in PayloadLens : Seal(payload)
    \/ \E payload \in PayloadLens, padding \in OtherPaddings :
          SealElsewhere(payload, padding)
    \/ Arrive
    \/ \E i \in 1 .. Len(wire) : AlterBody(i)
    \/ \E i \in 1 .. Len(wire), length \in AlteredLengths :
          AlterLength(i, length)
    \/ \E i \in 1 .. Len(wire) : Lose(i)
    \/ \E i \in 1 .. Len(sealed) : Repeat(i)
    \/ Open

GcmSpec == GcmInit /\ [][GcmNext]_gcmVars

-----------------------------------------------------------------------------
(* Properties                                                              *)

\* No two packets of a direction are sealed under one nonce, however many are
\* sealed and wherever the IV starts the counter (seal, counter_available).
NonceNeverReused ==
    \A i, j \in 1 .. Len(sealed) :
        sealed[i].nonce = sealed[j].nonce => i = j

\* Whatever the stream loses, repeats or alters, the payloads open exposes are
\* the first ones sealed, each once, in order and as they were sealed.
DeliveredInOrder ==
    /\ Len(delivered) <= Len(sealed)
    /\ \A i \in 1 .. Len(delivered) : delivered[i] = i

\* A packet made by seal, unaltered and next in turn, is never refused by
\* open, unless it exceeds the receiver's own length cap.
HonestFraming ==
    (/\ failed # "no" /\ front.ours /\ front.intact
     /\ front.id = Len(delivered) + 1)
    => failed = "TooLarge" /\ front.length > MaxPacketLength

\* While the stream is left alone, everything sealed is eventually exposed or
\* the receiver has failed, wherever the reads cut the packets.
SealedArrives ==
    \A i \in 1 .. MaxWire :
        (Len(sealed) >= i) ~> (\/ Len(delivered) >= i
                               \/ failed # "no" \/ faults > 0)
=============================================================================
