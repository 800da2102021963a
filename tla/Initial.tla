------------------------------ MODULE Initial ------------------------------
(***************************************************************************)
(* The pieces of the pre-NEWKEYS phase that the client probe and the       *)
(* server observer share (tatami_ssh_tcp): InputBuffer and InitialPackets  *)
(* of initial.rs, IdentificationReader of ident.rs, and the framing of     *)
(* initial packets of packet.rs.                                           *)
(*                                                                         *)
(* What the peer sends is an exchange: text lines, then packets.  A line   *)
(* or a packet is a record of what the code can tell about it: how many    *)
(* bytes it takes, where it starts, and what its bytes say.  A buffer is   *)
(* then a number: how many bytes from the front line or packet on have     *)
(* arrived and were not consumed.                                          *)
(***************************************************************************)
EXTENDS Integers, Sequences

CONSTANTS
    MaxPacketLength,  \* PacketLimits::max_packet_length
    MaxPackets,       \* InitialLimits::max_packets
    MaxBytes,         \* InitialLimits::max_bytes
    ReadChunk,        \* size of each socket read
    Exchanges         \* what a peer may send before it falls silent

INITIAL_BLOCK_SIZE == 8
MIN_TOTAL_LEN == 16
MIN_PADDING == 4
HEADER_LEN == 5
PREFIX_LEN == 4      \* of "SSH-"

Larger(a, b) == IF a >= b THEN a ELSE b
Smaller(a, b) == IF a <= b THEN a ELSE b

----------------------------------------------------------------------------
(* What the peer sends.                                                    *)

\* Ssh2 covers protocol versions 2.0 and 1.99; Text does not start with SSH-.
LineClass == {"Ssh2", "OtherVersion", "Invalid", "Text"}
Message == {"Ignore", "Debug", "Unimplemented", "Disconnect", "KexInit",
            "NewKeys", "KexMethod", "Other"}

\* A line is len bytes with its terminator.  Its first tell bytes show
\* whether it starts with SSH-.
Line == [class : LineClass, tell : 1..PREFIX_LEN, len : Nat, from : Nat]
\* wellFormed: the decoder of the message accepts the payload.
Packet == [packetLength : Nat, paddingLength : Nat, message : Message,
           wellFormed : BOOLEAN, from : Nat]

BadLength(p) ==
    \/ p.packetLength > MaxPacketLength
    \/ p.packetLength + 4 < MIN_TOTAL_LEN
    \/ (p.packetLength + 4) % INITIAL_BLOCK_SIZE # 0
PayloadLen(p) == p.packetLength - p.paddingLength - 1
BadPadding(p) == PayloadLen(p) < 0 \/ p.paddingLength < MIN_PADDING
BadHeader(p) == BadLength(p) \/ BadPadding(p)

\* Of a packet nobody will wait for, the peer sends the header.
PacketLen(p) == IF BadHeader(p) THEN HEADER_LEN ELSE p.packetLength + 4

\* Lines and packets follow one another without gaps; packets follow the
\* first line that starts with SSH-, and nothing follows a header that says
\* nothing about where the packet ends.
WellFormed(x) ==
    /\ x.lines \in Seq(Line) /\ x.packets \in Seq(Packet) /\ x.linesLen \in Nat
    /\ x.size \in Nat
    /\ \A i \in 1..Len(x.lines) :
          /\ x.lines[i].tell <= x.lines[i].len
          /\ x.lines[i].class # "Text" =>
                 i = Len(x.lines) /\ x.lines[i].tell = PREFIX_LEN
          /\ x.lines[i].from =
                 IF i = 1 THEN 0 ELSE x.lines[i-1].from + x.lines[i-1].len
          /\ i = Len(x.lines) => x.linesLen = x.lines[i].from + x.lines[i].len
    /\ x.lines = <<>> => x.linesLen = 0
    /\ \A i \in 1..Len(x.packets) :
          /\ x.packets[i].from =
                 IF i = 1 THEN 0
                 ELSE x.packets[i-1].from + PacketLen(x.packets[i-1])
          /\ BadHeader(x.packets[i]) => i = Len(x.packets)
          /\ i = Len(x.packets) =>
                 x.size = x.linesLen + x.packets[i].from + PacketLen(x.packets[i])
    /\ x.packets = <<>> => x.size = x.linesLen
    /\ x.packets # <<>> => x.lines # <<>> /\ x.lines[Len(x.lines)].class # "Text"

ASSUME InitialAssumption ==
    /\ MaxPacketLength \in Nat /\ MaxPackets \in Nat /\ MaxBytes \in Nat
    /\ ReadChunk \in Nat \ {0}
    /\ \A x \in Exchanges : WellFormed(x)

\* What stands at the front once everything was consumed: nothing of it
\* has arrived.
NoLine == [class |-> "Text", tell |-> 1, len |-> 1, from |-> 0]
NoPacket == [packetLength |-> 12, paddingLength |-> 4, message |-> "Other",
             wellFormed |-> TRUE, from |-> 0]
At(seq, i, none) == IF i <= Len(seq) THEN seq[i] ELSE none

----------------------------------------------------------------------------
(* IdentificationReader.  n is how many bytes from the front line on are   *)
(* buffered.                                                               *)

\* Some(true), Some(false) and None of starts_identification.
StartsIdentification(line, n) ==
    IF n < line.tell THEN "Unknown"
    ELSE IF line.class = "Text" THEN "No" ELSE "Yes"

LineLimit(limits, line, n) ==
    LET start == StartsIdentification(line, n)
    IN IF start = "Yes" THEN limits.maxIdentificationLine
       ELSE IF start = "No" THEN limits.maxPreludeLine
       ELSE Larger(limits.maxPreludeLine, limits.maxIdentificationLine)

\* A line without its terminator is refused only beyond the limit.
FaultyPartialLine(limits, line, n) ==
    IF n > LineLimit(limits, line, n)
    THEN IF StartsIdentification(line, n) = "Yes"
         THEN "IdentificationTooLong" ELSE "PreludeLineTooLong"
    ELSE "NeedMore"

PartialLine(limits, line, n) ==
    IF n >= LineLimit(limits, line, n)
    THEN IF StartsIdentification(line, n) = "Yes"
         THEN "IdentificationTooLong" ELSE "PreludeLineTooLong"
    ELSE "NeedMore"

ParseIdentification(line) ==
    IF line.class = "Invalid" THEN "InvalidIdentification"
    ELSE IF line.class = "OtherVersion" THEN "UnsupportedVersion"
    ELSE "Identification"

\* feed: lines and bytes are prelude_lines and prelude_bytes.
IdentFeed(limits, lines, bytes, line, n) ==
    IF n < line.len THEN PartialLine(limits, line, n)
    ELSE IF line.class # "Text"
         THEN IF line.len > limits.maxIdentificationLine
              THEN "IdentificationTooLong" ELSE ParseIdentification(line)
    ELSE IF line.len > limits.maxPreludeLine THEN "PreludeLineTooLong"
    ELSE IF lines >= limits.maxPreludeLines THEN "TooManyPreludeLines"
    ELSE IF bytes + line.len > limits.maxPreludeBytes THEN "PreludeBytesExceeded"
    ELSE "Prelude"

IdentError == {"PreludeLineTooLong", "TooManyPreludeLines", "PreludeBytesExceeded",
               "IdentificationTooLong", "InvalidIdentification", "UnsupportedVersion"}

----------------------------------------------------------------------------
(* decode_initial_packet and InitialPackets::step.  n is how many bytes    *)
(* from the front packet on are buffered.                                  *)

\* The padding is looked at only when the body is there.
FaultyDecodeInitialPacket(p, n) ==
    IF n < 4 THEN "NeedMore"
    ELSE IF BadLength(p) THEN "Packet"
    ELSE IF n < p.packetLength + 4 THEN "NeedMore"
    ELSE IF BadPadding(p) THEN "Packet"
    ELSE "Complete"

DecodeInitialPacket(p, n) ==
    IF n < 4 THEN "NeedMore"
    ELSE IF BadLength(p) THEN "Packet"
    ELSE IF n < HEADER_LEN THEN "NeedMore"
    ELSE IF BadPadding(p) THEN "Packet"
    ELSE IF n < p.packetLength + 4 THEN "NeedMore"
    ELSE "Complete"

Classify(p) ==
    IF PayloadLen(p) = 0 THEN "EmptyPayload"
    ELSE IF p.message \in {"NewKeys", "KexMethod"} THEN "UnsupportedTransition"
    ELSE IF p.message = "Other" THEN "UnexpectedMessage"
    ELSE IF ~p.wellFormed THEN "Message"
    ELSE IF p.message \in {"Ignore", "Debug", "Unimplemented"} THEN "Skipped"
    ELSE p.message

\* packets and bytes are what the decoder has accepted.
PacketsStep(packets, bytes, p, n) ==
    LET decoded == DecodeInitialPacket(p, n)
    IN IF decoded # "Complete" THEN decoded
       ELSE IF packets >= MaxPackets THEN "PacketBudgetExceeded"
       ELSE IF bytes + p.packetLength + 4 > MaxBytes THEN "ByteBudgetExceeded"
       ELSE Classify(p)

\* Whether the step counted the packet, whatever became of it.
Counted(verdict) == verdict \notin {"NeedMore", "Packet", "PacketBudgetExceeded",
                                    "ByteBudgetExceeded"}

PacketError == {"Packet", "PacketBudgetExceeded", "ByteBudgetExceeded", "EmptyPayload",
                "Message", "UnsupportedTransition", "UnexpectedMessage"}

----------------------------------------------------------------------------
(* Outcomes: bytes is what the outcome says of unconsumed input.           *)

Code == {"BannerOnly", "KexInit", "Disconnect", "UnexpectedInput", "Eof",
         "InputOverflow"} \union IdentError \union PacketError
Ended(code) == [code |-> code, stage |-> "None", bytes |-> 0, truncated |-> FALSE]
NoEnd == Ended("None")
=============================================================================
