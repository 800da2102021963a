---------------------------- MODULE StreamModel ----------------------------
(***************************************************************************)
(* What a probe or an observer must make of a whole exchange: the          *)
(* reference readers and the expectation model of fuzz/protocol/src/       *)
(* tcp_support.rs (ident_ref, packet_ref, msg_ref, stream_gen::expect).    *)
(* They look at a finished stream, never at a buffer, so they know nothing *)
(* of partial lines, room or reads.                                        *)
(***************************************************************************)
EXTENDS Initial, FiniteSetsExt

\* RefReader::feed on line i of exchange x, all lines before it prelude.
RefLine(limits, x, i) ==
    LET l == x.lines[i] IN
    IF l.class # "Text"
    THEN IF l.len > limits.maxIdentificationLine THEN "IdentificationTooLong"
         ELSE CASE l.class = "Invalid"      -> "InvalidIdentification"
                [] l.class = "OtherVersion" -> "UnsupportedVersion"
                [] l.class = "Ssh2"         -> "Identification"
    ELSE IF l.len > limits.maxPreludeLine THEN "PreludeLineTooLong"
    ELSE IF i > limits.maxPreludeLines THEN "TooManyPreludeLines"
    ELSE IF l.from + l.len > limits.maxPreludeBytes THEN "PreludeBytesExceeded"
    ELSE "Prelude"

\* header and decode of packet_ref: cap, minimum, alignment, padding.
RefFrameOK(p) ==
    /\ p.packetLength <= MaxPacketLength
    /\ p.packetLength >= 12
    /\ \E blocks \in 0..(p.packetLength + 4) : p.packetLength + 4 = 8 * blocks
    /\ p.paddingLength \in 4..(p.packetLength - 1)

\* classify: an empty payload has no message number.
RefClassify(p) ==
    IF p.paddingLength = p.packetLength - 1 THEN "EmptyPayload"
    ELSE CASE p.message = "Other"                    -> "UnexpectedMessage"
           [] p.message \in {"NewKeys", "KexMethod"} -> "UnsupportedTransition"
           [] OTHER ->
                IF ~p.wellFormed THEN "Message"
                ELSE IF p.message \in {"KexInit", "Disconnect"} THEN p.message
                ELSE "Skipped"

\* model_step on packet i of exchange x, all packets before it skipped.
RefPacket(x, i) ==
    LET p == x.packets[i] IN
    IF ~RefFrameOK(p) THEN "Packet"
    ELSE IF i > MaxPackets THEN "PacketBudgetExceeded"
    ELSE IF p.from + p.packetLength + 4 > MaxBytes THEN "ByteBudgetExceeded"
    ELSE RefClassify(p)

----------------------------------------------------------------------------
Expectation(lines, packets, code) == [lines |-> lines, packets |-> packets, code |-> code]

\* The packets go on to the first that is not skipped.
ExpectPackets(x, lines) ==
    LET ends == {i \in DOMAIN x.packets : RefPacket(x, i) # "Skipped"}
    IN IF ends = {} THEN Expectation(lines, Len(x.packets), "Incomplete")
       ELSE Expectation(lines, Min(ends) - 1, RefPacket(x, Min(ends)))

\* expect: how many lines and how many skipped packets are reported, and how
\* it ends.  A client that starts with anything else than SSH- is unexpected
\* input to an observer.
Expect(x, limits, bannerOnly, isObserver) ==
    LET ends == {i \in DOMAIN x.lines : RefLine(limits, x, i) # "Prelude"}
        i == Min(ends)
    IN IF isObserver /\ x.lines # <<>> /\ x.lines[1].class = "Text"
       THEN Expectation(0, 0, "UnexpectedInput")
       ELSE IF ends = {} THEN Expectation(Len(x.lines), 0, "Incomplete")
       ELSE IF RefLine(limits, x, i) # "Identification"
            THEN Expectation(i - 1, 0, RefLine(limits, x, i))
       ELSE IF bannerOnly THEN Expectation(i, 0, "BannerOnly")
       ELSE ExpectPackets(x, i)

\* check_expectation: lines and packets are what was reported so far, code
\* how it ended, "None" if it did not.  All is read when read = x.size.
AgreesWith(exp, x, lines, packets, code, read) ==
    /\ lines <= exp.lines /\ packets <= exp.packets
    /\ code \in {"None", "Eof"} \/ <<exp.lines, exp.packets, exp.code>> = <<lines, packets, code>>
    /\ code = "Eof" /\ read = x.size =>
          <<exp.lines, exp.packets, exp.code>> = <<lines, packets, "Incomplete">>
=============================================================================
