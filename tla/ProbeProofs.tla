---------------------------- MODULE ProbeProofs ----------------------------
(***************************************************************************)
(* For every server, every limit and every way the stream is cut: the      *)
(* buffer of the probe always has room for the next read, so that no       *)
(* server can make it end with InputOverflow; every byte read is accounted *)
(* for; the prelude and packet budgets hold of the stream itself; the run  *)
(* that is returned says what the probe went past; and all of it is what   *)
(* the reference model expects of the whole stream.                        *)
(***************************************************************************)
EXTENDS Probe, WellFoundedInduction, TLAPS

(* What the operators of Initial promise, for every limit and every        *)
(* stream.  Probe and Observer name their state alike and cannot be        *)
(* extended together, so the facts are proved here once more.              *)

IdentLimits == [maxPreludeLines : Nat, maxPreludeBytes : Nat, maxPreludeLine : Nat,
                maxIdentificationLine : Nat]

\* feed asks for more only while the line is not complete and is shorter than
\* the limit that applies to it (ident.rs, IdentificationReader::feed).
LEMMA IdentNeedMore ==
    ASSUME NEW lim \in IdentLimits, NEW count \in Nat, NEW total \in Nat,
           NEW ln \in Line, NEW n \in Nat,
           IdentFeed(lim, count, total, ln, n) = "NeedMore"
    PROVE  n < ln.len /\ n < LineLimit(lim, ln, n)
<1>1. LineLimit(lim, ln, n) \in Nat
  BY DEF LineLimit, Larger, IdentLimits
<1>2. ln.len \in Nat
  BY DEF Line
<1>3. n < ln.len
  BY <1>2 DEF IdentFeed, ParseIdentification
<1>4. PartialLine(lim, ln, n) = "NeedMore"
  BY <1>3 DEF IdentFeed
<1>5. n < LineLimit(lim, ln, n)
  BY <1>1, <1>4 DEF PartialLine
<1> QED
  BY <1>3, <1>5

\* A line that is accepted is complete (ident.rs, IdentificationReader::feed).
LEMMA IdentComplete ==
    ASSUME NEW lim \in IdentLimits, NEW count \in Nat, NEW total \in Nat,
           NEW ln \in Line, NEW n \in Nat,
           IdentFeed(lim, count, total, ln, n) \in {"Identification", "Prelude"}
    PROVE  /\ n >= ln.len
           /\ IdentFeed(lim, count, total, ln, n) = "Identification"
                  => ln.class = "Ssh2"
           /\ IdentFeed(lim, count, total, ln, n) = "Prelude"
                  => /\ ln.class = "Text"
                     /\ ln.len <= lim.maxPreludeLine
                     /\ count < lim.maxPreludeLines
                     /\ total + ln.len <= lim.maxPreludeBytes
<1>1. ln.len \in Nat /\ ln.class \in LineClass
  BY DEF Line
<1>2. PartialLine(lim, ln, n) \notin {"Identification", "Prelude"}
  BY DEF PartialLine
<1>3. n >= ln.len
  BY <1>1, <1>2 DEF IdentFeed
<1>4. ParseIdentification(ln) # "Prelude"
  BY DEF ParseIdentification
<1>5. CASE IdentFeed(lim, count, total, ln, n) = "Identification"
  BY <1>1, <1>3, <1>5 DEF IdentFeed, ParseIdentification, LineClass
<1>6. CASE IdentFeed(lim, count, total, ln, n) = "Prelude"
  BY <1>1, <1>3, <1>4, <1>6 DEF IdentFeed, IdentLimits
<1> QED
  BY <1>5, <1>6

\* Every packet takes at least its header, and one with a good header exactly
\* what its length field says (packet.rs, decode_initial_packet).
LEMMA PacketLenAtLeast ==
    ASSUME NEW p \in Packet
    PROVE  /\ PacketLen(p) \in Nat
           /\ PacketLen(p) >= HEADER_LEN
           /\ ~BadHeader(p) => /\ PacketLen(p) = p.packetLength + 4
                               /\ p.packetLength <= MaxPacketLength
<1>1. p.packetLength \in Nat
  BY DEF Packet
<1>2. ~BadLength(p) => p.packetLength + 4 >= 16 /\ p.packetLength <= MaxPacketLength
  BY <1>1, InitialAssumption DEF BadLength, MIN_TOTAL_LEN
<1> QED
  BY <1>1, <1>2 DEF PacketLen, BadHeader, HEADER_LEN

\* The decoder asks for more only while the packet is not complete, and never
\* for more than the largest packet (packet.rs, decode_initial_packet).
LEMMA PacketNeedMore ==
    ASSUME NEW seen \in Nat, NEW total \in Nat, NEW p \in Packet, NEW n \in Nat,
           PacketsStep(seen, total, p, n) = "NeedMore"
    PROVE  n < PacketLen(p) /\ n < MaxPacketLength + HEADER_LEN
<1>1. p.packetLength \in Nat /\ MaxPacketLength \in Nat /\ p.message \in Message
  BY InitialAssumption DEF Packet
<1>2. Classify(p) # "NeedMore"
  BY <1>1 DEF Classify, Message
<1>3. DecodeInitialPacket(p, n) = "NeedMore"
  BY <1>2 DEF PacketsStep
<1>4. n < HEADER_LEN \/ (~BadHeader(p) /\ n < p.packetLength + 4)
  BY <1>1, <1>3 DEF DecodeInitialPacket, BadHeader, HEADER_LEN
<1> QED
  BY <1>1, <1>4, PacketLenAtLeast DEF HEADER_LEN

\* A packet the decoder looks into is complete and within its budgets
\* (initial.rs, InitialPackets::step).
LEMMA PacketComplete ==
    ASSUME NEW seen \in Nat, NEW total \in Nat, NEW p \in Packet, NEW n \in Nat,
           Counted(PacketsStep(seen, total, p, n))
    PROVE  /\ ~BadHeader(p)
           /\ n >= PacketLen(p)
           /\ seen + 1 <= MaxPackets
           /\ total + PacketLen(p) <= MaxBytes
<1>1. p.packetLength \in Nat /\ MaxPackets \in Nat /\ MaxBytes \in Nat
  BY InitialAssumption DEF Packet
<1>2. DecodeInitialPacket(p, n) \in {"NeedMore", "Packet", "Complete"}
  BY DEF DecodeInitialPacket
<1>3. DecodeInitialPacket(p, n) = "Complete"
  BY <1>2 DEF PacketsStep, Counted
<1>4. ~BadHeader(p) /\ n >= p.packetLength + 4
  BY <1>1, <1>3 DEF DecodeInitialPacket, BadHeader
<1>5. seen < MaxPackets /\ total + p.packetLength + 4 <= MaxBytes
  BY <1>1, <1>3 DEF PacketsStep, Counted
<1> QED
  BY <1>1, <1>4, <1>5, PacketLenAtLeast

----------------------------------------------------------------------------
(* Where the parts of an exchange are.                                     *)

\* Where the i-th line starts; where the i-th packet starts, counted from the
\* first; and where the l-th line or, after the lines, the p-th packet is in
\* what the server sends.
LineStart(x, i) == IF i <= Len(x.lines) THEN x.lines[i].from ELSE x.linesLen
StartOf(x, i) == IF i <= Len(x.packets) THEN x.packets[i].from ELSE x.size - x.linesLen
PositionOf(x, l, p) == IF l <= Len(x.lines) THEN x.lines[l].from
                       ELSE x.linesLen + StartOf(x, p)

\* Packets follow one another: each starts where the one before it ends, and
\* the stream ends with the last one.
LEMMA NextPacket ==
    ASSUME NEW x, WellFormed(x), NEW i \in 1..Len(x.packets)
    PROVE  /\ x.packets[i] \in Packet
           /\ StartOf(x, i) \in Nat
           /\ StartOf(x, i + 1) = StartOf(x, i) + PacketLen(x.packets[i])
<1>1. x.packets \in Seq(Packet) /\ x.linesLen \in Nat /\ x.size \in Nat
  BY DEF WellFormed
<1>2. x.packets[i] \in Packet /\ Len(x.packets) \in Nat
  BY <1>1
<1>3. x.packets[i].from \in Nat /\ PacketLen(x.packets[i]) \in Nat
  BY <1>2, PacketLenAtLeast DEF Packet
<1>4. StartOf(x, i) = x.packets[i].from
  BY <1>2 DEF StartOf
<1>5. CASE i < Len(x.packets)
  <2>1. i + 1 \in 1..Len(x.packets) /\ i + 1 # 1 /\ (i + 1) - 1 = i
    BY <1>2, <1>5
  <2>2. x.packets[i + 1].from = x.packets[i].from + PacketLen(x.packets[i])
    BY <2>1 DEF WellFormed
  <2> QED
    BY <1>2, <1>3, <1>4, <2>1, <2>2 DEF StartOf
<1>6. CASE i = Len(x.packets)
  <2>1. x.size = x.linesLen + x.packets[i].from + PacketLen(x.packets[i])
    BY <1>6 DEF WellFormed
  <2> QED
    BY <1>1, <1>2, <1>3, <1>4, <1>6, <2>1 DEF StartOf
<1> QED
  BY <1>2, <1>5, <1>6

\* The first packet starts where the lines end.
LEMMA FirstPacket ==
    ASSUME NEW x, WellFormed(x)
    PROVE  StartOf(x, 1) = 0
<1>1. x.packets \in Seq(Packet) /\ x.linesLen \in Nat /\ x.size \in Nat
  BY DEF WellFormed
<1>2. CASE x.packets = <<>>
  BY <1>1, <1>2 DEF StartOf, WellFormed
<1>3. CASE x.packets # <<>>
  <2>1. 1 \in 1..Len(x.packets)
    BY <1>1, <1>3
  <2> QED
    BY <2>1 DEF StartOf, WellFormed
<1> QED
  BY <1>2, <1>3

\* Lines follow one another: each starts where the one before it ends, and
\* only the last is no text.
LEMMA NextLine ==
    ASSUME NEW x, WellFormed(x), NEW i \in 1..Len(x.lines)
    PROVE  /\ x.lines[i] \in Line
           /\ x.lines[i].len \in Nat /\ x.lines[i].len >= 1
           /\ LineStart(x, i) \in Nat
           /\ LineStart(x, i + 1) = LineStart(x, i) + x.lines[i].len
           /\ x.lines[i].class # "Text" => i = Len(x.lines)
<1>1. x.lines \in Seq(Line) /\ x.linesLen \in Nat
  BY DEF WellFormed
<1>2. x.lines[i] \in Line /\ Len(x.lines) \in Nat
  BY <1>1
<1>3. /\ x.lines[i].from \in Nat /\ x.lines[i].len \in Nat /\ x.lines[i].tell \in 1..4
      /\ x.lines[i].tell <= x.lines[i].len
  BY <1>2 DEF WellFormed, Line, PREFIX_LEN
<1>4. x.lines[i].class # "Text" => i = Len(x.lines)
  BY DEF WellFormed
<1>5. LineStart(x, i) = x.lines[i].from
  BY <1>2 DEF LineStart
<1>6. CASE i < Len(x.lines)
  <2>1. i + 1 \in 1..Len(x.lines) /\ i + 1 # 1 /\ (i + 1) - 1 = i
    BY <1>2, <1>6
  <2>2. x.lines[i + 1].from = x.lines[i].from + x.lines[i].len
    BY <2>1 DEF WellFormed
  <2>3. LineStart(x, i + 1) = x.lines[i].from + x.lines[i].len
    BY <1>2, <2>1, <2>2 DEF LineStart
  <2> QED
    BY <1>2, <1>3, <1>4, <1>5, <2>3
<1>7. CASE i = Len(x.lines)
  <2>1. x.linesLen = x.lines[i].from + x.lines[i].len
    BY <1>7 DEF WellFormed
  <2>2. LineStart(x, i + 1) = x.linesLen
    BY <1>2, <1>7 DEF LineStart
  <2> QED
    BY <1>2, <1>3, <1>4, <1>5, <2>1, <2>2
<1> QED
  BY <1>2, <1>6, <1>7

\* Every position is a number, the first packet stands where the lines end,
\* and a stream without packets ends there.
LEMMA Positions ==
    ASSUME NEW x, WellFormed(x), NEW l \in 1..(Len(x.lines) + 1),
           NEW p \in 1..(Len(x.packets) + 1)
    PROVE  /\ Len(x.lines) \in Nat /\ Len(x.packets) \in Nat
           /\ x.linesLen \in Nat /\ x.size \in Nat
           /\ LineStart(x, l) \in Nat
           /\ StartOf(x, p) \in Nat
           /\ PositionOf(x, l, p) \in Nat
           /\ p = 1 => PositionOf(x, l, p) = LineStart(x, l)
           /\ l = Len(x.lines) + 1 => PositionOf(x, l, p) = x.linesLen + StartOf(x, p)
<1>1. /\ x.lines \in Seq(Line) /\ x.linesLen \in Nat /\ x.packets \in Seq(Packet)
      /\ x.size \in Nat /\ Len(x.lines) \in Nat /\ Len(x.packets) \in Nat
  BY DEF WellFormed
<1>2. LineStart(x, l) \in Nat
  <2>1. CASE l <= Len(x.lines)
    <3>1. l \in 1..Len(x.lines)
      BY <1>1, <2>1
    <3> QED
      BY <3>1, NextLine
  <2>2. CASE ~(l <= Len(x.lines))
    BY <1>1, <2>2 DEF LineStart
  <2> QED
    BY <2>1, <2>2
<1>3. StartOf(x, p) \in Nat
  <2>1. CASE p <= Len(x.packets)
    <3>1. p \in 1..Len(x.packets)
      BY <1>1, <2>1
    <3> QED
      BY <3>1, NextPacket
  <2>2. CASE p = 1
    BY <2>2, FirstPacket
  <2>3. CASE ~(p <= Len(x.packets)) /\ p # 1
    <3>1. p = Len(x.packets) + 1 /\ Len(x.packets) \in 1..Len(x.packets)
      BY <1>1, <2>3
    <3>2. /\ StartOf(x, Len(x.packets)) \in Nat
          /\ x.packets[Len(x.packets)] \in Packet
          /\ StartOf(x, Len(x.packets) + 1)
                = StartOf(x, Len(x.packets)) + PacketLen(x.packets[Len(x.packets)])
      BY <3>1, NextPacket
    <3>3. PacketLen(x.packets[Len(x.packets)]) \in Nat
      BY <3>2, PacketLenAtLeast
    <3> QED
      BY <3>1, <3>2, <3>3
  <2> QED
    BY <2>1, <2>2, <2>3
<1>4. /\ l <= Len(x.lines) => PositionOf(x, l, p) = LineStart(x, l)
      /\ l = Len(x.lines) + 1 => /\ PositionOf(x, l, p) = x.linesLen + StartOf(x, p)
                                 /\ LineStart(x, l) = x.linesLen
  BY <1>1 DEF PositionOf, LineStart
<1>5. p = 1 => StartOf(x, p) = 0
  BY FirstPacket
<1> QED
  BY <1>1, <1>2, <1>3, <1>4, <1>5, SMTT(20)

----------------------------------------------------------------------------
(* The probe.                                                              *)

Stage == {"Identification", "InitialPackets", "Finished"}
OutcomeType == [code : Code \union {"None"}, stage : Stage \union {"None"},
                bytes : Nat, truncated : BOOLEAN]
ConnectErrors == {"Resolve", "NoAddresses", "ConnectTimedOut", "AllAttemptsFailed", "Setup"}
RunEnd == {"None", "Probe", "TimedOut", "Io"} \union ConnectErrors

\* The probe's part of the type invariant.
ProbeType ==
    /\ WellFormed(exchange)
    /\ line \in 1..(Len(exchange.lines) + 1)
    /\ packet \in 1..(Len(exchange.packets) + 1)
    /\ buffered \in 0..Capacity
    /\ stage \in Stage /\ preludeLines \in Nat /\ preludeBytes \in Nat
    /\ packets \in Nat /\ bytes \in Nat
    /\ end \in OutcomeType
    /\ bytesRead \in 0..exchange.size

\* The driver's part.
DriverType ==
    /\ pc \in {"Connect", "Write", "Step", "Read", "Returned"}
    /\ addresses \in Nat /\ failures \in Nat
    /\ runEnd \in RunEnd /\ runStage \in Stage
    /\ pendingBytes \in Nat /\ events \in Nat /\ expired \in BOOLEAN

\* Every variable has its type.
TypeOK == ProbeType /\ DriverType

\* The identification was consumed.
Identified == line > 1 /\ exchange.lines[line - 1].class # "Text"

\* What the properties rest on: the stage follows from the line at the front;
\* the prelude counters are its number and its position, as long as it was
\* not the identification; the counters of the packets are those of the front
\* packet; and a driver about to read was told that more is needed.
Inv ==
    /\ TypeOK
    /\ ~Identified => packet = 1
    /\ end = NoEnd => stage = IF Identified THEN "InitialPackets" ELSE "Identification"
    /\ end = NoEnd /\ ~Identified =>
          preludeLines = line - 1 /\ preludeBytes = LineStart(exchange, line)
    /\ end = NoEnd => packets = packet - 1 /\ bytes = PacketStart
    /\ end.code # "InputOverflow"
    /\ pc = "Read" => NeedMore
    /\ pc # "Returned" => runEnd = "None"
    /\ BytesAccounted
    /\ BudgetsHeld

USE ProbeAssumption, InitialAssumption

\* The configured limits are numbers.
LEMMA Limits == limits \in IdentLimits
BY DEF limits, IdentLimits

\* An outcome has the code it was made with.
LEMMA EndedType ==
    ASSUME NEW code \in Code \union {"None"}
    PROVE  Ended(code) \in OutcomeType /\ Ended(code).code = code
BY DEF Ended, OutcomeType

\* buffer_capacity leaves room for the longest line and the largest packet.
LEMMA CapacityNat ==
    /\ Capacity \in Nat
    /\ Capacity >= MaxPacketLength + HEADER_LEN
    /\ Capacity >= MaxIdentificationLine /\ Capacity >= MaxPreludeLine
BY DEF Capacity, Larger, HEADER_LEN, PREFIX_LEN

\* The front of the buffer in terms of positions.
LEMMA Front ==
    ASSUME ProbeType
    PROVE  /\ PacketStart = StartOf(exchange, packet)
           /\ Position = PositionOf(exchange, line, packet)
           /\ Position \in Nat /\ PacketStart \in Nat /\ buffered \in Nat
           /\ Identified => line = Len(exchange.lines) + 1
           /\ packet = 1 => Position = LineStart(exchange, line)
           /\ line = Len(exchange.lines) + 1
                 => Position = exchange.linesLen + PacketStart
<1>1. PacketStart = StartOf(exchange, packet)
  BY DEF PacketStart, StartOf
<1>2. Position = PositionOf(exchange, line, packet)
  BY <1>1 DEF Position, PositionOf
<1>3. /\ WellFormed(exchange) /\ line \in 1..(Len(exchange.lines) + 1)
      /\ packet \in 1..(Len(exchange.packets) + 1) /\ buffered \in Nat
  BY CapacityNat DEF ProbeType
<1>4. ASSUME Identified PROVE line = Len(exchange.lines) + 1
  <2>1. Len(exchange.lines) \in Nat
    BY <1>3 DEF WellFormed
  <2>2. line - 1 \in 1..Len(exchange.lines)
    BY <1>3, <1>4, <2>1 DEF Identified
  <2>3. line - 1 = Len(exchange.lines)
    BY <1>3, <1>4, <2>2, NextLine DEF Identified
  <2> QED
    BY <1>3, <2>1, <2>3
<1> QED
  BY <1>1, <1>2, <1>3, <1>4, Positions

\* Before the identification a line stands at the front, and it is there as
\* soon as a byte of it was read.
LEMMA FrontLine ==
    ASSUME ProbeType, packet = 1, ~Identified, bytesRead = Position + buffered
    PROVE  /\ frontLine \in Line
           /\ buffered > 0 => /\ line \in 1..Len(exchange.lines)
                              /\ frontLine = exchange.lines[line]
<1>1. /\ WellFormed(exchange) /\ exchange.lines \in Seq(Line) /\ Len(exchange.lines) \in Nat
      /\ exchange.packets \in Seq(Packet)
      /\ exchange.size \in Nat /\ exchange.linesLen \in Nat /\ bytesRead \in 0..exchange.size
      /\ line \in 1..(Len(exchange.lines) + 1) /\ buffered \in Nat
  BY CapacityNat DEF ProbeType, WellFormed
<1>2. NoLine \in Line
  BY DEF NoLine, Line, LineClass, PREFIX_LEN
<1>3. frontLine \in Line
  <2>1. CASE line <= Len(exchange.lines)
    BY <1>1, <2>1 DEF frontLine, At
  <2>2. CASE ~(line <= Len(exchange.lines))
    BY <1>2, <2>2 DEF frontLine, At
  <2> QED
    BY <2>1, <2>2
<1>4. ASSUME buffered > 0
      PROVE  line \in 1..Len(exchange.lines)
  <2> SUFFICES ASSUME line = Len(exchange.lines) + 1
               PROVE  FALSE
    BY <1>1, SMTT(20)
  <2>1. exchange.lines # <<>> => exchange.lines[Len(exchange.lines)].class = "Text"
    BY <1>1 DEF Identified
  <2>2. exchange.packets = <<>>
    BY <1>1, <2>1 DEF WellFormed
  <2>3. exchange.size = exchange.linesLen
    BY <1>1, <2>2 DEF WellFormed
  <2>4. Position = exchange.linesLen + PacketStart /\ PacketStart \in Nat
    BY Front
  <2> QED
    BY <1>1, <1>4, <2>3, <2>4
<1>5. ASSUME buffered > 0
      PROVE  frontLine = exchange.lines[line]
  BY <1>1, <1>4, <1>5 DEF frontLine, At
<1> QED
  BY <1>3, <1>4, <1>5

\* After the identification a packet stands there.
LEMMA FrontPacket ==
    ASSUME ProbeType, Identified, bytesRead = Position + buffered
    PROVE  /\ frontPacket \in Packet
           /\ buffered > 0 => /\ packet \in 1..Len(exchange.packets)
                              /\ frontPacket = exchange.packets[packet]
<1>1. /\ exchange.packets \in Seq(Packet) /\ Len(exchange.packets) \in Nat
      /\ exchange.size \in Nat /\ exchange.linesLen \in Nat
      /\ packet \in 1..(Len(exchange.packets) + 1)
      /\ bytesRead \in 0..exchange.size /\ buffered \in Nat
  BY CapacityNat DEF ProbeType, WellFormed
<1>2. NoPacket \in Packet
  BY DEF NoPacket, Packet, Message
<1>3. frontPacket \in Packet
  <2>1. CASE packet <= Len(exchange.packets)
    BY <1>1, <2>1 DEF frontPacket, At
  <2>2. CASE ~(packet <= Len(exchange.packets))
    BY <1>2, <2>2 DEF frontPacket, At
  <2> QED
    BY <2>1, <2>2
<1>4. ASSUME buffered > 0
      PROVE  packet \in 1..Len(exchange.packets)
  <2>1. Position = exchange.linesLen + PacketStart
    BY Front
  <2> QED
    BY <1>1, <1>4, <2>1 DEF PacketStart
<1>5. ASSUME buffered > 0
      PROVE  frontPacket = exchange.packets[packet]
  BY <1>1, <1>4, <1>5 DEF frontPacket, At
<1> QED
  BY <1>3, <1>4, <1>5

\* NeedMore leaves room: the limits bound what can be waited for.
LEMMA NeedMoreLeavesRoom ==
    ASSUME Inv, NeedMore
    PROVE  buffered < Capacity
<1>1. ProbeType /\ buffered \in Nat /\ bytesRead = Position + buffered
  BY CapacityNat DEF Inv, TypeOK, ProbeType, BytesAccounted
<1>2. CASE NeedsIdentification /\ IdentStep = "NeedMore"
  <2>1. ~Identified /\ packet = 1
    BY <1>2 DEF Inv, NeedsIdentification
  <2>2. frontLine \in Line
    BY <1>1, <2>1, FrontLine
  <2>3. buffered < LineLimit(limits, frontLine, buffered)
    BY <1>1, <1>2, <2>2, Limits, IdentNeedMore DEF IdentStep, ProbeType
  <2>4. LineLimit(limits, frontLine, buffered) \in {MaxIdentificationLine, MaxPreludeLine}
    BY DEF LineLimit, limits, Larger
  <2> QED
    BY <1>1, <2>3, <2>4, CapacityNat
<1>3. CASE NeedsPackets /\ PacketStep = "NeedMore"
  <2>1. Identified
    BY <1>3 DEF Inv, NeedsPackets
  <2>2. frontPacket \in Packet
    BY <1>1, <2>1, FrontPacket
  <2>3. buffered < MaxPacketLength + HEADER_LEN
    BY <1>1, <1>3, <2>2, PacketNeedMore DEF PacketStep, ProbeType
  <2> QED
    BY <1>1, <2>3, CapacityNat DEF HEADER_LEN
<1> QED
  BY <1>2, <1>3 DEF NeedMore

\* What the driver asks for fits once there is room for a byte.
LEMMA WantFits ==
    ASSUME buffered \in Nat, buffered < Capacity
    PROVE  want \in Nat /\ want >= 1 /\ want <= Room
BY CapacityNat DEF want, Larger, Smaller, Room

----------------------------------------------------------------------------
(* The driver's own variables, and the steps that leave the probe alone.   *)

\* Every step keeps the types of the driver's variables.
LEMMA DriverTypeStep ==
    ASSUME TypeOK, [Next]_vars
    PROVE  DriverType'
<1> DriverType /\ stage \in Stage /\ buffered \in Nat
  BY CapacityNat DEF TypeOK, ProbeType
<1> USE DEF DriverType, run, connection, Return, Goto, RunEnd, ConnectErrors
<1>1. CASE ConnectGivesUp  BY <1>1 DEF ConnectGivesUp
<1>2. CASE AttemptFails  BY <1>2 DEF AttemptFails
<1>3. CASE Connected  BY <1>3 DEF Connected
<1>4. CASE SetupFails  BY <1>4 DEF SetupFails
<1>5. CASE WriteIdentification  BY <1>5 DEF WriteIdentification
<1>6. CASE WriteFails  BY <1>6 DEF WriteFails, GiveUp
<1>7. CASE StepEvent  BY <1>7 DEF StepEvent
<1>8. CASE StepFinished  BY <1>8 DEF StepFinished
<1>9. CASE StepNeedMore  BY <1>9 DEF StepNeedMore
<1>10. CASE ReadTimesOut  BY <1>10 DEF ReadTimesOut, GiveUp
<1>11. CASE Read  BY <1>11 DEF Read
<1>12. CASE ReadEof  BY <1>12 DEF ReadEof
<1>13. CASE ReadInterrupted  BY <1>13 DEF ReadInterrupted
<1>14. CASE ReadFails  BY <1>14 DEF ReadFails, GiveUp
<1>15. CASE Expire  BY <1>15 DEF Expire
<1>16. CASE UNCHANGED vars  BY <1>16 DEF vars
<1> QED
  BY <1>1, <1>2, <1>3, <1>4, <1>5, <1>6, <1>7, <1>8, <1>9, <1>10, <1>11, <1>12, <1>13,
     <1>14, <1>15, <1>16 DEF Next, Connect, Drive, Server, Returned

\* A step of the driver that leaves the probe alone.  A timeout reports what
\* is buffered.
LEMMA SameProbe ==
    ASSUME Inv, DriverType', UNCHANGED <<probe, exchange, bytesRead>>,
           pc' = "Read" => NeedMore,
           pc' # "Returned" => runEnd' = "None",
           runEnd' = "TimedOut" => \/ runEnd = "TimedOut" /\ pendingBytes' = pendingBytes
                                   \/ pendingBytes' = buffered
    PROVE  Inv'
<1>1. TypeOK'
  <2>1. ProbeType /\ WellFormed(exchange)'
    BY DEF Inv, TypeOK, ProbeType, WellFormed
  <2>2. ProbeType'
    BY <2>1 DEF ProbeType, probe
  <2> QED
    BY <2>2 DEF TypeOK
<1>2. /\ NeedMore' = NeedMore /\ Position' = Position /\ PacketStart' = PacketStart
      /\ Identified' = Identified
      /\ LineStart(exchange, line)' = LineStart(exchange, line)
  BY DEF probe, NeedMore, NeedsIdentification, NeedsPackets, IdentStep, PacketStep,
         frontLine, frontPacket, limits, Position, PacketStart, Identified, LineStart
<1>3. BytesAccounted'
  BY <1>2 DEF Inv, BytesAccounted, probe
<1>4. BudgetsHeld'
  BY <1>2 DEF Inv, BudgetsHeld, probe
<1> QED
  BY <1>1, <1>2, <1>3, <1>4 DEF Inv, probe

\* A step that ends the probe without consuming anything.
LEMMA EndsHere ==
    ASSUME Inv, DriverType', end = NoEnd,
           UNCHANGED <<line, packet, buffered, preludeLines, preludeBytes, exchange, bytesRead>>,
           packets' \in Nat, bytes' \in Nat, stage' = "Finished",
           end' \in OutcomeType,
           end'.code \notin {"None", "InputOverflow", "KexInit"},
           end'.code = "Eof" => end'.bytes = buffered,
           pc' = "Returned", runEnd' = "Probe"
    PROVE  Inv'
<1>1. /\ Position' = Position /\ bytesRead = Position + buffered
      /\ Identified' = Identified
  BY DEF Position, PacketStart, Inv, BytesAccounted, Identified
<1>2. TypeOK'
  <2>1. ProbeType /\ WellFormed(exchange)'
    BY DEF Inv, TypeOK, ProbeType, WellFormed
  <2>2. ProbeType'
    BY <2>1 DEF ProbeType, Stage
  <2> QED
    BY <2>2 DEF TypeOK
<1>3. BytesAccounted'
  BY <1>1 DEF BytesAccounted
<1>4. BudgetsHeld'
  BY <1>1 DEF Inv, BudgetsHeld
<1>5. end' # NoEnd
  BY DEF NoEnd, Ended
<1> QED
  BY <1>1, <1>2, <1>3, <1>4, <1>5 DEF Inv

----------------------------------------------------------------------------
(* The steps of the probe.                                                 *)

\* A line that is accepted is complete, consumed whole, and what follows
\* starts where it ends.
LEMMA LineConsumed ==
    ASSUME Inv, NeedsIdentification, IdentStep \in {"Prelude", "Identification"},
           ConsumeLine, UNCHANGED <<packet, bytesRead, exchange>>
    PROVE  /\ ~Identified /\ packet = 1 /\ line \in 1..Len(exchange.lines)
           /\ frontLine = exchange.lines[line] /\ frontLine \in Line
           /\ line' \in 1..(Len(exchange.lines) + 1) /\ line' - 1 = line
           /\ buffered' \in 0..Capacity
           /\ LineStart(exchange, line + 1) = LineStart(exchange, line) + frontLine.len
           /\ Position' = LineStart(exchange, line + 1)
           /\ bytesRead' = Position' + buffered'
           /\ PacketStart' = 0 /\ PacketStart = 0
           /\ Identified' = (frontLine.class # "Text")
<1>1. ~Identified /\ packet = 1 /\ end = NoEnd
  BY DEF Inv, NeedsIdentification
<1>2. /\ ProbeType /\ buffered \in Nat /\ bytesRead = Position + buffered
      /\ WellFormed(exchange) /\ line \in 1..(Len(exchange.lines) + 1)
      /\ preludeLines \in Nat /\ preludeBytes \in Nat
  BY CapacityNat DEF Inv, TypeOK, ProbeType, BytesAccounted
<1>3. frontLine \in Line
  BY <1>1, <1>2, FrontLine
<1>4. buffered >= frontLine.len
  BY <1>2, <1>3, Limits, IdentComplete DEF IdentStep
<1>5. frontLine.len \in Nat /\ frontLine.len >= 1 /\ Len(exchange.lines) \in Nat
  <2>1. exchange.lines \in Seq(Line)
    BY <1>2 DEF WellFormed
  <2>2. CASE line <= Len(exchange.lines)
    <3>1. line \in 1..Len(exchange.lines) /\ frontLine = exchange.lines[line]
      BY <1>2, <2>1, <2>2 DEF frontLine, At
    <3> QED
      BY <1>2, <2>1, <3>1, NextLine
  <2>3. CASE ~(line <= Len(exchange.lines))
    BY <2>1, <2>3 DEF frontLine, At, NoLine
  <2> QED
    BY <2>2, <2>3
<1>6. line \in 1..Len(exchange.lines) /\ frontLine = exchange.lines[line]
  BY <1>1, <1>2, <1>4, <1>5, FrontLine
<1>7. /\ LineStart(exchange, line) \in Nat
      /\ LineStart(exchange, line + 1) = LineStart(exchange, line) + frontLine.len
  BY <1>2, <1>6, NextLine
<1>8. line' = line + 1 /\ buffered' = buffered - frontLine.len /\ packet' = 1
  BY <1>1 DEF ConsumeLine
<1>9. PacketStart = 0 /\ PacketStart' = 0
  <2>1. PacketStart = StartOf(exchange, 1) /\ PacketStart' = StartOf(exchange, 1)
    BY <1>1, <1>8 DEF PacketStart, StartOf
  <2> QED
    BY <1>2, <2>1, FirstPacket
<1>10. Position = LineStart(exchange, line)
  BY <1>1, <1>2, Front
<1>11. Position' = LineStart(exchange, line + 1)
  <2>1. exchange.linesLen \in Nat
    BY <1>2 DEF WellFormed
  <2> QED
    BY <1>8, <1>9, <2>1 DEF Position, LineStart
<1>12. bytesRead' = Position' + buffered'
  BY <1>2, <1>5, <1>7, <1>8, <1>10, <1>11
<1>13. buffered' \in 0..Capacity
  <2>1. buffered \in 0..Capacity
    BY <1>2 DEF ProbeType
  <2> QED
    BY ONLY <1>4, <1>5, <1>8, <2>1, CapacityNat
<1>14. line' \in 1..(Len(exchange.lines) + 1) /\ line' - 1 = line /\ line' > 1
  BY <1>5, <1>6, <1>8
<1>15. Identified' = (frontLine.class # "Text")
  BY <1>6, <1>14 DEF Identified
<1> QED
  BY <1>1, <1>3, <1>6, <1>7, <1>9, <1>11, <1>12, <1>13, <1>14, <1>15

\* A prelude line is counted in lines and in bytes, and is within the limits
\* (ident.rs, IdentificationReader::feed).
LEMMA PreludeLineStep ==
    ASSUME Inv, DriverType', PreludeLine, pc' = "Step", runEnd' = "None",
           UNCHANGED <<exchange, bytesRead>>
    PROVE  Inv'
<1>1. /\ NeedsIdentification /\ IdentStep = "Prelude" /\ ConsumeLine
      /\ preludeLines' = preludeLines + 1
      /\ preludeBytes' = preludeBytes + frontLine.len
      /\ UNCHANGED <<packet, stage, packets, bytes, end>>
  BY DEF PreludeLine
<1>2. /\ ~Identified /\ packet = 1 /\ line \in 1..Len(exchange.lines)
      /\ frontLine = exchange.lines[line] /\ frontLine \in Line
      /\ line' \in 1..(Len(exchange.lines) + 1) /\ line' - 1 = line
      /\ buffered' \in 0..Capacity
      /\ LineStart(exchange, line + 1) = LineStart(exchange, line) + frontLine.len
      /\ Position' = LineStart(exchange, line + 1)
      /\ bytesRead' = Position' + buffered'
      /\ PacketStart' = 0 /\ PacketStart = 0
      /\ Identified' = (frontLine.class # "Text")
  BY <1>1, LineConsumed
<1>3. /\ ProbeType /\ buffered \in Nat /\ preludeLines \in Nat /\ preludeBytes \in Nat
      /\ line \in Nat /\ WellFormed(exchange) /\ end = NoEnd
  BY <1>1, CapacityNat DEF Inv, TypeOK, ProbeType, NeedsIdentification
<1>4. preludeLines = line - 1 /\ preludeBytes = LineStart(exchange, line)
  BY <1>2, <1>3 DEF Inv
<1>5. /\ frontLine.class = "Text" /\ frontLine.len <= MaxPreludeLine
      /\ preludeLines < MaxPreludeLines
      /\ preludeBytes + frontLine.len <= MaxPreludeBytes
  <2>1. /\ frontLine.class = "Text" /\ frontLine.len <= limits.maxPreludeLine
        /\ preludeLines < limits.maxPreludeLines
        /\ preludeBytes + frontLine.len <= limits.maxPreludeBytes
    <3>1. IdentFeed(limits, preludeLines, preludeBytes, frontLine, buffered) = "Prelude"
      BY <1>1 DEF IdentStep
    <3>2. frontLine \in Line
      BY <1>2
    <3>3. buffered \in Nat /\ preludeLines \in Nat /\ preludeBytes \in Nat
      BY <1>3
    <3> QED
      BY ONLY <3>1, <3>2, <3>3, Limits, IdentComplete
  <2> QED
    BY <2>1 DEF limits
<1>6. /\ line' = line + 1 /\ frontLine.len \in Nat
      /\ LineStart(exchange, line) = frontLine.from
  BY <1>1, <1>2, <1>3 DEF ConsumeLine, Line, LineStart
<1>7. TypeOK'
  <2>1. WellFormed(exchange)'
    BY <1>3 DEF WellFormed
  <2>2. preludeLines' \in Nat /\ preludeBytes' \in Nat
    BY <1>1, <1>3, <1>6
  <2>3. ProbeType'
    BY <1>1, <1>2, <1>3, <2>1, <2>2 DEF ProbeType
  <2> QED
    BY <2>3 DEF TypeOK
<1>8. ~Identified' /\ packet' = 1 /\ stage' = "Identification" /\ end' = NoEnd
  BY <1>1, <1>2, <1>3, <1>5 DEF NeedsIdentification
<1>9. preludeLines' = line' - 1 /\ preludeBytes' = LineStart(exchange, line)'
  BY <1>1, <1>2, <1>3, <1>4, <1>6 DEF LineStart
<1>10. packets' = packet' - 1 /\ bytes' = PacketStart'
  BY <1>1, <1>2, <1>3 DEF Inv
<1>11. BytesAccounted'
  BY <1>2, <1>8 DEF BytesAccounted, NoEnd, Ended
<1>12. BudgetsHeld'
  <2>1. ASSUME NEW i \in 1..(line' - 1), exchange.lines[i].class = "Text"
        PROVE  /\ i <= MaxPreludeLines
               /\ exchange.lines[i].len <= MaxPreludeLine
               /\ exchange.lines[i].from + exchange.lines[i].len <= MaxPreludeBytes
    <3>1. CASE i \in 1..(line - 1)
      BY <2>1, <3>1 DEF Inv, BudgetsHeld
    <3>2. CASE i = line
      <4>1. i <= MaxPreludeLines
        BY <1>3, <1>4, <1>5, <3>2
      <4> QED
        BY <1>2, <1>4, <1>5, <1>6, <3>2, <4>1
    <3> QED
      BY <1>2, <1>3, <3>1, <3>2
  <2> QED
    BY <1>8, <2>1 DEF BudgetsHeld
<1> QED
  BY <1>7, <1>8, <1>9, <1>10, <1>11, <1>12 DEF Inv, NoEnd, Ended

\* The identification is the last line, and packets start after it.
LEMMA IdentificationStep ==
    ASSUME Inv, DriverType', ServerIdentification, pc' = "Step", runEnd' = "None",
           UNCHANGED <<exchange, bytesRead>>
    PROVE  Inv'
<1>1. /\ NeedsIdentification /\ IdentStep = "Identification" /\ ConsumeLine
      /\ stage' = "InitialPackets"
      /\ UNCHANGED <<packet, preludeLines, preludeBytes, packets, bytes, end>>
  BY DEF ServerIdentification
<1>2. /\ ~Identified /\ packet = 1 /\ line \in 1..Len(exchange.lines)
      /\ frontLine = exchange.lines[line] /\ frontLine \in Line
      /\ line' \in 1..(Len(exchange.lines) + 1) /\ line' - 1 = line
      /\ buffered' \in 0..Capacity
      /\ bytesRead' = Position' + buffered'
      /\ PacketStart' = 0 /\ PacketStart = 0
      /\ Identified' = (frontLine.class # "Text")
  BY <1>1, LineConsumed
<1>3. /\ ProbeType /\ buffered \in Nat /\ preludeLines \in Nat /\ preludeBytes \in Nat
      /\ line \in Nat /\ WellFormed(exchange) /\ end = NoEnd
  BY <1>1, CapacityNat DEF Inv, TypeOK, ProbeType, NeedsIdentification
<1>4. frontLine.class = "Ssh2"
  <2>1. IdentFeed(limits, preludeLines, preludeBytes, frontLine, buffered)
            = "Identification"
    BY <1>1 DEF IdentStep
  <2>2. frontLine \in Line
    BY <1>2
  <2>3. buffered \in Nat /\ preludeLines \in Nat /\ preludeBytes \in Nat
    BY <1>3
  <2> QED
    BY ONLY <2>1, <2>2, <2>3, Limits, IdentComplete
<1>5. TypeOK'
  <2>1. WellFormed(exchange)'
    BY <1>3 DEF WellFormed
  <2>2. ProbeType'
    BY <1>1, <1>2, <1>3, <2>1 DEF ProbeType, Stage
  <2> QED
    BY <2>2 DEF TypeOK
<1>6. Identified' /\ packet' = 1 /\ end' = NoEnd
  BY <1>1, <1>2, <1>3, <1>4
<1>7. packets' = packet' - 1 /\ bytes' = PacketStart'
  BY <1>1, <1>2, <1>3 DEF Inv
<1>8. BytesAccounted'
  BY <1>2, <1>6 DEF BytesAccounted, NoEnd, Ended
<1>9. BudgetsHeld'
  <2>1. ASSUME NEW i \in 1..(line' - 1), exchange.lines[i].class = "Text"
        PROVE  /\ i <= MaxPreludeLines
               /\ exchange.lines[i].len <= MaxPreludeLine
               /\ exchange.lines[i].from + exchange.lines[i].len <= MaxPreludeBytes
    <3>1. i # line
      BY <1>2, <1>4, <2>1
    <3>2. i \in 1..line
      BY <1>2
    <3>3. i \in 1..(line - 1)
      BY ONLY <1>3, <3>1, <3>2
    <3> QED
      BY <2>1, <3>3 DEF Inv, BudgetsHeld
  <2> QED
    BY <1>6, <2>1 DEF BudgetsHeld
<1> QED
  BY <1>1, <1>5, <1>6, <1>7, <1>8, <1>9 DEF Inv, NoEnd, Ended

\* A packet that is accepted is consumed whole, within the budgets, and the
\* next one starts where it ends.
LEMMA PacketConsumed ==
    ASSUME Inv, NeedsPackets, Counted(PacketStep), Count, Consume,
           UNCHANGED <<line, bytesRead, exchange>>
    PROVE  /\ Identified /\ end = NoEnd
           /\ packet' \in 1..(Len(exchange.packets) + 1)
           /\ buffered' \in 0..Capacity
           /\ packets' = packet' - 1 /\ packets' \in Nat
           /\ PacketStart' = bytes' /\ bytes' \in Nat
           /\ bytesRead' = Position' + buffered'
           /\ packet' - 1 <= MaxPackets
           /\ Position' - exchange.linesLen <= MaxBytes
<1>1. Identified /\ end = NoEnd /\ packets = packet - 1 /\ bytes = PacketStart
  BY DEF Inv, NeedsPackets
<1>2. /\ ProbeType /\ bytesRead = Position + buffered /\ buffered \in Nat
      /\ packets \in Nat /\ bytes \in Nat /\ packet \in Nat
      /\ Len(exchange.packets) \in Nat /\ exchange.linesLen \in Nat
      /\ WellFormed(exchange) /\ Len(exchange.lines) \in Nat
  <2>1. ProbeType /\ bytesRead = Position + buffered
    BY DEF Inv, TypeOK, BytesAccounted
  <2>2. /\ WellFormed(exchange) /\ packets \in Nat /\ bytes \in Nat
        /\ packet \in 1..(Len(exchange.packets) + 1) /\ buffered \in 0..Capacity
    BY <2>1 DEF ProbeType
  <2>3. /\ Len(exchange.packets) \in Nat /\ exchange.linesLen \in Nat
        /\ Len(exchange.lines) \in Nat
    BY <2>2 DEF WellFormed
  <2>4. packet \in Nat /\ buffered \in Nat
    BY ONLY <2>2, <2>3, CapacityNat
  <2> QED
    BY ONLY <2>1, <2>2, <2>3, <2>4
<1>3. frontPacket \in Packet
  BY <1>1, <1>2, FrontPacket
<1>4. /\ ~BadHeader(frontPacket) /\ buffered >= PacketLen(frontPacket)
      /\ packets + 1 <= MaxPackets /\ bytes + PacketLen(frontPacket) <= MaxBytes
  BY <1>2, <1>3, PacketComplete DEF PacketStep
<1>5. PacketLen(frontPacket) \in Nat /\ PacketLen(frontPacket) >= 5
  BY <1>3, PacketLenAtLeast DEF HEADER_LEN
<1>6. packet \in 1..Len(exchange.packets) /\ frontPacket = exchange.packets[packet]
  BY <1>1, <1>2, <1>4, <1>5, FrontPacket
<1>7. PacketStart' = StartOf(exchange, packet + 1) /\ PacketStart = StartOf(exchange, packet)
  BY <1>2, <1>6 DEF PacketStart, StartOf, Consume
<1>8. PacketStart' = PacketStart + PacketLen(frontPacket)
  BY <1>2, <1>6, <1>7, NextPacket
<1>9. /\ packets' = packets + 1 /\ bytes' = bytes + PacketLen(frontPacket)
      /\ packet' = packet + 1 /\ buffered' = buffered - PacketLen(frontPacket)
  BY DEF Count, Consume
<1>10. /\ Position = exchange.linesLen + PacketStart
       /\ Position' = exchange.linesLen + PacketStart'
  <2>1. line = Len(exchange.lines) + 1
    BY <1>1, <1>2, Front
  <2> QED
    BY <1>2, <2>1 DEF Position
<1>11. buffered' \in 0..Capacity
  <2>1. buffered \in 0..Capacity
    BY <1>2 DEF ProbeType
  <2> QED
    BY ONLY <1>4, <1>5, <1>9, <2>1, CapacityNat
<1>12. packet' \in 1..(Len(exchange.packets) + 1)
  BY <1>2, <1>6, <1>9
<1>13. PacketStart \in Nat /\ PacketStart' = bytes'
  BY <1>1, <1>2, <1>8, <1>9
<1>14. bytesRead' = Position' + buffered'
  <2>1. bytesRead' = bytesRead /\ Position' = Position + PacketLen(frontPacket)
    <3>1. bytesRead' = bytesRead
      OBVIOUS
    <3>2. exchange.linesLen \in Nat
      BY <1>2
    <3>3. Position' = Position + PacketLen(frontPacket)
      BY ONLY <1>5, <1>8, <1>10, <1>13, <3>2
    <3> QED
      BY ONLY <3>1, <3>3
  <2>2. Position \in Nat
    BY <1>2, <1>10, <1>13
  <2> QED
    BY <1>2, <1>5, <1>9, <2>1, <2>2
<1>15. Position' - exchange.linesLen <= MaxBytes
  <2>1. PacketStart' \in Nat /\ PacketStart' <= MaxBytes
    <3>1. bytes \in Nat
      BY <1>2
    <3>2. bytes + PacketLen(frontPacket) <= MaxBytes
      BY <1>4
    <3> QED
      BY ONLY <1>5, <1>9, <1>13, <3>1, <3>2
  <2>2. exchange.linesLen \in Nat
    BY <1>2
  <2> QED
    BY ONLY <1>10, <2>1, <2>2
<1>16. packets' = packet' - 1 /\ packets' \in Nat /\ bytes' \in Nat
  <2>1. packets = packet - 1
    BY <1>1
  <2>2. packets \in Nat /\ bytes \in Nat /\ packet \in Nat
    BY <1>2
  <2> QED
    BY ONLY <1>5, <1>9, <2>1, <2>2
<1>17. packet' - 1 <= MaxPackets
  <2>1. packets + 1 <= MaxPackets
    BY <1>4
  <2> QED
    BY ONLY <1>9, <1>16, <2>1
<1> QED
  BY <1>1, <1>11, <1>12, <1>13, <1>14, <1>15, <1>16, <1>17

\* What the probe keeps when it consumes a packet, and goes on or ends.
LEMMA PacketStepKeeps ==
    ASSUME Inv, DriverType', NeedsPackets, Counted(PacketStep), Count, Consume,
           UNCHANGED <<line, preludeLines, preludeBytes, bytesRead, exchange>>,
           end' \in OutcomeType, end'.code \notin {"InputOverflow", "Eof"},
           stage' = IF end' = NoEnd THEN "InitialPackets" ELSE "Finished",
           end'.code = "KexInit" => end'.bytes = buffered',
           pc' # "Read", pc' # "Returned" => runEnd' = "None", runEnd' # "TimedOut"
    PROVE  Inv'
<1>1. /\ Identified /\ end = NoEnd
      /\ packet' \in 1..(Len(exchange.packets) + 1)
      /\ buffered' \in 0..Capacity
      /\ packets' = packet' - 1 /\ packets' \in Nat
      /\ PacketStart' = bytes' /\ bytes' \in Nat
      /\ bytesRead' = Position' + buffered'
      /\ packet' - 1 <= MaxPackets
      /\ Position' - exchange.linesLen <= MaxBytes
  BY PacketConsumed
<1>2. Identified'
  BY <1>1 DEF Identified
<1>3. TypeOK'
  <2>1. ProbeType /\ WellFormed(exchange)'
    BY DEF Inv, TypeOK, ProbeType, WellFormed
  <2>2. ProbeType'
    BY <1>1, <2>1 DEF ProbeType, Stage
  <2> QED
    BY <2>2 DEF TypeOK
<1>4. BytesAccounted'
  BY <1>1 DEF BytesAccounted
<1>5. BudgetsHeld'
  BY <1>1 DEF Inv, BudgetsHeld
<1> QED
  BY <1>1, <1>2, <1>3, <1>4, <1>5 DEF Inv

\* Whoever reads was told that more is needed, so what was asked for fits.
LEMMA ReadStep ==
    ASSUME Inv, DriverType', Read
    PROVE  /\ Inv'
           /\ UNCHANGED <<line, packet, stage, end>>
<1>1. /\ NeedMore /\ pc = "Read" /\ pc' = "Step" /\ end = NoEnd
      /\ runEnd' = "None"
  BY DEF Inv, Read, Goto, NeedMore, NeedsIdentification, NeedsPackets
<1>2. /\ ProbeType /\ bytesRead = Position + buffered
      /\ buffered \in Nat /\ exchange.size \in Nat /\ bytesRead \in Nat
      /\ buffered < Capacity /\ Position \in Nat
  <2>1. ProbeType /\ WellFormed(exchange) /\ bytesRead = Position + buffered
    BY DEF Inv, TypeOK, ProbeType, BytesAccounted
  <2>2. exchange.size \in Nat
    BY <2>1 DEF WellFormed
  <2>3. buffered < Capacity
    BY <1>1, NeedMoreLeavesRoom
  <2> QED
    BY <2>1, <2>2, <2>3, CapacityNat, Front DEF ProbeType
<1>3. want \in Nat /\ want <= Room
  BY <1>2, WantFits
<1>4. PICK n \in 1..Smaller(want, exchange.size - bytesRead) :
          Feed(n) /\ bytesRead' = bytesRead + n
  BY DEF Read
<1>5. n \in Nat /\ n <= Room /\ bytesRead + n <= exchange.size
  <2>1. Room \in Int /\ exchange.size - bytesRead \in Int
    BY <1>2, CapacityNat DEF Room
  <2> QED
    BY <1>2, <1>3, <1>4, <2>1 DEF Smaller
<1>6. /\ buffered' = buffered + n
      /\ UNCHANGED <<stage, end, line, packet, preludeLines, preludeBytes, packets, bytes,
                     exchange>>
  BY <1>2, <1>4, <1>5, CapacityNat DEF Feed, Room, Read
<1>7. TypeOK'
  <2>1. WellFormed(exchange)'
    BY <1>2, <1>6 DEF ProbeType, WellFormed
  <2>2. buffered' \in 0..Capacity /\ bytesRead' \in 0..exchange.size
    BY <1>2, <1>4, <1>5, <1>6, CapacityNat DEF Room
  <2>3. ProbeType'
    BY <1>2, <1>6, <2>1, <2>2 DEF ProbeType
  <2> QED
    BY <2>3 DEF TypeOK
<1>8. /\ Position' = Position /\ PacketStart' = PacketStart /\ Identified' = Identified
      /\ LineStart(exchange, line)' = LineStart(exchange, line)
  BY <1>6 DEF Position, PacketStart, Identified, LineStart
<1>9. bytesRead' = Position' + buffered'
  BY <1>2, <1>4, <1>5, <1>6, <1>8
<1>10. BytesAccounted'
  BY <1>1, <1>6, <1>9 DEF BytesAccounted, NoEnd, Ended
<1>11. BudgetsHeld'
  BY <1>6, <1>8 DEF Inv, BudgetsHeld
<1> QED
  BY <1>1, <1>6, <1>7, <1>8, <1>10, <1>11 DEF Inv, NoEnd, Ended

----------------------------------------------------------------------------
\* The invariant holds initially.
LEMMA InitInv == Init => Inv
<1> SUFFICES ASSUME Init PROVE Inv
  OBVIOUS
<1>1. WellFormed(exchange)
  BY DEF Init
<1>2. NoEnd \in OutcomeType /\ NoEnd.code = "None"
  BY EndedType DEF NoEnd
<1>3. Len(exchange.lines) \in Nat /\ Len(exchange.packets) \in Nat /\ exchange.size \in Nat
  BY <1>1 DEF WellFormed
<1>4. ProbeType
  BY <1>1, <1>2, <1>3, CapacityNat DEF Init, ProbeType, Stage
<1>5. DriverType
  BY DEF Init, DriverType, Stage, RunEnd
<1>6. ~Identified /\ packet = 1 /\ line = 1 /\ end = NoEnd
  BY DEF Init, Identified
<1>7. PacketStart = 0 /\ Position = 0 /\ LineStart(exchange, line) = 0
  <2>1. PacketStart = 0
    BY <1>1, <1>4, <1>6, Front, FirstPacket
  <2>2. LineStart(exchange, 1) = 0
    <3>1. CASE exchange.lines = <<>>
      BY <1>1, <3>1 DEF LineStart, WellFormed
    <3>2. CASE exchange.lines # <<>>
      <4>1. 1 \in 1..Len(exchange.lines)
        BY <1>1, <1>3, <3>2 DEF WellFormed
      <4> QED
        BY <1>1, <4>1 DEF LineStart, WellFormed
    <3> QED
      BY <3>1, <3>2
  <2> QED
    BY <1>4, <1>6, <2>1, <2>2, Front
<1>8. BytesAccounted
  BY <1>2, <1>7 DEF Init, BytesAccounted
<1>9. BudgetsHeld
  BY <1>6 DEF BudgetsHeld
<1> QED
  BY <1>2, <1>4, <1>5, <1>6, <1>7, <1>8, <1>9 DEF Init, Inv, TypeOK

\* What ends the probe in step: a refused line or packet, or the last packet.
LEMMA FinishedStep ==
    ASSUME Inv, DriverType', StepFinished
    PROVE  Inv'
<1>1. /\ pc = "Step" /\ pc' = "Returned" /\ runEnd' = "Probe"
      /\ UNCHANGED <<exchange, bytesRead>>
  BY DEF StepFinished, Return
<1>2. CASE UNCHANGED probe
  BY <1>1, <1>2, SameProbe
<1>3. CASE IdentificationError
  <2>1. /\ end = NoEnd /\ stage' = "Finished" /\ end' = Ended(IdentStep)
        /\ IdentStep \in IdentError
        /\ UNCHANGED <<line, packet, buffered, preludeLines, preludeBytes, packets, bytes>>
    BY <1>3 DEF IdentificationError, NeedsIdentification, Finish
  <2>2. /\ end' \in OutcomeType
        /\ end'.code \notin {"None", "InputOverflow", "KexInit", "Eof"}
    BY <2>1, EndedType DEF Code, IdentError
  <2>3. packets' \in Nat /\ bytes' \in Nat
    BY <2>1 DEF Inv, TypeOK, ProbeType
  <2> QED
    BY <1>1, <2>1, <2>2, <2>3, EndsHere
<1>4. CASE LastPacket
  <2>1. /\ NeedsPackets /\ Counted(PacketStep) /\ Count /\ Consume
        /\ PacketStep \in {"KexInit", "Disconnect"}
        /\ UNCHANGED <<line, preludeLines, preludeBytes>> /\ stage' = "Finished"
    BY <1>4 DEF LastPacket, Counted, Finish
  <2>2. buffered' \in 0..Capacity
    BY <1>1, <2>1, PacketConsumed
  <2>3. /\ end' \in OutcomeType /\ end'.code = PacketStep
        /\ end'.code = "KexInit" => end'.bytes = buffered'
    <3>1. "KexInit" \in Code /\ "Disconnect" \in Code /\ buffered' \in Nat
      BY <2>2, CapacityNat DEF Code
    <3> QED
      BY <1>4, <2>1, <3>1 DEF LastPacket, Finish, Ended, OutcomeType
  <2>4. end' # NoEnd
    BY <2>1, <2>3 DEF NoEnd, Ended
  <2> QED
    BY <1>1, <2>1, <2>3, <2>4, PacketStepKeeps
<1>5. CASE ErrorPacket
  <2>1. /\ NeedsPackets /\ end = NoEnd /\ stage' = "Finished" /\ end' = Ended(PacketStep)
        /\ PacketStep \in PacketError
        /\ UNCHANGED <<line, packet, buffered, preludeLines, preludeBytes>>
    BY <1>5 DEF ErrorPacket, NeedsPackets, Finish
  <2>2. /\ end' \in OutcomeType
        /\ end'.code \notin {"None", "InputOverflow", "KexInit", "Eof"}
    BY <2>1, EndedType DEF Code, PacketError
  <2>3. packets' \in Nat /\ bytes' \in Nat
    <3>1. ProbeType /\ Identified /\ bytesRead = Position + buffered
      BY <2>1 DEF Inv, TypeOK, NeedsPackets, BytesAccounted
    <3>2. PacketLen(frontPacket) \in Nat
      BY <3>1, FrontPacket, PacketLenAtLeast
    <3> QED
      BY <1>5, <3>1, <3>2 DEF ErrorPacket, Count, ProbeType
  <2> QED
    BY <1>1, <2>1, <2>2, <2>3, EndsHere
<1> QED
  BY <1>2, <1>3, <1>4, <1>5 DEF StepFinished

\* Every step keeps the invariant.
LEMMA NextInv ==
    ASSUME Inv, [Next]_vars
    PROVE  Inv'
<1> DriverType'
  BY DriverTypeStep DEF Inv
<1>0. pc # "Returned" => runEnd = "None"
  BY DEF Inv
<1>1. CASE ConnectGivesUp
  BY <1>1, SameProbe DEF ConnectGivesUp, Return
<1>2. CASE AttemptFails
  BY <1>0, <1>2, SameProbe DEF AttemptFails, Goto, run
<1>3. CASE Connected
  BY <1>0, <1>3, SameProbe DEF Connected, Goto, run
<1>4. CASE SetupFails
  BY <1>4, SameProbe DEF SetupFails, Return
<1>5. CASE WriteIdentification
  BY <1>0, <1>5, SameProbe DEF WriteIdentification, Goto, run
<1>6. CASE WriteFails
  BY <1>6, SameProbe DEF WriteFails, GiveUp, Return
<1>7. CASE StepEvent
  <2>1. /\ pc' = "Step" /\ runEnd' = "None" /\ UNCHANGED <<exchange, bytesRead>>
    BY <1>0, <1>7 DEF StepEvent, Goto
  <2>2. CASE PreludeLine
    BY <2>1, <2>2, PreludeLineStep
  <2>3. CASE ServerIdentification
    BY <2>1, <2>3, IdentificationStep
  <2>4. CASE Skipped
    <3>1. /\ NeedsPackets /\ Counted(PacketStep) /\ Count /\ Consume
          /\ UNCHANGED <<line, preludeLines, preludeBytes, stage, end>>
      BY <2>4 DEF Skipped, Counted
    <3>2. end' = NoEnd /\ stage' = "InitialPackets"
      BY <3>1 DEF NeedsPackets
    <3>3. /\ end' \in OutcomeType /\ end'.code \notin {"InputOverflow", "Eof", "KexInit"}
      BY <3>2, EndedType DEF NoEnd
    <3> QED
      BY <2>1, <3>1, <3>2, <3>3, PacketStepKeeps
  <2> QED
    BY <1>7, <2>2, <2>3, <2>4 DEF StepEvent
<1>8. CASE StepFinished
  BY <1>8, FinishedStep
<1>9. CASE StepNeedMore
  BY <1>0, <1>9, SameProbe DEF StepNeedMore, Goto, run
<1>10. CASE ReadTimesOut
  BY <1>10, SameProbe DEF ReadTimesOut, GiveUp, Return
<1>11. CASE Read
  BY <1>11, ReadStep
<1>12. CASE ReadEof
  <2>1. /\ pc' = "Returned" /\ runEnd' = "Probe" /\ stage' = "Finished"
        /\ end' = [Ended("Eof") EXCEPT !.stage = stage, !.bytes = buffered]
        /\ UNCHANGED <<line, packet, buffered, preludeLines, preludeBytes, packets, bytes,
                       exchange, bytesRead>>
    BY <1>12 DEF ReadEof, InputEnded, Finish, Return
  <2>2. end = NoEnd /\ buffered \in Nat /\ stage \in Stage /\ packets \in Nat /\ bytes \in Nat
    BY <1>12, CapacityNat
       DEF Inv, ReadEof, NeedMore, NeedsIdentification, NeedsPackets, TypeOK, ProbeType
  <2>3. end' \in OutcomeType /\ end'.code = "Eof" /\ end'.bytes = buffered
    <3>1. "Eof" \in Code
      BY DEF Code
    <3> QED
      BY <2>1, <2>2, <3>1 DEF Ended, OutcomeType
  <2> QED
    BY <2>1, <2>2, <2>3, EndsHere
<1>13. CASE ReadInterrupted
  BY <1>0, <1>13, SameProbe DEF ReadInterrupted, Goto, run
<1>14. CASE ReadFails
  BY <1>14, SameProbe DEF ReadFails, GiveUp, Return
<1>15. CASE Expire
  BY <1>0, <1>15, SameProbe DEF Expire, run, Inv
<1>16. CASE UNCHANGED vars
  BY <1>0, <1>16, SameProbe DEF vars, run, Inv
<1> QED
  BY <1>1, <1>2, <1>3, <1>4, <1>5, <1>6, <1>7, <1>8, <1>9, <1>10, <1>11, <1>12, <1>13,
     <1>14, <1>15, <1>16 DEF Next, Connect, Drive, Server, Returned

----------------------------------------------------------------------------
(* The run.                                                                *)

Ending == IF end.code \in {"KexInit", "Disconnect"} THEN 1 ELSE 0

\* What the driver has reported so far is what the probe went past; it
\* returns with the probe's end, or where the probe was when it gave up.
RunInv ==
    /\ events = (line - 1) + (packet - 1) - Ending
    /\ end # NoEnd => pc = "Returned"
    /\ pc = "Returned" => (runEnd = "Probe") = (end # NoEnd)
    /\ runEnd \in {"TimedOut", "Io"} =>
          runStage = IF Identified THEN "InitialPackets" ELSE "Identification"
    /\ runEnd = "AllAttemptsFailed" => failures >= 1 /\ failures = attempts

\* The run invariant holds initially.
LEMMA InitRun == Init => RunInv
<1> SUFFICES ASSUME Init PROVE RunInv
  OBVIOUS
<1>1. Ending = 0
  BY DEF Init, Ending, NoEnd, Ended
<1> QED
  BY <1>1 DEF Init, RunInv

\* A step of the driver that leaves the probe and its events alone and does
\* not return, or had returned.
LEMMA SameRun ==
    ASSUME Inv, RunInv, UNCHANGED <<line, packet, stage, end, exchange>>,
           UNCHANGED <<addresses, events, runEnd, runStage>>,
           \/ pc' = pc
           \/ pc' # "Returned" /\ pc # "Returned",
           runEnd = "None" \/ failures' = failures
    PROVE  RunInv'
<1>1. Ending' = Ending /\ Identified' = Identified
  BY DEF Ending, Identified
<1>2. failures' = failures => attempts' = attempts
  BY DEF attempts
<1>3. events' = (line' - 1) + (packet' - 1) - Ending'
  BY <1>1 DEF RunInv
<1> QED
  BY <1>1, <1>2, <1>3 DEF RunInv

\* The driver gives up and says where the probe was.
LEMMA GiveUpRun ==
    ASSUME Inv, RunInv, NEW why \in {"TimedOut", "Io"}, GiveUp(why), pc # "Returned"
    PROVE  RunInv'
<1>1. /\ pc' = "Returned" /\ runEnd' = why /\ runStage' = stage
      /\ UNCHANGED <<line, packet, end, exchange, events>>
  BY DEF GiveUp, Return, probe
<1>2. Ending' = Ending /\ Identified' = Identified
  BY <1>1 DEF Ending, Identified
<1>3. end = NoEnd /\ end' = NoEnd
  BY <1>1 DEF RunInv
<1>4. runStage' = IF Identified' THEN "InitialPackets" ELSE "Identification"
  BY <1>1, <1>2, <1>3 DEF Inv
<1>5. events' = (line' - 1) + (packet' - 1) - Ending'
  BY <1>1, <1>2 DEF RunInv
<1> QED
  BY <1>1, <1>3, <1>4, <1>5 DEF RunInv

\* The driver fails before the probe has begun.
LEMMA ConnectErrorRun ==
    ASSUME Inv, RunInv, UNCHANGED <<line, packet, end, exchange, events>>,
           pc # "Returned", pc' = "Returned", runEnd' \in ConnectErrors,
           runEnd' = "AllAttemptsFailed" => failures' >= 1 /\ failures' = attempts'
    PROVE  RunInv'
<1>1. Ending' = Ending /\ end' = NoEnd
  BY DEF Ending, RunInv
<1>2. runEnd' \notin {"Probe", "TimedOut", "Io"}
  BY DEF ConnectErrors
<1>3. events' = (line' - 1) + (packet' - 1) - Ending'
  BY <1>1 DEF RunInv
<1> QED
  BY <1>1, <1>2, <1>3 DEF RunInv

\* The probe ends and the driver returns with it.
LEMMA EndRun ==
    ASSUME Inv, RunInv, end = NoEnd, end' # NoEnd, line' = line, events' = events,
           packet' = packet + Ending', pc' = "Returned", runEnd' = "Probe"
    PROVE  RunInv'
<1>1. Ending = 0 /\ Ending' \in {0, 1}
  BY DEF Ending, NoEnd, Ended
<1>2. line \in Int /\ packet \in Int
  BY DEF Inv, TypeOK, ProbeType
<1>3. events' = (line' - 1) + (packet' - 1) - Ending'
  <2>1. events' = (line - 1) + (packet - 1) - 0
    BY <1>1 DEF RunInv
  <2>2. CASE Ending' = 0
    BY <1>2, <2>1, <2>2
  <2>3. CASE Ending' = 1
    BY <1>2, <2>1, <2>3
  <2> QED
    BY <1>1, <2>2, <2>3
<1> QED
  BY <1>3 DEF RunInv

\* The probe goes past a line or a packet and the driver reports it.
LEMMA EventRun ==
    ASSUME Inv, RunInv, end' = end, events' = events + 1,
           \/ line' = line + 1 /\ packet' = packet
           \/ line' = line /\ packet' = packet + 1,
           pc = "Step", pc' = "Step", runEnd' = runEnd
    PROVE  RunInv'
<1>1. Ending' = Ending /\ Ending = 0 /\ end = NoEnd
  BY DEF Ending, NoEnd, Ended, RunInv
<1>2. line \in Int /\ packet \in Int /\ runEnd = "None"
  BY DEF Inv, TypeOK, ProbeType
<1>3. events' = (line' - 1) + (packet' - 1) - Ending'
  <2>1. events = (line - 1) + (packet - 1) - 0 /\ Ending' = 0
    BY <1>1 DEF RunInv
  <2> QED
    BY <1>2, <2>1
<1> QED
  BY <1>1, <1>2, <1>3 DEF RunInv

\* Every step keeps the run invariant.
LEMMA NextRun ==
    ASSUME Inv, RunInv, [Next]_vars
    PROVE  RunInv'
<1>0. /\ pc # "Returned" => runEnd = "None" /\ end = NoEnd
      /\ addresses \in Nat /\ failures \in Nat /\ packet \in Int
  BY DEF Inv, RunInv, TypeOK, DriverType, ProbeType
<1> DriverType'
  BY DriverTypeStep DEF Inv
<1>1. CASE ConnectGivesUp
  <2>1. /\ pc = "Connect" /\ pc' = "Returned"
        /\ UNCHANGED <<line, packet, end, exchange, events, addresses, failures>>
    BY <1>1 DEF ConnectGivesUp, Return, probe, connection
  <2>2. runEnd' \in ConnectErrors
    BY <1>1 DEF ConnectGivesUp, Return, ConnectErrors
  <2>3. ASSUME runEnd' = "AllAttemptsFailed"
        PROVE  failures' >= 1 /\ failures' = attempts'
    <3>1. failures = attempts /\ addresses > 0
      BY <1>1, <2>3 DEF ConnectGivesUp, Return
    <3>2. attempts' = attempts /\ attempts >= 1
      BY <1>0, <2>1, <3>1 DEF attempts, Smaller, Larger
    <3> QED
      BY <2>1, <3>1, <3>2
  <2> QED
    BY <2>1, <2>2, <2>3, ConnectErrorRun
<1>2. CASE AttemptFails
  <2>1. /\ pc = "Connect" /\ pc' = pc
        /\ UNCHANGED <<line, packet, stage, end, exchange, addresses, events, runEnd, runStage>>
    BY <1>2 DEF AttemptFails, Goto, probe, run
  <2> QED
    BY <1>0, <2>1, SameRun
<1>3. CASE Connected
  BY <1>0, <1>3, SameRun DEF Connected, Goto, probe, run, connection
<1>4. CASE SetupFails
  <2>1. /\ pc = "Write" /\ pc' = "Returned" /\ runEnd' = "Setup"
        /\ UNCHANGED <<line, packet, end, exchange, events>>
    BY <1>4 DEF SetupFails, Return, probe
  <2> QED
    BY <2>1, ConnectErrorRun DEF ConnectErrors
<1>5. CASE WriteIdentification
  BY <1>0, <1>5, SameRun DEF WriteIdentification, Goto, probe, run, connection
<1>6. CASE WriteFails
  BY <1>6, GiveUpRun DEF WriteFails
<1>7. CASE StepEvent
  <2>1. /\ pc = "Step" /\ pc' = "Step" /\ events' = events + 1 /\ runEnd' = runEnd
        /\ PreludeLine \/ ServerIdentification \/ Skipped
    BY <1>7 DEF StepEvent, Goto
  <2>2. /\ end' = end
        /\ \/ line' = line + 1 /\ packet' = packet
           \/ line' = line /\ packet' = packet + 1
    BY <2>1 DEF PreludeLine, ServerIdentification, Skipped, ConsumeLine, Consume
  <2> QED
    BY <2>1, <2>2, EventRun
<1>8. CASE StepFinished
  <2>1. /\ pc = "Step" /\ pc' = "Returned" /\ runEnd' = "Probe" /\ events' = events
        /\ end = NoEnd
    BY <1>0, <1>8 DEF StepFinished, Return
  <2>2. CASE IdentificationError
    <3>1. end'.code \in IdentError /\ UNCHANGED <<line, packet>>
      BY <2>2 DEF IdentificationError, Finish, Ended
    <3>2. Ending' = 0 /\ end' # NoEnd
      BY <3>1 DEF Ending, NoEnd, Ended, IdentError
    <3> QED
      BY <1>0, <2>1, <3>1, <3>2, EndRun
  <2>3. CASE LastPacket
    <3>1. /\ end'.code \in {"KexInit", "Disconnect"}
          /\ packet' = packet + 1 /\ line' = line
      BY <2>3 DEF LastPacket, Finish, Ended, Consume
    <3>2. Ending' = 1 /\ end' # NoEnd
      BY <3>1 DEF Ending, NoEnd, Ended
    <3> QED
      BY <2>1, <3>1, <3>2, EndRun
  <2>4. CASE ErrorPacket
    <3>1. end'.code \in PacketError /\ UNCHANGED <<line, packet>>
      BY <2>4 DEF ErrorPacket, Finish, Ended
    <3>2. Ending' = 0 /\ end' # NoEnd
      BY <3>1 DEF Ending, NoEnd, Ended, PacketError
    <3> QED
      BY <1>0, <2>1, <3>1, <3>2, EndRun
  <2> QED
    BY <1>8, <2>1, <2>2, <2>3, <2>4 DEF StepFinished
<1>9. CASE StepNeedMore
  BY <1>0, <1>9, SameRun DEF StepNeedMore, Goto, probe, run, connection
<1>10. CASE ReadTimesOut
  BY <1>10, GiveUpRun DEF ReadTimesOut
<1>11. CASE Read
  <2>1. UNCHANGED <<line, packet, stage, end>>
    BY <1>11, ReadStep
  <2> QED
    BY <1>0, <1>11, <2>1, SameRun DEF Read, Goto, connection
<1>12. CASE ReadEof
  <2>1. /\ pc = "Read" /\ pc' = "Returned" /\ runEnd' = "Probe" /\ events' = events
        /\ end'.code = "Eof" /\ UNCHANGED <<line, packet>>
    BY <1>12 DEF ReadEof, InputEnded, Finish, Return, Ended
  <2>2. end = NoEnd /\ end' # NoEnd /\ Ending' = 0
    BY <1>0, <2>1 DEF NoEnd, Ended, Ending
  <2> QED
    BY <1>0, <2>1, <2>2, EndRun
<1>13. CASE ReadInterrupted
  BY <1>0, <1>13, SameRun DEF ReadInterrupted, Goto, probe, run, connection
<1>14. CASE ReadFails
  BY <1>14, GiveUpRun DEF ReadFails
<1>15. CASE Expire
  BY <1>15, SameRun DEF Expire, probe, run, connection
<1>16. CASE UNCHANGED vars
  BY <1>16, SameRun DEF vars, probe, run, connection
<1> QED
  BY <1>1, <1>2, <1>3, <1>4, <1>5, <1>6, <1>7, <1>8, <1>9, <1>10, <1>11, <1>12, <1>13,
     <1>14, <1>15, <1>16 DEF Next, Connect, Drive, Server, Returned

----------------------------------------------------------------------------
\* Both invariants hold in every reachable state.
THEOREM Invariance == Spec => [](Inv /\ RunInv)
<1>1. Init => Inv /\ RunInv
  BY InitInv, InitRun
<1>2. Inv /\ RunInv /\ [Next]_vars => (Inv /\ RunInv)'
  BY NextInv, NextRun
<1> QED
  BY <1>1, <1>2, PTL DEF Spec

\* Every variable of the probe and of its driver keeps its type, and the
\* buffer never holds more than its capacity (probe.rs, io.rs).
THEOREM TypeCorrect == Spec => []TypeOK
<1>1. Inv => TypeOK
  BY DEF Inv
<1> QED
  BY Invariance, <1>1, PTL

\* With the invariant, a read has room and what it asks for fits.
LEMMA InvReadsFit ==
    ASSUME Inv
    PROVE  ReadsFit
<1>1. buffered \in 0..Capacity /\ end.code # "InputOverflow"
  BY DEF Inv, TypeOK, ProbeType
<1>2. ASSUME pc = "Read"
      PROVE  Room >= 1 /\ want <= Room
  <2>1. NeedMore /\ buffered \in Nat
    BY <1>1, <1>2, CapacityNat DEF Inv
  <2>2. buffered < Capacity
    BY <2>1, NeedMoreLeavesRoom
  <2> QED
    BY <2>1, <2>2, WantFits, CapacityNat DEF Room
<1> QED
  BY <1>1, <1>2 DEF ReadsFit

\* The run invariant is what RunAgrees asks of a run that was returned.
LEMMA RunInvAgrees ==
    ASSUME Inv, RunInv
    PROVE  RunAgrees
<1>1. line \in Nat /\ packet \in Nat /\ Ending \in {0, 1} /\ Reported = packet - 1 - Ending
  <2>1. line \in Nat /\ packet \in Nat
    BY DEF Inv, TypeOK, ProbeType, WellFormed
  <2> QED
    BY <2>1 DEF Ending, Reported
<1>2. (line - 1) + (packet - 1) - Ending = (line - 1) + Reported
  BY <1>1
<1> QED
  BY <1>2 DEF RunInv, RunAgrees, Identified, attempts

\* For every limit, every server and every way its bytes are cut: a read
\* always has room and no server ends the probe with InputOverflow; every byte
\* read was consumed with a line or packet reported, is in the buffer, or is
\* in the outcome's count; the prelude and packet budgets hold of the stream;
\* and the run that is returned says what the probe went past, where it was,
\* and whether every attempt was made (probe.rs step, io.rs run_probe).
THEOREM ProbeCorrect == Spec => []ProbeExact
<1>1. Inv /\ RunInv => ProbeExact
  BY InvReadsFit, RunInvAgrees DEF Inv, ProbeExact
<1> QED
  BY Invariance, <1>1, PTL

----------------------------------------------------------------------------
\* The driver reads only while what has arrived of the front line or packet
\* does not decide it yet: a complete line, one too long, a complete packet
\* or a header that is refused is never waited on.
WaitsForUndecided ==
    pc = "Read" =>
        buffered < IF stage = "Identification" THEN Smaller(frontLine.len, LongestLine)
                   ELSE PacketLen(frontPacket)

\* Whoever waits lacks what decides the front.
LEMMA InvWaits ==
    ASSUME Inv
    PROVE  WaitsForUndecided
<1> SUFFICES ASSUME pc = "Read"
             PROVE  buffered < IF stage = "Identification"
                               THEN Smaller(frontLine.len, LongestLine)
                               ELSE PacketLen(frontPacket)
  BY DEF WaitsForUndecided
<1>1. NeedMore
  BY DEF Inv
<1>2. ProbeType /\ buffered \in Nat /\ bytesRead = Position + buffered
  BY CapacityNat DEF Inv, TypeOK, ProbeType, BytesAccounted
<1>3. CASE NeedsIdentification /\ IdentStep = "NeedMore"
  <2>1. stage = "Identification" /\ ~Identified /\ packet = 1
    BY <1>3 DEF Inv, NeedsIdentification
  <2>2. frontLine \in Line
    BY <1>2, <2>1, FrontLine
  <2>3. buffered < frontLine.len /\ buffered < LineLimit(limits, frontLine, buffered)
    BY <1>2, <1>3, <2>2, Limits, IdentNeedMore DEF IdentStep, ProbeType
  <2>4. frontLine.tell \in 1..4 /\ frontLine.len \in Nat
    BY <2>2 DEF Line, PREFIX_LEN
  <2>5. LongestLine \in Nat /\ buffered < LongestLine
    <3>1. CASE buffered < frontLine.tell
      BY <1>2, <2>4, <3>1 DEF LongestLine, Larger, PREFIX_LEN
    <3>2. CASE ~(buffered < frontLine.tell)
      <4>1. CASE frontLine.class = "Text"
        <5>1. LineLimit(limits, frontLine, buffered) = MaxPreludeLine
          BY <3>2, <4>1 DEF LineLimit, StartsIdentification, limits
        <5> QED
          BY <1>2, <2>3, <2>4, <4>1, <5>1 DEF LongestLine, Larger
      <4>2. CASE frontLine.class # "Text"
        <5>1. LineLimit(limits, frontLine, buffered) = MaxIdentificationLine
          BY <3>2, <4>2 DEF LineLimit, StartsIdentification, limits
        <5> QED
          BY <2>3, <4>2, <5>1 DEF LongestLine
      <4> QED
        BY <4>1, <4>2
    <3> QED
      BY <3>1, <3>2
  <2> QED
    BY <1>2, <2>1, <2>3, <2>4, <2>5 DEF Smaller
<1>4. CASE NeedsPackets /\ PacketStep = "NeedMore"
  <2>1. stage = "InitialPackets" /\ Identified
    BY <1>4 DEF Inv, NeedsPackets
  <2>2. frontPacket \in Packet
    BY <1>2, <2>1, FrontPacket
  <2>3. buffered < PacketLen(frontPacket)
    BY <1>2, <1>4, <2>2, PacketNeedMore DEF PacketStep, ProbeType
  <2> QED
    BY <2>1, <2>3
<1> QED
  BY <1>1, <1>3, <1>4 DEF NeedMore

\* For every limit and every server, the probe never waits for a byte it does
\* not need (ident.rs feed, packet.rs decode_initial_packet).
THEOREM NeverWaitsTooLong == Spec => []WaitsForUndecided
<1>1. Inv => WaitsForUndecided
  BY InvWaits
<1> QED
  BY Invariance, <1>1, PTL
----------------------------------------------------------------------------
(* The reference model (StreamModel), for every exchange: what the readers *)
(* decide is what the reference decides, and what it expects of a stream   *)
(* whose first lines and packets are known.                                *)

\* A nonempty set of positions has a first, and Min is it.
LEMMA MinIs ==
    ASSUME NEW T \in SUBSET Nat, T # {}
    PROVE  Min(T) \in T /\ \A y \in T : Min(T) <= y
<1> DEFINE R == OpToRel(<, Nat)
<1>1. IsWellFoundedOn(R, Nat) /\ T \subseteq Nat
  BY NatLessThanWellFounded
<1>2. \A x, y \in Nat : <<y, x>> \in R <=> y < x
  BY DEF OpToRel
<1> HIDE DEF R
<1>3. PICK x \in T : \A y \in T : ~(<<y, x>> \in R)
  BY <1>1, WFMin, Zenon
<1>4. \A y \in T : x <= y
  <2> TAKE y \in T
  <2>1. x \in Nat /\ y \in Nat /\ ~(y < x)
    BY <1>1, <1>2, <1>3
  <2> QED
    BY <2>1
<1> QED
  BY <1>4, Zenon DEF Min

\* The first position where something holds, when it is known where that is.
LEMMA MinAt ==
    ASSUME NEW T \in SUBSET Nat, NEW k \in T, \A j \in 1..(k - 1) : j \notin T, 0 \notin T
    PROVE  Min(T) = k
<1>1. Min(T) \in T /\ Min(T) <= k
  BY MinIs
<1>2. Min(T) \in Nat /\ k \in Nat /\ Min(T) # 0 /\ Min(T) \notin 1..(k - 1)
  BY <1>1
<1> QED
  BY <1>1, <1>2

\* Framing: the reference accepts exactly the headers the decoder accepts.
LEMMA FrameAgrees ==
    ASSUME NEW p \in Packet
    PROVE  RefFrameOK(p) <=> ~BadHeader(p)
<1>1. p.packetLength \in Nat /\ p.paddingLength \in Nat
  BY DEF Packet
<1> DEFINE m == p.packetLength + 4
<1>2. m \in Nat
  BY <1>1
<1>3. (\E blocks \in 0..m : m = 8 * blocks) <=> m % 8 = 0
  <2> HIDE DEF m
  <2>1. ASSUME NEW b \in 0..m, m = 8 * b
        PROVE  m % 8 = 0
    BY <1>2, <2>1
  <2>2. ASSUME m % 8 = 0
        PROVE  m \div 8 \in 0..m /\ m = 8 * (m \div 8)
    BY <1>2, <2>2
  <2> QED
    BY <2>1, <2>2
<1>4. p.paddingLength \in 4..(p.packetLength - 1) <=> ~BadPadding(p)
  BY <1>1 DEF BadPadding, PayloadLen, MIN_PADDING
<1>5. ~BadLength(p) <=> p.packetLength <= MaxPacketLength /\ p.packetLength >= 12 /\ m % 8 = 0
  BY <1>1, InitialAssumption DEF BadLength, MIN_TOTAL_LEN, INITIAL_BLOCK_SIZE
<1> QED
  BY <1>3, <1>4, <1>5 DEF RefFrameOK, BadHeader

\* A verdict on packet i, reached with the counters at its position, is the
\* reference's (packet.rs decode_initial_packet, initial.rs step).
LEMMA PacketAgrees ==
    ASSUME NEW x, WellFormed(x), NEW i \in 1..Len(x.packets), NEW n \in Nat,
           PacketsStep(i - 1, x.packets[i].from, x.packets[i], n) # "NeedMore"
    PROVE  PacketsStep(i - 1, x.packets[i].from, x.packets[i], n) = RefPacket(x, i)
<1> DEFINE p == x.packets[i]
           d == DecodeInitialPacket(p, n)
<1>1. p \in Packet
  BY NextPacket
<1>2. /\ p.packetLength \in Nat /\ p.paddingLength \in Nat /\ p.from \in Nat
      /\ p.message \in Message /\ p.wellFormed \in BOOLEAN /\ i \in Nat /\ i >= 1
  BY <1>1 DEF Packet
<1>3. RefFrameOK(p) <=> ~BadHeader(p)
  BY <1>1, FrameAgrees
<1>4. RefPacket(x, i) = IF ~RefFrameOK(p) THEN "Packet"
                        ELSE IF i > MaxPackets THEN "PacketBudgetExceeded"
                        ELSE IF p.from + p.packetLength + 4 > MaxBytes THEN "ByteBudgetExceeded"
                        ELSE RefClassify(p)
  BY DEF RefPacket
<1> HIDE DEF p
<1>5. CASE d = "Packet"
  <2>1. BadHeader(p)
    BY <1>5 DEF DecodeInitialPacket, BadHeader
  <2> QED
    BY <1>3, <1>4, <1>5, <2>1 DEF PacketsStep, p
<1>6. CASE d = "Complete"
  <2>1. ~BadHeader(p)
    BY <1>6 DEF DecodeInitialPacket, BadHeader
  <2>2. PacketsStep(i - 1, p.from, p, n) =
            IF i - 1 >= MaxPackets THEN "PacketBudgetExceeded"
            ELSE IF p.from + p.packetLength + 4 > MaxBytes THEN "ByteBudgetExceeded"
            ELSE Classify(p)
    BY <1>6 DEF PacketsStep
  <2>3. i - 1 >= MaxPackets <=> i > MaxPackets
    BY <1>2, InitialAssumption
  <2>4. Classify(p) = RefClassify(p)
    <3>1. PayloadLen(p) = 0 <=> p.paddingLength = p.packetLength - 1
      BY <1>2 DEF PayloadLen
    <3> QED
      BY <1>2, <3>1 DEF Classify, RefClassify, Message
  <2> QED
    BY <1>3, <1>4, <2>1, <2>2, <2>3, <2>4 DEF p
<1>7. d \in {"NeedMore", "Packet", "Complete"}
  BY DEF DecodeInitialPacket
<1>8. d # "NeedMore"
  BY DEF PacketsStep, p
<1> QED
  BY <1>5, <1>6, <1>7, <1>8

\* A verdict on line i, reached with the counters at its position, is the
\* reference's, also when the line is not complete yet (ident.rs feed).
LEMMA LineAgrees ==
    ASSUME NEW lim \in IdentLimits, lim.maxIdentificationLine >= PREFIX_LEN,
           NEW x, WellFormed(x), NEW i \in 1..Len(x.lines), NEW n \in Nat,
           IdentFeed(lim, i - 1, x.lines[i].from, x.lines[i], n) # "NeedMore"
    PROVE  IdentFeed(lim, i - 1, x.lines[i].from, x.lines[i], n) = RefLine(lim, x, i)
<1> DEFINE l == x.lines[i]
<1>1. l \in Line /\ l.tell <= l.len /\ (l.class # "Text" => l.tell = PREFIX_LEN)
  BY DEF WellFormed
<1>2. /\ l.len \in Nat /\ l.from \in Nat /\ l.tell \in 1..4 /\ l.class \in LineClass
      /\ i \in Nat /\ i >= 1
      /\ lim.maxPreludeLine \in Nat /\ lim.maxPreludeLines \in Nat
      /\ lim.maxPreludeBytes \in Nat /\ lim.maxIdentificationLine \in Nat
      /\ lim.maxIdentificationLine >= 4
  BY <1>1 DEF Line, PREFIX_LEN, IdentLimits
<1>3. RefLine(lim, x, i) =
          IF l.class # "Text"
          THEN IF l.len > lim.maxIdentificationLine THEN "IdentificationTooLong"
               ELSE CASE l.class = "Invalid"      -> "InvalidIdentification"
                      [] l.class = "OtherVersion" -> "UnsupportedVersion"
                      [] l.class = "Ssh2"         -> "Identification"
          ELSE IF l.len > lim.maxPreludeLine THEN "PreludeLineTooLong"
          ELSE IF i > lim.maxPreludeLines THEN "TooManyPreludeLines"
          ELSE IF l.from + l.len > lim.maxPreludeBytes THEN "PreludeBytesExceeded"
          ELSE "Prelude"
  BY DEF RefLine
<1>4. IdentFeed(lim, i - 1, l.from, l, n) # "NeedMore"
  OBVIOUS
<1> HIDE DEF l
<1>5. CASE n >= l.len
  <2>1. IdentFeed(lim, i - 1, l.from, l, n) =
            IF l.class # "Text"
            THEN IF l.len > lim.maxIdentificationLine
                 THEN "IdentificationTooLong" ELSE ParseIdentification(l)
            ELSE IF l.len > lim.maxPreludeLine THEN "PreludeLineTooLong"
            ELSE IF i - 1 >= lim.maxPreludeLines THEN "TooManyPreludeLines"
            ELSE IF l.from + l.len > lim.maxPreludeBytes THEN "PreludeBytesExceeded"
            ELSE "Prelude"
    BY <1>2, <1>5 DEF IdentFeed
  <2>2. i - 1 >= lim.maxPreludeLines <=> i > lim.maxPreludeLines
    BY <1>2
  <2> QED
    BY <1>2, <1>3, <2>1, <2>2 DEF ParseIdentification, LineClass, l
<1>6. CASE n < l.len
  <2>1. IdentFeed(lim, i - 1, l.from, l, n) = PartialLine(lim, l, n)
    BY <1>6 DEF IdentFeed
  <2>2. n >= LineLimit(lim, l, n)
    BY <1>4, <2>1 DEF PartialLine
  <2>3. n >= l.tell
    <3>1. ASSUME n < l.tell PROVE FALSE
      <4>1. StartsIdentification(l, n) = "Unknown"
        BY <1>2, <3>1 DEF StartsIdentification
      <4>2. LineLimit(lim, l, n) = Larger(lim.maxPreludeLine, lim.maxIdentificationLine)
        BY <4>1 DEF LineLimit
      <4> QED
        BY <1>2, <2>2, <3>1, <4>2 DEF Larger
    <3>2. n \in Nat /\ l.tell \in Nat
      BY <1>2
    <3> QED
      BY ONLY <3>1, <3>2
  <2>4. CASE l.class = "Text"
    <3>1. StartsIdentification(l, n) = "No" /\ LineLimit(lim, l, n) = lim.maxPreludeLine
      BY <1>2, <2>3, <2>4 DEF StartsIdentification, LineLimit
    <3>2. l.len > lim.maxPreludeLine /\ PartialLine(lim, l, n) = "PreludeLineTooLong"
      BY <1>2, <1>6, <2>2, <3>1 DEF PartialLine
    <3> QED
      BY <1>3, <2>1, <2>4, <3>2 DEF l
  <2>5. CASE l.class # "Text"
    <3>1. StartsIdentification(l, n) = "Yes" /\ LineLimit(lim, l, n) = lim.maxIdentificationLine
      BY <1>2, <2>3, <2>5 DEF StartsIdentification, LineLimit
    <3>2. l.len > lim.maxIdentificationLine /\ PartialLine(lim, l, n) = "IdentificationTooLong"
      BY <1>2, <1>6, <2>2, <3>1 DEF PartialLine
    <3> QED
      BY <1>3, <2>1, <2>5, <3>2 DEF l
  <2> QED
    BY <2>4, <2>5
<1> QED
  BY <1>2, <1>5, <1>6

\* What is expected of the packets when the first k are known to be skipped.
LEMMA ExpectedPackets ==
    ASSUME NEW x, WellFormed(x), NEW ls, NEW k \in 0..Len(x.packets),
           \A j \in 1..k : RefPacket(x, j) = "Skipped"
    PROVE  /\ ExpectPackets(x, ls).lines = ls
           /\ ExpectPackets(x, ls).packets \in Nat /\ ExpectPackets(x, ls).packets >= k
           /\ k = Len(x.packets) => ExpectPackets(x, ls) = Expectation(ls, k, "Incomplete")
           /\ k < Len(x.packets) /\ RefPacket(x, k + 1) # "Skipped" =>
                 ExpectPackets(x, ls) = Expectation(ls, k, RefPacket(x, k + 1))
<1> DEFINE ends == {i \in DOMAIN x.packets : RefPacket(x, i) # "Skipped"}
<1>1. Len(x.packets) \in Nat /\ DOMAIN x.packets = 1..Len(x.packets)
  BY DEF WellFormed
<1>2. ends \in SUBSET Nat /\ 0 \notin ends /\ \A j \in 1..k : j \notin ends
  BY <1>1
<1>3. ExpectPackets(x, ls) = IF ends = {} THEN Expectation(ls, Len(x.packets), "Incomplete")
                             ELSE Expectation(ls, Min(ends) - 1, RefPacket(x, Min(ends)))
  BY DEF ExpectPackets
<1>4. k + 1 \in ends => Min(ends) = k + 1
  <2> SUFFICES ASSUME k + 1 \in ends PROVE Min(ends) = k + 1
    OBVIOUS
  <2>1. \A j \in 1..((k + 1) - 1) : j \notin ends
    BY <1>1, <1>2
  <2> HIDE DEF ends
  <2> QED
    BY <1>2, <2>1, MinAt
<1>5. ends # {} => Min(ends) \in Nat /\ Min(ends) > k
  <2> SUFFICES ASSUME ends # {} PROVE Min(ends) \in Nat /\ Min(ends) > k
    OBVIOUS
  <2>1. Min(ends) \in ends
    BY <1>2, MinIs
  <2>2. Min(ends) \in Nat /\ Min(ends) # 0 /\ Min(ends) \notin 1..k
    BY <1>2, <2>1
  <2> QED
    BY ONLY <2>2, k \in 0..Len(x.packets), <1>1
<1>6. k = Len(x.packets) => ends = {}
  BY <1>1, <1>2
<1>7. k < Len(x.packets) /\ RefPacket(x, k + 1) # "Skipped" => k + 1 \in ends
  BY <1>1
<1> HIDE DEF ends
<1>8. CASE ends = {}
  BY <1>1, <1>3, <1>7, <1>8 DEF Expectation
<1>9. CASE ends # {}
  <2>1. Min(ends) - 1 \in Nat /\ Min(ends) - 1 >= k
    BY <1>1, <1>5, <1>9
  <2>2. ExpectPackets(x, ls) = Expectation(ls, Min(ends) - 1, RefPacket(x, Min(ends)))
    BY <1>3, <1>9
  <2>3. k + 1 \in ends => ExpectPackets(x, ls) = Expectation(ls, k, RefPacket(x, k + 1))
    BY <1>1, <1>4, <2>2
  <2> QED
    BY <1>6, <1>7, <1>9, <2>1, <2>2, <2>3 DEF Expectation
<1> QED
  BY <1>8, <1>9

\* What is expected of a stream when the first k lines are known to be
\* prelude, unless it is an observer's and unexpected from the start.
LEMMA ExpectedLines ==
    ASSUME NEW x, WellFormed(x), NEW lim, NEW b, NEW o, NEW k \in 0..Len(x.lines),
           ~(o /\ x.lines # <<>> /\ x.lines[1].class = "Text"),
           \A j \in 1..k : RefLine(lim, x, j) = "Prelude"
    PROVE  /\ k = Len(x.lines) => Expect(x, lim, b, o) = Expectation(k, 0, "Incomplete")
           /\ Expect(x, lim, b, o).lines \in Nat /\ Expect(x, lim, b, o).lines >= k
           /\ Expect(x, lim, b, o).packets \in Nat
           /\ k < Len(x.lines) /\ RefLine(lim, x, k + 1) \notin {"Prelude", "Identification"} =>
                 Expect(x, lim, b, o) = Expectation(k, 0, RefLine(lim, x, k + 1))
           /\ k < Len(x.lines) /\ RefLine(lim, x, k + 1) = "Identification" =>
                 /\ b => Expect(x, lim, b, o) = Expectation(k + 1, 0, "BannerOnly")
                 /\ ~b => Expect(x, lim, b, o) = ExpectPackets(x, k + 1)
<1> DEFINE ends == {i \in DOMAIN x.lines : RefLine(lim, x, i) # "Prelude"}
           m == Min(ends)
<1>1. Len(x.lines) \in Nat /\ DOMAIN x.lines = 1..Len(x.lines)
  BY DEF WellFormed
<1>2. ends \in SUBSET Nat /\ 0 \notin ends /\ \A j \in 1..k : j \notin ends
  BY <1>1
<1>3. Expect(x, lim, b, o) =
         IF ends = {} THEN Expectation(Len(x.lines), 0, "Incomplete")
         ELSE IF RefLine(lim, x, m) # "Identification"
              THEN Expectation(m - 1, 0, RefLine(lim, x, m))
         ELSE IF b THEN Expectation(m, 0, "BannerOnly")
         ELSE ExpectPackets(x, m)
  BY DEF Expect
<1>4. k + 1 \in ends => m = k + 1
  <2> SUFFICES ASSUME k + 1 \in ends PROVE m = k + 1
    OBVIOUS
  <2>1. \A j \in 1..((k + 1) - 1) : j \notin ends
    BY <1>1, <1>2
  <2> HIDE DEF ends
  <2> QED
    BY <1>2, <2>1, MinAt
<1>5. ends # {} => m \in Nat /\ m > k
  <2> SUFFICES ASSUME ends # {} PROVE m \in Nat /\ m > k
    OBVIOUS
  <2>1. m \in ends
    BY <1>2, MinIs
  <2> HIDE DEF ends, m
  <2> QED
    BY <1>1, <1>2, <2>1
<1>6. k = Len(x.lines) => ends = {}
  BY <1>1, <1>2
<1>7. k < Len(x.lines) /\ RefLine(lim, x, k + 1) # "Prelude" => k + 1 \in ends
  BY <1>1
<1>8. ExpectPackets(x, m).lines = m /\ ExpectPackets(x, m).packets \in Nat
  <2>1. 0 \in 0..Len(x.packets) /\ \A j \in 1..0 : RefPacket(x, j) = "Skipped"
    BY DEF WellFormed
  <2> HIDE DEF m
  <2> QED
    BY <2>1, ExpectedPackets
<1> HIDE DEF ends, m
<1>9. CASE ends = {}
  BY <1>1, <1>3, <1>7, <1>9 DEF Expectation
<1>10. CASE ends # {}
  <2>1. m - 1 \in Nat /\ m - 1 >= k /\ m \in Nat /\ m >= k
    BY <1>1, <1>5, <1>10
  <2>2. Expect(x, lim, b, o).lines \in Nat /\ Expect(x, lim, b, o).lines >= k
        /\ Expect(x, lim, b, o).packets \in Nat
    BY <1>3, <1>8, <1>10, <2>1 DEF Expectation
  <2>3. CASE k + 1 \in ends
    <3>1. m = k + 1 /\ m - 1 = k
      BY <1>1, <1>4, <2>3
    <3> QED
      BY <1>3, <1>6, <1>10, <2>2, <3>1
  <2>4. CASE k + 1 \notin ends
    BY <1>6, <1>7, <1>10, <2>2, <2>4
  <2> QED
    BY <2>3, <2>4
<1> QED
  BY <1>9, <1>10

\* What ends in order, the last within a total, ends within it.
LEMMA EndsWithin ==
    ASSUME NEW n \in Nat, NEW e \in [1..n -> Nat], NEW total \in Nat,
           n > 0 => e[n] <= total, \A i \in 1..(n - 1) : e[i] <= e[i + 1]
    PROVE  \A i \in 1..n : e[i] <= total
<1> DEFINE bad == {d \in 0..(n - 1) : ~(e[n - d] <= total)}
<1> SUFFICES ASSUME NEW i \in 1..n, ~(e[i] <= total) PROVE FALSE
  OBVIOUS
<1>1. n - i \in 0..(n - 1) /\ n - (n - i) = i
  OBVIOUS
<1>2. bad \in SUBSET Nat /\ bad # {}
  <2>1. n - i \in bad
    BY <1>1
  <2>2. \A d \in bad : d \in Nat
    OBVIOUS
  <2> HIDE DEF bad
  <2> QED
    BY <2>1, <2>2
<1>3. PICK d \in bad : \A y \in bad : d <= y
  <2> HIDE DEF bad
  <2>1. Min(bad) \in bad /\ \A y \in bad : Min(bad) <= y
    BY <1>2, MinIs
  <2> QED
    BY <2>1, Zenon
<1>4. d \in 0..(n - 1) /\ ~(e[n - d] <= total)
  BY <1>3
<1>5. CASE d = 0
  <2>1. n > 0 /\ n - d = n
    BY <1>5
  <2> QED
    BY <1>4, <2>1
<1>6. CASE d # 0
  <2>1. d - 1 \in 0..(n - 1) /\ ~(d <= d - 1)
    BY <1>4, <1>6
  <2>2. d - 1 \notin bad
    BY <1>3, <2>1
  <2>3. e[n - (d - 1)] <= total
    BY <2>1, <2>2
  <2>4. n - d \in 1..(n - 1) /\ n - (d - 1) = (n - d) + 1 /\ (n - d) + 1 \in 1..n
    BY <1>4, <1>6
  <2>5. e[n - d] <= e[(n - d) + 1] /\ e[n - d] \in Nat /\ e[(n - d) + 1] \in Nat
    BY <2>4
  <2> QED
    BY <1>4, <2>3, <2>4, <2>5
<1> QED
  BY <1>5, <1>6

\* Every packet ends within the stream.
LEMMA PacketFits ==
    ASSUME NEW x, WellFormed(x), NEW i \in 1..Len(x.packets)
    PROVE  x.linesLen + x.packets[i].from + PacketLen(x.packets[i]) <= x.size
<1> DEFINE n == Len(x.packets)
           e == [j \in 1..n |-> x.linesLen + x.packets[j].from + PacketLen(x.packets[j])]
<1>1. x.packets \in Seq(Packet) /\ n \in Nat /\ x.linesLen \in Nat /\ x.size \in Nat
  BY DEF WellFormed
<1>2. \A j \in 1..n : /\ x.packets[j].from \in Nat /\ PacketLen(x.packets[j]) \in Nat
                      /\ e[j] = x.linesLen + x.packets[j].from + PacketLen(x.packets[j])
                      /\ e[j] \in Nat
  <2> TAKE j \in 1..n
  <2>1. x.packets[j] \in Packet
    BY <1>1
  <2>2. x.packets[j].from \in Nat /\ PacketLen(x.packets[j]) \in Nat
    BY <2>1, PacketLenAtLeast DEF Packet
  <2>3. e[j] = x.linesLen + x.packets[j].from + PacketLen(x.packets[j])
    OBVIOUS
  <2>4. x.linesLen \in Nat
    BY <1>1
  <2> HIDE DEF e
  <2> QED
    BY ONLY <2>2, <2>3, <2>4
<1>3. e \in [1..n -> Nat]
  <2>1. e = [j \in 1..n |-> e[j]]
    OBVIOUS
  <2> HIDE DEF e
  <2> QED
    BY <1>2, <2>1
<1>4. n > 0 => e[n] <= x.size
  <2> SUFFICES ASSUME n > 0 PROVE e[n] <= x.size
    OBVIOUS
  <2>1. n \in 1..n
    BY <1>1
  <2>2. x.size = x.linesLen + x.packets[n].from + PacketLen(x.packets[n])
    BY <2>1 DEF WellFormed
  <2> QED
    BY <1>1, <1>2, <2>1, <2>2
<1>5. \A j \in 1..(n - 1) : e[j] <= e[j + 1]
  <2> TAKE j \in 1..(n - 1)
  <2>1. j \in 1..n /\ j + 1 \in 1..n /\ j + 1 # 1 /\ (j + 1) - 1 = j
    BY <1>1
  <2>2. x.packets[j + 1].from = x.packets[j].from + PacketLen(x.packets[j])
    BY <2>1 DEF WellFormed
  <2>3. /\ e[j] = x.linesLen + x.packets[j].from + PacketLen(x.packets[j])
        /\ e[j + 1] = x.linesLen + x.packets[j + 1].from + PacketLen(x.packets[j + 1])
        /\ x.packets[j].from \in Nat /\ PacketLen(x.packets[j]) \in Nat
        /\ PacketLen(x.packets[j + 1]) \in Nat
    BY <1>2, <2>1
  <2>4. x.linesLen \in Nat
    BY <1>1
  <2> HIDE DEF e
  <2> QED
    BY ONLY <2>2, <2>3, <2>4
<1> HIDE DEF e
<1>6. \A j \in 1..n : e[j] <= x.size
  BY <1>1, <1>3, <1>4, <1>5, EndsWithin
<1> QED
  BY <1>2, <1>6

\* Every line ends within the lines, and these within the stream.
LEMMA LineFits ==
    ASSUME NEW x, WellFormed(x), NEW i \in 1..Len(x.lines)
    PROVE  x.lines[i].from + x.lines[i].len <= x.linesLen /\ x.linesLen <= x.size
<1> DEFINE n == Len(x.lines)
           e == [j \in 1..n |-> x.lines[j].from + x.lines[j].len]
<1>1. x.lines \in Seq(Line) /\ n \in Nat /\ x.linesLen \in Nat /\ x.size \in Nat
  BY DEF WellFormed
<1>2. \A j \in 1..n : /\ x.lines[j].from \in Nat /\ x.lines[j].len \in Nat
                      /\ e[j] = x.lines[j].from + x.lines[j].len
                      /\ e[j] \in Nat
  <2> TAKE j \in 1..n
  <2>1. x.lines[j] \in Line
    BY <1>1
  <2>2. x.lines[j].from \in Nat /\ x.lines[j].len \in Nat
    BY <2>1 DEF Line
  <2>3. e[j] = x.lines[j].from + x.lines[j].len
    OBVIOUS
  <2> HIDE DEF e
  <2> QED
    BY ONLY <2>2, <2>3
<1>3. e \in [1..n -> Nat]
  <2>1. e = [j \in 1..n |-> e[j]]
    OBVIOUS
  <2> HIDE DEF e
  <2> QED
    BY <1>2, <2>1
<1>4. n > 0 => e[n] <= x.linesLen
  <2> SUFFICES ASSUME n > 0 PROVE e[n] <= x.linesLen
    OBVIOUS
  <2>1. n \in 1..n
    BY <1>1
  <2>2. x.linesLen = x.lines[n].from + x.lines[n].len
    BY <2>1 DEF WellFormed
  <2> QED
    BY <1>1, <1>2, <2>1, <2>2
<1>5. \A j \in 1..(n - 1) : e[j] <= e[j + 1]
  <2> TAKE j \in 1..(n - 1)
  <2>1. j \in 1..n /\ j + 1 \in 1..n /\ j + 1 # 1 /\ (j + 1) - 1 = j
    BY <1>1
  <2>2. x.lines[j + 1].from = x.lines[j].from + x.lines[j].len
    BY <2>1 DEF WellFormed
  <2>3. /\ e[j] = x.lines[j].from + x.lines[j].len
        /\ e[j + 1] = x.lines[j + 1].from + x.lines[j + 1].len
        /\ x.lines[j].from \in Nat /\ x.lines[j].len \in Nat /\ x.lines[j + 1].len \in Nat
    BY <1>2, <2>1
  <2> HIDE DEF e
  <2> QED
    BY ONLY <2>2, <2>3
<1> HIDE DEF e
<1>6. \A j \in 1..n : e[j] <= x.linesLen
  BY <1>1, <1>3, <1>4, <1>5, EndsWithin
<1>7. x.linesLen <= x.size
  <2>1. CASE x.packets = <<>>
    BY <1>1, <2>1 DEF WellFormed
  <2>2. CASE x.packets # <<>>
    <3>1. 1 \in 1..Len(x.packets) /\ x.packets[1] \in Packet
      BY <2>2 DEF WellFormed
    <3>2. x.linesLen + x.packets[1].from + PacketLen(x.packets[1]) <= x.size
      BY <3>1, PacketFits
    <3>3. x.packets[1].from \in Nat /\ PacketLen(x.packets[1]) \in Nat
      BY <3>1, PacketLenAtLeast DEF Packet
    <3> QED
      BY <1>1, <3>2, <3>3
  <2> QED
    BY <2>1, <2>2
<1> QED
  BY <1>2, <1>6, <1>7

----------------------------------------------------------------------------
(* The probe against the reference model.                                  *)

\* The prelude lines gone past.
Passed == IF Identified THEN line - 2 ELSE line - 1

\* How a probe ended, in the reference's words.
Explained ==
    /\ end.code \notin {"BannerOnly", "UnexpectedInput"}
    /\ end.code \in IdentError =>
          /\ ~Identified /\ line <= Len(exchange.lines)
          /\ RefLine(limits, exchange, line) = end.code
    /\ end.code \in PacketError \union {"KexInit", "Disconnect"} =>
          /\ Identified /\ Reported < Len(exchange.packets)
          /\ RefPacket(exchange, Reported + 1) = end.code
    /\ end.code = "Eof" => IF Identified THEN buffered < PacketLen(frontPacket)
                           ELSE buffered < frontLine.len

\* Everything the probe went past is what the reference goes past.
FollowInv ==
    /\ \A j \in 1..Passed : RefLine(limits, exchange, j) = "Prelude"
    /\ Identified => RefLine(limits, exchange, line - 1) = "Identification"
    /\ Reported \in Nat
    /\ \A j \in 1..Reported : RefPacket(exchange, j) = "Skipped"
    /\ Explained

\* What the reader decides of the line at the front is what the reference
\* decides of it.
LEMMA LineVerdict ==
    ASSUME Inv, NeedsIdentification, IdentStep # "NeedMore"
    PROVE  /\ ~Identified /\ packet = 1 /\ line \in 1..Len(exchange.lines)
           /\ frontLine = exchange.lines[line] /\ frontLine \in Line
           /\ IdentStep = RefLine(limits, exchange, line)
<1>1. ~Identified /\ packet = 1 /\ end = NoEnd
  BY DEF Inv, NeedsIdentification
<1>2. /\ ProbeType /\ WellFormed(exchange) /\ buffered \in Nat
      /\ bytesRead = Position + buffered
      /\ preludeLines = line - 1 /\ preludeBytes = LineStart(exchange, line)
      /\ line \in 1..(Len(exchange.lines) + 1) /\ Len(exchange.lines) \in Nat
  BY <1>1, CapacityNat DEF Inv, TypeOK, ProbeType, BytesAccounted, WellFormed
<1>3. frontLine \in Line
  BY <1>1, <1>2, FrontLine
<1>4. buffered > 0
  <2> SUFFICES ASSUME buffered = 0 PROVE FALSE
    BY <1>2
  <2>1. frontLine.len \in Nat /\ frontLine.len > 0 /\ frontLine.tell >= 1 /\ frontLine.tell \in Nat
    <3>1. CASE line <= Len(exchange.lines)
      <4>1. line \in 1..Len(exchange.lines) /\ frontLine = exchange.lines[line]
        BY <1>2, <3>1 DEF frontLine, At
      <4>2. frontLine.len \in Nat /\ frontLine.len >= 1
        BY <1>2, <4>1, NextLine
      <4>3. frontLine.tell \in 1..4
        BY <1>3 DEF Line, PREFIX_LEN
      <4> QED
        BY <4>2, <4>3
    <3>2. CASE ~(line <= Len(exchange.lines))
      <4>1. frontLine = NoLine
        BY <3>2 DEF frontLine, At
      <4> QED
        BY <4>1 DEF NoLine
    <3> QED
      BY <3>1, <3>2
  <2>2. IdentStep = PartialLine(limits, frontLine, buffered)
    BY <2>1 DEF IdentStep, IdentFeed
  <2>3. StartsIdentification(frontLine, buffered) = "Unknown"
    BY <2>1 DEF StartsIdentification
  <2>4. LineLimit(limits, frontLine, buffered) = Larger(MaxPreludeLine, MaxIdentificationLine)
    BY <2>3 DEF LineLimit, limits
  <2>5. ~(0 >= Larger(MaxPreludeLine, MaxIdentificationLine))
    BY DEF Larger, PREFIX_LEN
  <2> QED
    BY <2>2, <2>4, <2>5 DEF PartialLine
<1>5. line \in 1..Len(exchange.lines) /\ frontLine = exchange.lines[line]
  BY <1>1, <1>2, <1>4, FrontLine
<1>6. preludeBytes = exchange.lines[line].from
  BY <1>2, <1>5 DEF LineStart
<1>7. IdentStep = IdentFeed(limits, line - 1, exchange.lines[line].from,
                            exchange.lines[line], buffered)
  BY <1>2, <1>5, <1>6 DEF IdentStep
<1>8. limits.maxIdentificationLine >= PREFIX_LEN
  BY DEF limits
<1>9. IdentStep = RefLine(limits, exchange, line)
  BY <1>2, <1>5, <1>7, <1>8, Limits, LineAgrees
<1> QED
  BY <1>1, <1>3, <1>5, <1>9

\* What the decoder decides of the packet at the front is what the reference
\* decides of it.
LEMMA PacketVerdict ==
    ASSUME Inv, NeedsPackets, PacketStep # "NeedMore"
    PROVE  /\ Identified /\ packet \in 1..Len(exchange.packets)
           /\ PacketStep = RefPacket(exchange, packet)
<1>1. /\ Identified /\ end = NoEnd /\ ProbeType /\ WellFormed(exchange) /\ buffered \in Nat
      /\ bytesRead = Position + buffered
      /\ packets = packet - 1 /\ bytes = PacketStart
  BY CapacityNat DEF Inv, TypeOK, ProbeType, NeedsPackets, BytesAccounted
<1>2. buffered > 0
  <2> SUFFICES ASSUME buffered = 0 PROVE FALSE
    BY <1>1
  <2>1. DecodeInitialPacket(frontPacket, buffered) = "NeedMore"
    BY DEF DecodeInitialPacket
  <2> QED
    BY <2>1 DEF PacketStep, PacketsStep
<1>3. packet \in 1..Len(exchange.packets) /\ frontPacket = exchange.packets[packet]
  BY <1>1, <1>2, FrontPacket
<1>4. bytes = exchange.packets[packet].from
  BY <1>1, <1>3 DEF PacketStart
<1>5. PacketStep = PacketsStep(packet - 1, exchange.packets[packet].from,
                               exchange.packets[packet], buffered)
  BY <1>1, <1>3, <1>4 DEF PacketStep
<1> QED
  BY <1>1, <1>3, <1>5, PacketAgrees

\* A step of the driver that leaves the front of the stream where it is.
LEMMA SameFollow ==
    ASSUME FollowInv, UNCHANGED <<line, packet, end, exchange>>,
           end.code = "Eof" => buffered' = buffered
    PROVE  FollowInv'
<1>1. /\ Reported' = Reported /\ limits' = limits /\ frontLine' = frontLine
      /\ frontPacket' = frontPacket /\ (Identified' <=> Identified)
  BY DEF Reported, limits, frontLine, frontPacket, Identified
<1>2. Passed' = Passed
  BY <1>1 DEF Passed
<1>3. Explained'
  BY <1>1 DEF FollowInv, Explained
<1> QED
  BY <1>1, <1>2, <1>3 DEF FollowInv

\* The probe ends, for a reason the reference has as well.
LEMMA EndFollow ==
    ASSUME Inv, FollowInv, end = NoEnd, Explained',
           UNCHANGED <<line, exchange>>, packet' = packet + Ending'
    PROVE  FollowInv'
<1>1. /\ Ending = 0 /\ Ending' \in {0, 1} /\ packet \in Int
      /\ Reported = packet - 1 - Ending /\ Reported' = packet' - 1 - Ending'
  BY DEF Ending, NoEnd, Ended, Reported, Inv, TypeOK, ProbeType
<1>2. Reported' = Reported
  <2>1. CASE Ending' = 0
    BY <1>1, <2>1
  <2>2. CASE Ending' = 1
    BY <1>1, <2>2
  <2> QED
    BY <1>1, <2>1, <2>2
<1>3. limits' = limits /\ (Identified' <=> Identified)
  BY DEF limits, Identified
<1>4. Passed' = Passed
  BY <1>3 DEF Passed
<1> QED
  BY <1>2, <1>3, <1>4 DEF FollowInv

LEMMA InitFollow == Init => FollowInv
<1> SUFFICES ASSUME Init PROVE FollowInv
  OBVIOUS
<1>1. line = 1 /\ packet = 1 /\ end.code = "None"
  BY DEF Init, NoEnd, Ended
<1>2. Reported = 0
  <2>1. Ending = 0 /\ Reported = packet - 1 - Ending
    BY <1>1 DEF Ending, Reported
  <2> QED
    BY <1>1, <2>1
<1>3. ~Identified
  BY <1>1 DEF Identified
<1>4. Passed = 0
  BY <1>1, <1>3 DEF Passed
<1>5. Explained
  BY <1>1 DEF Explained, IdentError, PacketError
<1> QED
  BY <1>2, <1>3, <1>4, <1>5 DEF FollowInv

\* A line or a packet that is reported is one the reference goes past.
LEMMA EventFollow ==
    ASSUME Inv, FollowInv, UNCHANGED <<exchange, bytesRead>>,
           PreludeLine \/ ServerIdentification \/ Skipped
    PROVE  FollowInv'
<1>0. line \in Int /\ packet \in Int
  BY DEF Inv, TypeOK, ProbeType
<1>1. end = NoEnd /\ end' = end /\ end.code = "None"
  BY DEF PreludeLine, ServerIdentification, Skipped, NeedsIdentification, NeedsPackets,
         NoEnd, Ended
<1>2. Explained'
  BY <1>1 DEF Explained, IdentError, PacketError
<1>3. limits' = limits
  BY DEF limits
<1>4. /\ Ending = 0 /\ Ending' = 0
      /\ Reported = packet - 1 - Ending /\ Reported' = packet' - 1 - Ending'
  BY <1>1 DEF Ending, Reported
<1>5. CASE PreludeLine \/ ServerIdentification
  <2>1. /\ NeedsIdentification /\ IdentStep \in {"Prelude", "Identification"} /\ ConsumeLine
        /\ packet' = packet
    BY <1>5 DEF PreludeLine, ServerIdentification
  <2>2. /\ ~Identified /\ line \in 1..Len(exchange.lines) /\ line' = line + 1
        /\ frontLine = exchange.lines[line]
        /\ IdentStep = RefLine(limits, exchange, line)
    BY <2>1, LineVerdict DEF ConsumeLine
  <2>3. IdentStep = "Prelude" <=> frontLine.class = "Text"
    <3>1. frontLine \in Line /\ frontLine.class \in LineClass
      BY <2>1, LineVerdict DEF Line
    <3> QED
      BY <2>1, <2>2, <3>1 DEF RefLine, LineClass
  <2>4. Identified' <=> frontLine.class # "Text"
    <3>1. line' > 1 /\ line' - 1 = line
      BY <1>0, <2>2
    <3> QED
      BY <2>2, <3>1 DEF Identified
  <2>5. Reported' = Reported
    BY <1>4, <2>1
  <2>6. Passed = line - 1
    BY <2>2 DEF Passed
  <2>7. CASE IdentStep = "Prelude"
    <3>1. ~Identified' /\ Passed' = line
      <4>1. ~Identified'
        BY <2>3, <2>4, <2>7
      <4> QED
        BY <1>0, <2>2, <4>1 DEF Passed
    <3>2. \A j \in 1..Passed' : RefLine(limits, exchange, j) = "Prelude"
      <4> TAKE j \in 1..Passed'
      <4>1. CASE j = line
        BY <2>2, <2>7, <4>1
      <4>2. CASE j # line
        <5>1. j \in 1..Passed
          BY <1>0, <2>6, <3>1, <4>2
        <5> QED
          BY <5>1 DEF FollowInv
      <4> QED
        BY <4>1, <4>2
    <3> QED
      BY <1>2, <1>3, <2>5, <3>1, <3>2 DEF FollowInv
  <2>8. CASE IdentStep = "Identification"
    <3>1. Identified'
      BY <2>3, <2>4, <2>8
    <3>2. Passed' = Passed /\ line' - 1 = line
      BY <1>0, <2>2, <2>6, <3>1 DEF Passed
    <3>3. RefLine(limits, exchange, line' - 1) = "Identification"
      BY <2>2, <2>8, <3>2
    <3> QED
      BY <1>2, <1>3, <2>5, <3>2, <3>3 DEF FollowInv
  <2> QED
    BY <2>1, <2>7, <2>8
<1>6. CASE Skipped
  <2>1. NeedsPackets /\ PacketStep = "Skipped" /\ packet' = packet + 1 /\ line' = line
    BY <1>6 DEF Skipped, Consume
  <2>2. RefPacket(exchange, packet) = "Skipped" /\ packet \in 1..Len(exchange.packets)
    BY <2>1, PacketVerdict
  <2>3. Reported = packet - 1 /\ Reported' = packet /\ Reported' \in Nat
    BY <1>0, <1>4, <2>1, <2>2
  <2>4. \A j \in 1..Reported' : RefPacket(exchange, j) = "Skipped"
    <3> TAKE j \in 1..Reported'
    <3>1. CASE j = packet
      BY <2>2, <3>1
    <3>2. CASE j # packet
      <4>1. j \in 1..Reported
        BY <1>0, <2>3, <3>2
      <4> QED
        BY <4>1 DEF FollowInv
    <3> QED
      BY <3>1, <3>2
  <2>5. Identified' <=> Identified
    BY <2>1 DEF Identified
  <2>6. Passed' = Passed
    BY <2>1, <2>5 DEF Passed
  <2> QED
    BY <1>2, <1>3, <2>1, <2>3, <2>4, <2>5, <2>6 DEF FollowInv
<1> QED
  BY <1>5, <1>6

\* Every step keeps it.
LEMMA NextFollow ==
    ASSUME Inv, RunInv, FollowInv, [Next]_vars
    PROVE  FollowInv'
<1>0. packet \in Int /\ (pc # "Returned" => end = NoEnd)
  BY DEF Inv, TypeOK, ProbeType, RunInv
<1> DriverType'
  BY DriverTypeStep DEF Inv
<1>1. CASE ConnectGivesUp
  BY <1>1, SameFollow DEF ConnectGivesUp, probe
<1>2. CASE AttemptFails
  BY <1>2, SameFollow DEF AttemptFails, probe
<1>3. CASE Connected
  BY <1>3, SameFollow DEF Connected, probe
<1>4. CASE SetupFails
  BY <1>4, SameFollow DEF SetupFails, probe
<1>5. CASE WriteIdentification
  BY <1>5, SameFollow DEF WriteIdentification, probe
<1>6. CASE WriteFails
  BY <1>6, SameFollow DEF WriteFails, GiveUp, probe
<1>7. CASE StepEvent
  BY <1>7, EventFollow DEF StepEvent
<1>8. CASE StepFinished
  <2>1. exchange' = exchange
    BY <1>8 DEF StepFinished
  <2>2. CASE UNCHANGED probe
    BY <2>1, <2>2, SameFollow DEF probe
  <2>3. CASE IdentificationError
    <3>1. /\ NeedsIdentification /\ IdentStep \in IdentError /\ end = NoEnd
          /\ end'.code = IdentStep /\ UNCHANGED <<line, packet>>
      BY <2>3 DEF IdentificationError, NeedsIdentification, Finish, Ended
    <3>2. IdentStep # "NeedMore"
      BY <3>1 DEF IdentError
    <3>3. /\ ~Identified /\ line \in 1..Len(exchange.lines)
          /\ IdentStep = RefLine(limits, exchange, line)
      BY <3>1, <3>2, LineVerdict
    <3>4. limits' = limits /\ (Identified' <=> Identified) /\ line <= Len(exchange.lines)
      BY <2>1, <3>1, <3>3 DEF limits, Identified
    <3>5. Explained'
      BY <2>1, <3>1, <3>3, <3>4 DEF Explained, IdentError, PacketError
    <3>6. Ending' = 0
      BY <3>1 DEF Ending, IdentError
    <3> QED
      BY <1>0, <2>1, <3>1, <3>5, <3>6, EndFollow
  <2>4. CASE LastPacket \/ ErrorPacket
    <3>1. /\ NeedsPackets /\ end = NoEnd /\ end'.code = PacketStep /\ line' = line
          /\ PacketStep \in PacketError \union {"KexInit", "Disconnect"}
          /\ packet' = packet + Ending'
      BY <1>0, <2>4 DEF LastPacket, ErrorPacket, NeedsPackets, Finish, Ended, Consume, Ending,
         PacketError
    <3>2. PacketStep # "NeedMore"
      BY <3>1 DEF PacketError
    <3>3. /\ Identified /\ packet \in 1..Len(exchange.packets)
          /\ PacketStep = RefPacket(exchange, packet)
      BY <3>1, <3>2, PacketVerdict
    <3>4. Reported' = packet - 1
      <4>1. Reported' = packet' - 1 - Ending' /\ Ending' \in {0, 1}
        BY DEF Reported, Ending
      <4>2. CASE Ending' = 0
        BY <1>0, <3>1, <4>1, <4>2
      <4>3. CASE Ending' = 1
        BY <1>0, <3>1, <4>1, <4>3
      <4> QED
        BY <4>1, <4>2, <4>3
    <3>5. Len(exchange.packets) \in Nat /\ (Identified' <=> Identified)
      BY <2>1, <3>1 DEF Inv, TypeOK, ProbeType, WellFormed, Identified
    <3>6. Reported' < Len(exchange.packets) /\ Reported' + 1 = packet
      BY <1>0, <3>3, <3>4, <3>5
    <3>7. Explained'
      BY <2>1, <3>1, <3>3, <3>5, <3>6 DEF Explained, IdentError, PacketError
    <3> QED
      BY <1>0, <2>1, <3>1, <3>7, EndFollow
  <2> QED
    BY <1>8, <2>2, <2>3, <2>4 DEF StepFinished
<1>9. CASE StepNeedMore
  BY <1>9, SameFollow DEF StepNeedMore, probe
<1>10. CASE ReadTimesOut
  BY <1>10, SameFollow DEF ReadTimesOut, GiveUp, probe
<1>11. CASE Read
  <2>1. UNCHANGED <<line, packet, stage, end>>
    BY <1>11, ReadStep
  <2>2. exchange' = exchange /\ end.code # "Eof"
    BY <1>0, <1>11 DEF Read, Goto, NoEnd, Ended
  <2> QED
    BY <2>1, <2>2, SameFollow
<1>12. CASE ReadEof
  <2>1. /\ pc = "Read" /\ end'.code = "Eof"
        /\ UNCHANGED <<line, packet, buffered, exchange>>
    BY <1>12 DEF ReadEof, InputEnded, Finish, Ended
  <2>2. end = NoEnd /\ WaitsForUndecided
    BY <1>0, <2>1, InvWaits
  <2>3. IF Identified THEN buffered < PacketLen(frontPacket) ELSE buffered < frontLine.len
    <3>1. CASE Identified
      BY <2>1, <2>2, <3>1 DEF WaitsForUndecided, Inv
    <3>2. CASE ~Identified
      <4>1. stage = "Identification" /\ NeedMore /\ packet = 1
        BY <2>1, <2>2, <3>2 DEF Inv
      <4>2. IdentStep = "NeedMore"
        BY <4>1 DEF NeedMore, NeedsPackets
      <4>3. ProbeType /\ buffered \in Nat /\ bytesRead = Position + buffered
        BY CapacityNat DEF Inv, TypeOK, ProbeType, BytesAccounted
      <4>4. frontLine \in Line
        BY <3>2, <4>1, <4>3, FrontLine
      <4> QED
        BY <3>2, <4>2, <4>3, <4>4, Limits, IdentNeedMore DEF IdentStep, ProbeType
    <3> QED
      BY <3>1, <3>2
  <2>4. frontLine' = frontLine /\ frontPacket' = frontPacket /\ (Identified' <=> Identified)
    BY <2>1 DEF frontLine, frontPacket, Identified
  <2>5. Explained'
    BY <2>1, <2>3, <2>4 DEF Explained, IdentError, PacketError
  <2>6. Ending' = 0
    BY <2>1 DEF Ending
  <2> QED
    BY <1>0, <2>1, <2>2, <2>5, <2>6, EndFollow
<1>13. CASE ReadInterrupted
  BY <1>13, SameFollow DEF ReadInterrupted, probe
<1>14. CASE ReadFails
  BY <1>14, SameFollow DEF ReadFails, GiveUp, probe
<1>15. CASE Expire
  BY <1>15, SameFollow DEF Expire, probe
<1>16. CASE UNCHANGED vars
  BY <1>16, SameFollow DEF vars, probe
<1> QED
  BY <1>1, <1>2, <1>3, <1>4, <1>5, <1>6, <1>7, <1>8, <1>9, <1>10, <1>11, <1>12, <1>13,
     <1>14, <1>15, <1>16 DEF Next, Connect, Drive, Server, Returned

\* Before the identification: a line is refused, or was not complete when the
\* input ended.
LEMMA LinesMeet ==
    ASSUME Inv, FollowInv, ~Identified
    PROVE  AgreesWith(Expect(exchange, limits, FALSE, FALSE), exchange,
                      line - 1, Reported, end.code, bytesRead)
<1> DEFINE b == FALSE
           exp == Expect(exchange, limits, b, b)
           k == line - 1
<1>1. /\ ProbeType /\ WellFormed(exchange) /\ packet = 1 /\ Len(exchange.lines) \in Nat
      /\ line \in 1..(Len(exchange.lines) + 1)
      /\ end.code \in Code \union {"None"} /\ end.code # "InputOverflow"
  BY DEF Inv, TypeOK, ProbeType, WellFormed, OutcomeType
<1>2. Ending = 0 /\ Reported = packet - 1 - Ending
  BY DEF FollowInv, Explained, Ending, Reported
<1>3. Reported = 0 /\ k \in 0..Len(exchange.lines)
  BY <1>1, <1>2
<1>4. end.code \in {"None", "Eof"} \union IdentError
  BY <1>1 DEF FollowInv, Explained, Code
<1>5. end.code = "Eof" /\ bytesRead = exchange.size => k = Len(exchange.lines)
  <2> SUFFICES ASSUME end.code = "Eof", bytesRead = exchange.size, k # Len(exchange.lines)
               PROVE  FALSE
    OBVIOUS
  <2>1. line \in 1..Len(exchange.lines) /\ frontLine = exchange.lines[line]
    BY <1>1 DEF frontLine, At
  <2>2. /\ exchange.lines[line] \in Line /\ exchange.lines[line].len \in Nat
        /\ LineStart(exchange, line) \in Nat
    BY <1>1, <2>1, NextLine
  <2>3. buffered < exchange.lines[line].len /\ buffered \in Nat
    BY <2>1, CapacityNat DEF FollowInv, Explained, Inv, TypeOK, ProbeType
  <2>4. bytesRead = exchange.lines[line].from + buffered
    BY <1>1, <2>1 DEF Inv, BytesAccounted, Position
  <2>5. /\ exchange.lines[line].from + exchange.lines[line].len <= exchange.linesLen
        /\ exchange.linesLen <= exchange.size
    BY <1>1, <2>1, LineFits
  <2>6. exchange.linesLen \in Nat /\ exchange.size \in Nat /\ exchange.lines[line].from \in Nat
    BY <1>1, <2>2 DEF WellFormed, Line
  <2>7. bytesRead < exchange.lines[line].from + exchange.lines[line].len
    BY ONLY <2>2, <2>3, <2>4, <2>6
  <2> QED
    BY ONLY <2>2, <2>4, <2>5, <2>6, <2>7, <2>3, bytesRead = exchange.size
<1>6. \A j \in 1..k : RefLine(limits, exchange, j) = "Prelude"
  BY DEF FollowInv, Passed
<1>7. ~b
  OBVIOUS
<1> HIDE DEF b, k
<1>8. /\ k = Len(exchange.lines) => exp = Expectation(k, 0, "Incomplete")
      /\ exp.lines \in Nat /\ exp.lines >= k /\ exp.packets \in Nat
      /\ k < Len(exchange.lines)
            /\ RefLine(limits, exchange, k + 1) \notin {"Prelude", "Identification"} =>
            exp = Expectation(k, 0, RefLine(limits, exchange, k + 1))
  <2>1. ~(b /\ exchange.lines # <<>> /\ exchange.lines[1].class = "Text")
    BY <1>7
  <2> QED
    BY <1>1, <1>3, <1>6, <2>1, ExpectedLines
<1> HIDE DEF exp
<1>9. AgreesWith(exp, exchange, k, 0, end.code, bytesRead)
  <2>1. CASE end.code = "None"
    BY <1>1, <1>3, <1>8, <2>1 DEF AgreesWith
  <2>2. CASE end.code = "Eof"
    <3>1. bytesRead = exchange.size => exp.lines = k /\ exp.packets = 0 /\ exp.code = "Incomplete"
      BY <1>5, <1>8, <2>2 DEF Expectation
    <3> QED
      BY <1>1, <1>3, <1>8, <2>2, <3>1 DEF AgreesWith
  <2>3. CASE end.code \in IdentError
    <3>1. k < Len(exchange.lines) /\ RefLine(limits, exchange, k + 1) = end.code
      <4>1. line <= Len(exchange.lines) /\ RefLine(limits, exchange, line) = end.code
        BY <2>3 DEF FollowInv, Explained
      <4>2. k + 1 = line /\ k < Len(exchange.lines)
        BY <1>1, <4>1 DEF k
      <4> QED
        BY <4>1, <4>2
    <3>2. end.code \notin {"Prelude", "Identification", "None", "Eof"}
      BY <2>3 DEF IdentError
    <3>3. exp.lines = k /\ exp.packets = 0 /\ exp.code = end.code
      BY <1>8, <3>1, <3>2 DEF Expectation
    <3> QED
      BY <1>3, <3>2, <3>3 DEF AgreesWith
  <2> QED
    BY <1>4, <2>1, <2>2, <2>3
<1> QED
  BY <1>3, <1>9, Zenon DEF exp, b, k

\* The identification was reported; what follows it is as expected.
LEMMA PacketsMeet ==
    ASSUME Inv, FollowInv, Identified
    PROVE  AgreesWith(Expect(exchange, limits, FALSE, FALSE), exchange,
                      line - 1, Reported, end.code, bytesRead)
<1> DEFINE b == FALSE
           exp == Expect(exchange, limits, b, b)
           k == line - 2
           ls == line - 1
           np == Len(exchange.packets)
<1>1. /\ ProbeType /\ WellFormed(exchange) /\ np \in Nat /\ packet \in 1..(np + 1)
      /\ Len(exchange.lines) \in Nat /\ line = Len(exchange.lines) + 1 /\ line > 1
      /\ end.code \in Code \union {"None"} /\ end.code # "InputOverflow"
  <2>1. ProbeType /\ end.code # "InputOverflow"
    BY DEF Inv, TypeOK
  <2>2. line = Len(exchange.lines) + 1 /\ line > 1
    BY <2>1, Front DEF Identified
  <2> QED
    BY <2>1, <2>2 DEF ProbeType, WellFormed, OutcomeType
<1>2. Reported \in Nat /\ Reported = packet - 1 - Ending /\ Ending \in {0, 1}
  BY DEF FollowInv, Reported, Ending
<1>3. Reported \in 0..np
  <2> HIDE DEF np
  <2> QED
    BY <1>1, <1>2
<1>4. k \in 0..Len(exchange.lines) /\ k < Len(exchange.lines) /\ k + 1 = ls
  BY <1>1
<1>5. /\ \A j \in 1..k : RefLine(limits, exchange, j) = "Prelude"
      /\ RefLine(limits, exchange, ls) = "Identification"
  BY DEF FollowInv, Passed
<1>6. ~b
  OBVIOUS
<1> HIDE DEF b, k, ls
<1>7. exp = ExpectPackets(exchange, ls)
  <2>1. ~(b /\ exchange.lines # <<>> /\ exchange.lines[1].class = "Text")
    BY <1>6
  <2>2. exp = ExpectPackets(exchange, k + 1)
    BY <1>1, <1>4, <1>5, <1>6, <2>1, ExpectedLines
  <2> QED
    BY <1>4, <2>2
<1> HIDE DEF exp
<1>8. /\ exp.lines = ls /\ exp.packets \in Nat /\ exp.packets >= Reported
      /\ Reported = np => exp = Expectation(ls, Reported, "Incomplete")
      /\ Reported < np /\ RefPacket(exchange, Reported + 1) # "Skipped" =>
            exp = Expectation(ls, Reported, RefPacket(exchange, Reported + 1))
  <2>1. \A j \in 1..Reported : RefPacket(exchange, j) = "Skipped"
    BY DEF FollowInv
  <2> QED
    BY <1>1, <1>3, <1>7, <2>1, ExpectedPackets
<1>9. end.code \in {"None", "Eof"} \union (PacketError \union {"KexInit", "Disconnect"})
  BY <1>1 DEF FollowInv, Explained, Code
<1>10. ls \in Nat
  BY <1>1 DEF ls
<1> HIDE DEF np
<1>11. AgreesWith(exp, exchange, ls, Reported, end.code, bytesRead)
  <2>1. CASE end.code = "None"
    BY <1>2, <1>8, <1>10, <2>1 DEF AgreesWith
  <2>2. CASE end.code = "Eof"
    <3>1. Ending = 0 /\ Reported = packet - 1
      BY <1>1, <1>2, <2>2 DEF Ending
    <3>2. bytesRead = exchange.size => Reported = np
      <4> SUFFICES ASSUME bytesRead = exchange.size, packet # np + 1 PROVE FALSE
        BY <1>1, <3>1
      <4>1. packet \in 1..Len(exchange.packets) /\ frontPacket = exchange.packets[packet]
        BY <1>1 DEF np, frontPacket, At
      <4>2. PacketStart = exchange.packets[packet].from
        BY <1>1, <4>1 DEF PacketStart, np
      <4>3. bytesRead = Position + buffered /\ buffered < PacketLen(exchange.packets[packet])
        BY <2>2, <4>1 DEF Inv, BytesAccounted, FollowInv, Explained
      <4>4. Position = exchange.linesLen + exchange.packets[packet].from
        BY <1>1, <4>2, Front
      <4>5. exchange.linesLen + exchange.packets[packet].from
                + PacketLen(exchange.packets[packet]) <= exchange.size
        BY <1>1, <4>1, PacketFits
      <4>6. exchange.packets[packet] \in Packet
        BY <1>1, <4>1 DEF WellFormed
      <4>7. /\ exchange.linesLen \in Nat /\ exchange.size \in Nat /\ buffered \in Nat
            /\ exchange.packets[packet].from \in Nat
            /\ PacketLen(exchange.packets[packet]) \in Nat
        <5>1. exchange.linesLen \in Nat /\ exchange.size \in Nat
          BY <1>1 DEF WellFormed
        <5>2. buffered \in Nat
          BY <1>1, Front
        <5>3. PacketLen(exchange.packets[packet]) \in Nat
          BY <4>6, PacketLenAtLeast
        <5>4. exchange.packets[packet].from \in Nat
          BY <4>6 DEF Packet
        <5> QED
          BY <5>1, <5>2, <5>3, <5>4
      <4> QED
        BY <4>3, <4>4, <4>5, <4>7
    <3>3. bytesRead = exchange.size =>
             exp.lines = ls /\ exp.packets = Reported /\ exp.code = "Incomplete"
      BY <1>8, <3>2 DEF Expectation
    <3> QED
      BY <1>2, <1>8, <1>10, <2>2, <3>3 DEF AgreesWith
  <2>3. CASE end.code \in PacketError \union {"KexInit", "Disconnect"}
    <3>1. Reported < np /\ RefPacket(exchange, Reported + 1) = end.code
      BY <2>3 DEF FollowInv, Explained, np
    <3>2. end.code \notin {"Skipped", "None", "Eof"}
      BY <2>3 DEF PacketError
    <3>3. exp.lines = ls /\ exp.packets = Reported /\ exp.code = end.code
      BY <1>8, <3>1, <3>2 DEF Expectation
    <3> QED
      BY <1>2, <1>10, <3>2, <3>3 DEF AgreesWith
  <2> QED
    BY <1>9, <2>1, <2>2, <2>3
<1> QED
  BY <1>11, Zenon DEF exp, b, ls

\* For every server, every limit and every way the bytes arrive: the probe
\* reports what the reference model expects of the whole stream, ends as it
\* expects, and never waits for more than it takes to tell (probe.rs step,
\* io.rs drive, against tcp_support.rs stream_gen::expect).
THEOREM ExpectationMet == Spec => []AsExpected
<1>1. Init => Inv /\ RunInv /\ FollowInv
  BY InitInv, InitRun, InitFollow
<1>2. Inv /\ RunInv /\ FollowInv /\ [Next]_vars => (Inv /\ RunInv /\ FollowInv)'
  BY NextInv, NextRun, NextFollow
<1>3. Inv /\ RunInv /\ FollowInv => AsExpected
  <2> SUFFICES ASSUME Inv, RunInv, FollowInv PROVE AsExpected
    OBVIOUS
  <2>1. AgreesWith(Expect(exchange, limits, FALSE, FALSE), exchange,
                   line - 1, Reported, end.code, bytesRead)
    BY LinesMeet, PacketsMeet, Zenon
  <2>2. bytesRead - Position = buffered
    <3>1. ProbeType /\ bytesRead = Position + buffered
      BY DEF Inv, TypeOK, BytesAccounted
    <3>2. Position \in Nat /\ buffered \in Nat
      BY <3>1, Front
    <3> QED
      BY ONLY <3>1, <3>2
  <2> QED
    BY <2>1, <2>2, InvWaits DEF AsExpected, WaitsForUndecided
<1> QED
  BY <1>1, <1>2, <1>3, PTL DEF Spec
=============================================================================
