--------------------------- MODULE ObserverProofs ---------------------------
(***************************************************************************)
(* For every client, every limit and every way the stream is cut: the      *)
(* buffer of the observer always has room for the next read, so that no    *)
(* client can make it end with InputOverflow; every byte read is accounted *)
(* for; the budgets hold of the stream; the record that is returned says   *)
(* what the observer went past; and all of it is what the reference model  *)
(* expects of the whole stream.                                            *)
(***************************************************************************)
EXTENDS Observer, WellFoundedInduction, TLAPS

(* What the operators of Initial promise, for every limit and every        *)
(* stream: how much can be buffered when they ask for more, what a         *)
(* finished line or packet takes, and where the next one starts.           *)

IdentLimits == [maxPreludeLines : Nat, maxPreludeBytes : Nat, maxPreludeLine : Nat,
                maxIdentificationLine : Nat]

\* feed asks for more only while the line is not complete and is shorter than
\* the limit that applies to it (ident.rs, IdentificationReader::feed).
LEMMA IdentNeedMore ==
    ASSUME NEW lim \in IdentLimits, NEW count \in Nat, NEW total \in Nat,
           NEW ln \in Line, NEW n \in Nat,
           IdentFeed(lim, count, total, ln, n) = "NeedMore"
    PROVE  n < ln.len /\ n < LineLimit(lim, ln, n)
<1>1. LineLimit(lim, ln, n) \in Nat
  BY DEF LineLimit, Larger, IdentLimits
<1>2. ln.len \in Nat
  BY DEF Line
<1>3. n < ln.len
  BY <1>2 DEF IdentFeed, ParseIdentification
<1>4. PartialLine(lim, ln, n) = "NeedMore"
  BY <1>3 DEF IdentFeed
<1>5. n < LineLimit(lim, ln, n)
  BY <1>1, <1>4 DEF PartialLine
<1> QED
  BY <1>3, <1>5

\* A line that is accepted is complete (ident.rs, IdentificationReader::feed).
LEMMA IdentComplete ==
    ASSUME NEW lim \in IdentLimits, NEW count \in Nat, NEW total \in Nat,
           NEW ln \in Line, NEW n \in Nat,
           IdentFeed(lim, count, total, ln, n) \in {"Identification", "Prelude"}
    PROVE  /\ n >= ln.len
           /\ IdentFeed(lim, count, total, ln, n) = "Identification"
                  => ln.class = "Ssh2"
           /\ IdentFeed(lim, count, total, ln, n) = "Prelude"
                  => /\ ln.class = "Text"
                     /\ ln.len <= lim.maxPreludeLine
                     /\ count < lim.maxPreludeLines
                     /\ total + ln.len <= lim.maxPreludeBytes
<1>1. ln.len \in Nat /\ ln.class \in LineClass
  BY DEF Line
<1>2. PartialLine(lim, ln, n) \notin {"Identification", "Prelude"}
  BY DEF PartialLine
<1>3. n >= ln.len
  BY <1>1, <1>2 DEF IdentFeed
<1>4. ParseIdentification(ln) # "Prelude"
  BY DEF ParseIdentification
<1>5. CASE IdentFeed(lim, count, total, ln, n) = "Identification"
  BY <1>1, <1>3, <1>5 DEF IdentFeed, ParseIdentification, LineClass
<1>6. CASE IdentFeed(lim, count, total, ln, n) = "Prelude"
  BY <1>1, <1>3, <1>4, <1>6 DEF IdentFeed, IdentLimits
<1> QED
  BY <1>5, <1>6

\* Every packet takes at least its header, and one with a good header exactly
\* what its length field says (packet.rs, decode_initial_packet).
LEMMA PacketLenAtLeast ==
    ASSUME NEW p \in Packet
    PROVE  /\ PacketLen(p) \in Nat
           /\ PacketLen(p) >= HEADER_LEN
           /\ ~BadHeader(p) => /\ PacketLen(p) = p.packetLength + 4
                               /\ p.packetLength <= MaxPacketLength
<1>1. p.packetLength \in Nat
  BY DEF Packet
<1>2. ~BadLength(p) => p.packetLength + 4 >= 16 /\ p.packetLength <= MaxPacketLength
  BY <1>1, InitialAssumption DEF BadLength, MIN_TOTAL_LEN
<1> QED
  BY <1>1, <1>2 DEF PacketLen, BadHeader, HEADER_LEN

\* The decoder asks for more only while the packet is not complete, and never
\* for more than the largest packet (packet.rs, decode_initial_packet).
LEMMA PacketNeedMore ==
    ASSUME NEW seen \in Nat, NEW total \in Nat, NEW p \in Packet, NEW n \in Nat,
           PacketsStep(seen, total, p, n) = "NeedMore"
    PROVE  n < PacketLen(p) /\ n < MaxPacketLength + HEADER_LEN
<1>1. p.packetLength \in Nat /\ MaxPacketLength \in Nat /\ p.message \in Message
  BY InitialAssumption DEF Packet
<1>2. Classify(p) # "NeedMore"
  BY <1>1 DEF Classify, Message
<1>3. DecodeInitialPacket(p, n) = "NeedMore"
  BY <1>2 DEF PacketsStep
<1>4. n < HEADER_LEN \/ (~BadHeader(p) /\ n < p.packetLength + 4)
  BY <1>1, <1>3 DEF DecodeInitialPacket, BadHeader, HEADER_LEN
<1> QED
  BY <1>1, <1>4, PacketLenAtLeast DEF HEADER_LEN

\* A packet the decoder looks into is complete and within its budgets
\* (initial.rs, InitialPackets::step).
LEMMA PacketComplete ==
    ASSUME NEW seen \in Nat, NEW total \in Nat, NEW p \in Packet, NEW n \in Nat,
           Counted(PacketsStep(seen, total, p, n))
    PROVE  /\ ~BadHeader(p)
           /\ n >= PacketLen(p)
           /\ seen + 1 <= MaxPackets
           /\ total + PacketLen(p) <= MaxBytes
<1>1. p.packetLength \in Nat /\ MaxPackets \in Nat /\ MaxBytes \in Nat
  BY InitialAssumption DEF Packet
<1>2. DecodeInitialPacket(p, n) \in {"NeedMore", "Packet", "Complete"}
  BY DEF DecodeInitialPacket
<1>3. DecodeInitialPacket(p, n) = "Complete"
  BY <1>2 DEF PacketsStep, Counted
<1>4. ~BadHeader(p) /\ n >= p.packetLength + 4
  BY <1>1, <1>3 DEF DecodeInitialPacket, BadHeader
<1>5. seen < MaxPackets /\ total + p.packetLength + 4 <= MaxBytes
  BY <1>1, <1>3 DEF PacketsStep, Counted
<1> QED
  BY <1>1, <1>4, <1>5, PacketLenAtLeast

----------------------------------------------------------------------------
\* Where the i-th packet of an exchange starts, counted from the first.
StartOf(x, i) == IF i <= Len(x.packets) THEN x.packets[i].from ELSE x.size - x.linesLen

\* Packets follow one another: each starts where the one before it ends, and
\* the stream ends with the last one.
LEMMA NextPacket ==
    ASSUME NEW x, WellFormed(x), NEW i \in 1..Len(x.packets)
    PROVE  /\ x.packets[i] \in Packet
           /\ StartOf(x, i) \in Nat
           /\ StartOf(x, i + 1) = StartOf(x, i) + PacketLen(x.packets[i])
<1>1. x.packets \in Seq(Packet) /\ x.linesLen \in Nat /\ x.size \in Nat
  BY DEF WellFormed
<1>2. x.packets[i] \in Packet /\ Len(x.packets) \in Nat
  BY <1>1
<1>3. x.packets[i].from \in Nat /\ PacketLen(x.packets[i]) \in Nat
  BY <1>2, PacketLenAtLeast DEF Packet
<1>4. StartOf(x, i) = x.packets[i].from
  BY <1>2 DEF StartOf
<1>5. CASE i < Len(x.packets)
  <2>1. i + 1 \in 1..Len(x.packets) /\ i + 1 # 1 /\ (i + 1) - 1 = i
    BY <1>2, <1>5
  <2>2. x.packets[i + 1].from = x.packets[i].from + PacketLen(x.packets[i])
    BY <2>1 DEF WellFormed
  <2> QED
    BY <1>2, <1>3, <1>4, <2>1, <2>2 DEF StartOf
<1>6. CASE i = Len(x.packets)
  <2>1. x.size = x.linesLen + x.packets[i].from + PacketLen(x.packets[i])
    BY <1>6 DEF WellFormed
  <2> QED
    BY <1>1, <1>2, <1>3, <1>4, <1>6, <2>1 DEF StartOf
<1> QED
  BY <1>2, <1>5, <1>6

\* The first packet starts where the lines end.
LEMMA FirstPacket ==
    ASSUME NEW x, WellFormed(x)
    PROVE  StartOf(x, 1) = 0
<1>1. x.packets \in Seq(Packet) /\ x.linesLen \in Nat /\ x.size \in Nat
  BY DEF WellFormed
<1>2. CASE x.packets = <<>>
  BY <1>1, <1>2 DEF StartOf, WellFormed
<1>3. CASE x.packets # <<>>
  <2>1. 1 \in 1..Len(x.packets)
    BY <1>1, <1>3
  <2> QED
    BY <2>1 DEF StartOf, WellFormed
<1> QED
  BY <1>2, <1>3

----------------------------------------------------------------------------
(* The observer.                                                           *)

\* What the type invariant and the properties rest on: the line at the front
\* follows from the stage, the counters of the decoder are positions in the
\* stream, and a driver about to poll or read was told that more is needed.
Inv ==
    /\ TypeOK
    /\ line \in {1, 2}
    /\ line = 2 => /\ exchange.lines # <<>>
                   /\ Len(exchange.lines) = 1
    /\ line = 1 => packet = 1
    /\ end = NoEnd => stage = IF line = 1 THEN "ClientIdentification" ELSE "InitialPackets"
    /\ end = NoEnd => packets = packet - 1 /\ bytes = PacketStart
    /\ end.code # "UnexpectedInput" => bytesRead = Position + buffered
    /\ end.code # "InputOverflow"
    /\ pc \in {"Poll", "Read"} => NeedMore
    /\ BytesAccounted
    /\ BudgetsHeld

USE ObserverAssumption, InitialAssumption

LEMMA Limits == limits \in IdentLimits
BY DEF limits, IdentLimits, PREFIX_LEN

OutcomeType == [code : Code \union {"None"}, stage : Stage \union {"None"},
                bytes : Nat, truncated : BOOLEAN]

LEMMA EndedType ==
    ASSUME NEW code \in Code \union {"None"}
    PROVE  Ended(code) \in OutcomeType /\ Ended(code).code = code
BY DEF Ended, OutcomeType

LEMMA CapacityNat ==
    /\ Capacity \in Nat
    /\ Capacity >= MaxPacketLength + HEADER_LEN
    /\ Capacity >= MaxIdentificationLine
BY DEF Capacity, Larger, HEADER_LEN, PREFIX_LEN

\* What stands at the front of the buffer, and that it is there as soon as a
\* byte of it was read.
LEMMA FrontLine ==
    ASSUME TypeOK, line = 1, bytesRead = Position + buffered
    PROVE  /\ frontLine \in Line
           /\ buffered > 0 => /\ 1 \in 1..Len(exchange.lines)
                              /\ frontLine = exchange.lines[1]
                              /\ frontLine.class # "Text" =>
                                     /\ Len(exchange.lines) = 1
                                     /\ exchange.linesLen = frontLine.len
<1>1. /\ exchange.lines \in Seq(Line) /\ Len(exchange.lines) \in Nat
      /\ exchange.size \in Nat /\ bytesRead \in 0..exchange.size /\ buffered \in Nat
  BY CapacityNat DEF TypeOK, WellFormed
<1>2. NoLine \in Line
  BY DEF NoLine, Line, LineClass, PREFIX_LEN
<1>3. frontLine \in Line
  BY <1>1, <1>2 DEF frontLine, At
<1>4. ASSUME buffered > 0
      PROVE  1 \in 1..Len(exchange.lines)
  <2>1. exchange.size > 0
    BY <1>1, <1>4 DEF Position
  <2>2. exchange.lines # <<>>
    BY <2>1, <1>1 DEF TypeOK, WellFormed
  <2> QED
    BY <1>1, <2>2
<1>5. ASSUME buffered > 0
      PROVE  frontLine = exchange.lines[1]
  BY <1>1, <1>4, <1>5 DEF frontLine, At
<1>6. ASSUME buffered > 0, frontLine.class # "Text"
      PROVE  Len(exchange.lines) = 1 /\ exchange.linesLen = frontLine.len
  <2>1. 1 = Len(exchange.lines)
    BY <1>4, <1>5, <1>6 DEF TypeOK, WellFormed
  <2>2. /\ exchange.lines[1].from = 0
        /\ exchange.linesLen = exchange.lines[1].from + exchange.lines[1].len
    BY <1>4, <1>6, <2>1 DEF TypeOK, WellFormed
  <2> QED
    BY <1>3, <1>5, <1>6, <2>1, <2>2 DEF Line
<1> QED
  BY <1>3, <1>4, <1>5, <1>6

LEMMA FrontPacket ==
    ASSUME TypeOK, line = 2, bytesRead = Position + buffered
    PROVE  /\ frontPacket \in Packet
           /\ PacketStart = StartOf(exchange, packet)
           /\ buffered > 0 => /\ packet \in 1..Len(exchange.packets)
                              /\ frontPacket = exchange.packets[packet]
<1>1. /\ exchange.packets \in Seq(Packet) /\ Len(exchange.packets) \in Nat
      /\ exchange.size \in Nat /\ exchange.linesLen \in Nat
      /\ packet \in 1..(Len(exchange.packets) + 1)
      /\ bytesRead \in 0..exchange.size /\ buffered \in Nat
  BY CapacityNat DEF TypeOK, WellFormed
<1>2. NoPacket \in Packet
  BY DEF NoPacket, Packet, Message
<1>3. frontPacket \in Packet
  BY <1>1, <1>2 DEF frontPacket, At
<1>4. ASSUME buffered > 0
      PROVE  packet \in 1..Len(exchange.packets)
  BY <1>1, <1>4 DEF Position, PacketStart
<1>5. ASSUME buffered > 0
      PROVE  frontPacket = exchange.packets[packet]
  BY <1>1, <1>4, <1>5 DEF frontPacket, At
<1> QED
  BY <1>3, <1>4, <1>5 DEF PacketStart, StartOf

\* NeedMore leaves room: the limits bound what can be waited for.
LEMMA NeedMoreLeavesRoom ==
    ASSUME Inv, NeedMore
    PROVE  buffered < Capacity
<1>1. buffered \in Nat
  BY CapacityNat DEF Inv, TypeOK
<1>2. bytesRead = Position + buffered
  BY DEF Inv, NeedMore, NeedsIdentification, NeedsPackets, NoEnd, Ended
<1>3. CASE NeedsIdentification /\ IdentStep = "NeedMore"
  <2>1. line = 1
    BY <1>3 DEF Inv, NeedsIdentification
  <2>2. frontLine \in Line
    BY <1>2, <2>1, FrontLine DEF Inv
  <2>3. buffered < LineLimit(limits, frontLine, buffered)
    BY <1>1, <1>3, <2>2, Limits, IdentNeedMore DEF IdentStep
  <2>4. LineLimit(limits, frontLine, buffered) = MaxIdentificationLine
    BY DEF LineLimit, limits, Larger
  <2> QED
    BY <1>1, <2>3, <2>4, CapacityNat
<1>4. CASE NeedsPackets /\ PacketStep = "NeedMore"
  <2>1. line = 2
    BY <1>4 DEF Inv, NeedsPackets
  <2>2. frontPacket \in Packet
    BY <1>2, <2>1, FrontPacket DEF Inv
  <2>3. buffered < MaxPacketLength + HEADER_LEN
    BY <1>1, <1>4, <2>2, PacketNeedMore DEF PacketStep, Inv, TypeOK
  <2> QED
    BY <1>1, <2>3, CapacityNat DEF HEADER_LEN
<1> QED
  BY <1>3, <1>4 DEF NeedMore

\* What the driver asks for fits once there is room for a byte.
LEMMA WantFits ==
    ASSUME buffered \in Nat, buffered < Capacity
    PROVE  want \in Nat /\ want >= 1 /\ want <= Room
BY CapacityNat DEF want, Larger, Smaller, Room
----------------------------------------------------------------------------
(* The steps of the observer.                                              *)

\* A line that is accepted is consumed whole, and packets start after it.
LEMMA IdentificationStep ==
    ASSUME Inv, ClientIdentification, pc' = "Step",
           UNCHANGED <<bytesRead, exchange, bannerOnly, expired, stop>>,
           clientIdentification' \in BOOLEAN,
           UNCHANGED <<messages, proposal, obsStage, runEnd>>
    PROVE  Inv'
<1>1. line = 1 /\ packet = 1 /\ packets = 0 /\ end = NoEnd
  BY DEF Inv, ClientIdentification, NeedsIdentification
<1>2. bytesRead = Position + buffered /\ buffered \in Nat
  BY <1>1, CapacityNat DEF Inv, TypeOK, NoEnd, Ended
<1>3. frontLine \in Line
  BY <1>1, <1>2, FrontLine DEF Inv
<1>4. buffered >= frontLine.len /\ frontLine.class = "Ssh2"
  BY <1>2, <1>3, Limits, IdentComplete DEF ClientIdentification, IdentStep
<1>5. buffered > 0
  <2>1. CASE frontLine = NoLine
    BY <1>2, <1>4, <2>1 DEF NoLine
  <2>2. CASE frontLine # NoLine
    <3>1. 1 \in 1..Len(exchange.lines) /\ frontLine = exchange.lines[1]
      BY <1>1, <2>2 DEF frontLine, At, Inv, TypeOK, WellFormed
    <3>2. frontLine.tell <= frontLine.len /\ frontLine.tell \in 1..4
      BY <1>3, <3>1 DEF Inv, TypeOK, WellFormed, Line, PREFIX_LEN
    <3> QED
      BY <1>2, <1>3, <1>4, <3>2 DEF Line
  <2> QED
    BY <2>1, <2>2
<1>6. /\ Len(exchange.lines) = 1 /\ exchange.lines # <<>>
      /\ exchange.linesLen = frontLine.len
  BY <1>1, <1>2, <1>4, <1>5, FrontLine DEF Inv
<1>7. PacketStart' = 0 /\ PacketStart = 0
  <2>1. PacketStart = StartOf(exchange, 1) /\ PacketStart' = StartOf(exchange, 1)
    BY <1>1 DEF ClientIdentification, PacketStart, StartOf
  <2> QED
    BY <2>1, FirstPacket DEF Inv, TypeOK
<1>8. /\ line' = 2 /\ packet' = 1 /\ packets' = 0 /\ bytes' = 0
      /\ buffered' = buffered - frontLine.len
      /\ \/ stage' = "Finished" /\ end' = Ended("BannerOnly")
         \/ stage' = "InitialPackets" /\ end' = NoEnd
  BY <1>1, <1>7 DEF ClientIdentification, Finish, Inv
<1>9. Position' + buffered' = bytesRead' /\ Position' = exchange.linesLen
  BY <1>1, <1>2, <1>3, <1>6, <1>7, <1>8 DEF Position, Line
<1>10. TypeOK'
  <2>1. buffered' \in 0..Capacity'
    <3>1. buffered \in 0..Capacity /\ Capacity' = Capacity
      BY DEF Inv, TypeOK, Capacity
    <3>2. frontLine.len \in Nat /\ buffered >= frontLine.len
      BY <1>3, <1>4 DEF Line
    <3> QED
      BY ONLY <1>8, <3>1, <3>2, CapacityNat
  <2>2. end' \in OutcomeType /\ stage' \in Stage
    <3>1. "BannerOnly" \in Code
      BY DEF Code
    <3> QED
      BY <1>8, <3>1, EndedType DEF Stage, NoEnd
  <2>3. WellFormed(exchange)'
    BY DEF Inv, TypeOK, WellFormed
  <2>4. line' \in 1..(Len(exchange.lines) + 1)' /\ packet' \in 1..(Len(exchange.packets) + 1)'
    BY <1>6, <1>8 DEF Inv, TypeOK, WellFormed
  <2> QED
    BY <1>8, <2>1, <2>2, <2>3, <2>4 DEF Inv, TypeOK, OutcomeType
<1>11. BudgetsHeld'
  BY <1>1, <1>6, <1>8, <1>9 DEF BudgetsHeld, Inv, TypeOK, WellFormed
<1>12. BytesAccounted'
  BY <1>8, <1>9 DEF BytesAccounted, Ended, NoEnd
<1> QED
  BY <1>6, <1>7, <1>8, <1>9, <1>10, <1>11, <1>12 DEF Inv, Ended, NoEnd

\* A packet that is accepted is consumed whole, within the budgets, and the
\* next one starts where it ends.
LEMMA PacketStepConsumes ==
    ASSUME Inv, NeedsPackets, Counted(PacketStep), Count, Consume,
           UNCHANGED <<line, bytesRead, exchange>>
    PROVE  /\ packet' \in 1..(Len(exchange.packets) + 1)
           /\ buffered' \in 0..Capacity
           /\ packets' = packet' - 1 /\ packets' \in Nat
           /\ PacketStart' = bytes' /\ bytes' \in Nat
           /\ Position' + buffered' = bytesRead'
           /\ packet' - 1 <= MaxPackets
           /\ Position' - exchange.linesLen <= MaxBytes
<1>1. line = 2 /\ end = NoEnd /\ packets = packet - 1 /\ bytes = PacketStart
  BY DEF Inv, NeedsPackets
<1>2. /\ bytesRead = Position + buffered /\ buffered \in Nat /\ packets \in Nat
      /\ bytes \in Nat /\ packet \in Nat /\ Len(exchange.packets) \in Nat
      /\ exchange.linesLen \in Nat /\ WellFormed(exchange)
  BY <1>1, CapacityNat DEF Inv, TypeOK, NoEnd, Ended, WellFormed
<1>3. frontPacket \in Packet
  BY <1>1, <1>2, FrontPacket DEF Inv
<1>4. /\ ~BadHeader(frontPacket) /\ buffered >= PacketLen(frontPacket)
      /\ packets + 1 <= MaxPackets /\ bytes + PacketLen(frontPacket) <= MaxBytes
  BY <1>2, <1>3, PacketComplete DEF PacketStep
<1>5. PacketLen(frontPacket) \in Nat /\ PacketLen(frontPacket) >= 5
  BY <1>3, PacketLenAtLeast DEF HEADER_LEN
<1>6. packet \in 1..Len(exchange.packets) /\ frontPacket = exchange.packets[packet]
  BY <1>1, <1>2, <1>4, <1>5, FrontPacket DEF Inv
<1>7. PacketStart' = StartOf(exchange, packet + 1) /\ PacketStart = StartOf(exchange, packet)
  BY <1>2, <1>6 DEF PacketStart, StartOf, Consume
<1>8. PacketStart' = PacketStart + PacketLen(frontPacket)
  BY <1>2, <1>6, <1>7, NextPacket
<1>9. /\ packets' = packets + 1 /\ bytes' = bytes + PacketLen(frontPacket)
      /\ packet' = packet + 1 /\ buffered' = buffered - PacketLen(frontPacket)
  BY DEF Count, Consume
<1>10. Position = exchange.linesLen + PacketStart
       /\ Position' = exchange.linesLen + PacketStart'
  BY <1>1 DEF Position
<1>11. buffered' \in 0..Capacity
  <2>1. buffered \in 0..Capacity
    BY DEF Inv, TypeOK
  <2> QED
    BY ONLY <1>4, <1>5, <1>9, <2>1, CapacityNat
<1>12. packet' \in 1..(Len(exchange.packets) + 1)
  BY <1>2, <1>6, <1>9
<1>13. PacketStart \in Nat /\ PacketStart' = bytes'
  BY <1>1, <1>2, <1>8, <1>9
<1>14. Position' + buffered' = bytesRead'
  <2>1. bytesRead' = bytesRead /\ Position' = Position + PacketLen(frontPacket)
    <3>1. bytesRead' = bytesRead
      OBVIOUS
    <3>2. exchange.linesLen \in Nat
      BY <1>2
    <3>3. Position' = Position + PacketLen(frontPacket)
      BY ONLY <1>5, <1>8, <1>10, <1>13, <3>2
    <3> QED
      BY ONLY <3>1, <3>3
  <2>2. Position \in Nat
    BY <1>2, <1>10, <1>13
  <2> QED
    BY <1>2, <1>5, <1>9, <2>1, <2>2
<1>15. Position' - exchange.linesLen <= MaxBytes
  <2>1. PacketStart' \in Nat /\ PacketStart' <= MaxBytes
    <3>1. bytes \in Nat
      BY <1>2
    <3>2. bytes + PacketLen(frontPacket) <= MaxBytes
      BY <1>4
    <3> QED
      BY ONLY <1>5, <1>9, <1>13, <3>1, <3>2
  <2>2. exchange.linesLen \in Nat
    BY <1>2
  <2> QED
    BY ONLY <1>10, <2>1, <2>2
<1>16. packets' = packet' - 1 /\ packets' \in Nat /\ bytes' \in Nat
  <2>1. packets = packet - 1
    BY <1>1
  <2>2. packets \in Nat /\ bytes \in Nat /\ packet \in Nat
    BY <1>2
  <2> QED
    BY ONLY <1>5, <1>9, <2>1, <2>2
<1>17. packet' - 1 <= MaxPackets
  <2>1. packets + 1 <= MaxPackets
    BY <1>4
  <2> QED
    BY ONLY <1>9, <1>16, <2>1
<1> QED
  BY <1>1, <1>11, <1>12, <1>13, <1>14, <1>15, <1>16, <1>17

----------------------------------------------------------------------------
(* The driver's own variables, and the steps that leave the observer alone. *)

DriverType ==
    /\ pc \in {"Write", "Step", "Poll", "Read", "Returned"}
    /\ clientIdentification \in BOOLEAN /\ messages \in Nat /\ proposal \in BOOLEAN
    /\ obsStage \in Stage /\ runEnd \in RunEnd
    /\ expired \in BOOLEAN /\ stop \in BOOLEAN /\ bannerOnly \in BOOLEAN

LEMMA DriverTypeStep ==
    ASSUME TypeOK, [Next]_vars
    PROVE  DriverType'
<1> DriverType /\ stage \in Stage
  BY DEF TypeOK, DriverType
<1> USE DEF DriverType, obs, environment, Return, Goto, RunEnd
<1>1. CASE WriteBanner  BY <1>1 DEF WriteBanner
<1>2. CASE WriteFails  BY <1>2 DEF WriteFails
<1>3. CASE StepIdentification  BY <1>3 DEF StepIdentification
<1>4. CASE StepSkipped  BY <1>4 DEF StepSkipped
<1>5. CASE StepFinished
  <2>1. proposal' \in BOOLEAN
    BY <1>5 DEF StepFinished
  <2> QED
    BY <1>5, <2>1 DEF StepFinished, Stage
<1>6. CASE StepNeedMore  BY <1>6 DEF StepNeedMore
<1>7. CASE Poll  BY <1>7 DEF Poll
<1>8. CASE Read  BY <1>8 DEF Read
<1>9. CASE ReadEof  BY <1>9 DEF ReadEof, Stage
<1>10. CASE ReadNothing  BY <1>10 DEF ReadNothing
<1>11. CASE ReadFails  BY <1>11 DEF ReadFails
<1>12. CASE Expire  BY <1>12 DEF Expire
<1>13. CASE RequestStop  BY <1>13 DEF RequestStop
<1>14. CASE UNCHANGED vars  BY <1>14 DEF vars
<1> QED
  BY <1>1, <1>2, <1>3, <1>4, <1>5, <1>6, <1>7, <1>8, <1>9, <1>10, <1>11, <1>12, <1>13,
     <1>14 DEF Next, Drive, Step, Client, Returned

\* The observer's part of the type invariant.
ObserverType ==
    /\ WellFormed(exchange)
    /\ line \in 1..(Len(exchange.lines) + 1)
    /\ packet \in 1..(Len(exchange.packets) + 1)
    /\ buffered \in 0..Capacity
    /\ stage \in Stage /\ packets \in Nat /\ bytes \in Nat
    /\ end \in OutcomeType
    /\ bytesRead \in 0..exchange.size

LEMMA TypeSplit == TypeOK <=> ObserverType /\ DriverType
BY DEF TypeOK, ObserverType, DriverType, OutcomeType

LEMMA SameObserver ==
    ASSUME Inv, DriverType', UNCHANGED <<observer, exchange, bytesRead>>,
           pc' \in {"Poll", "Read"} => NeedMore
    PROVE  Inv'
<1>1. TypeOK'
  <2>1. ObserverType /\ WellFormed(exchange)'
    BY TypeSplit DEF Inv, ObserverType, WellFormed
  <2>2. ObserverType'
    BY <2>1 DEF ObserverType, observer
  <2> QED
    BY <2>2 DEF TypeOK, ObserverType, DriverType, OutcomeType
<1>2. NeedMore' = NeedMore /\ Position' = Position /\ PacketStart' = PacketStart
  BY DEF observer, NeedMore, NeedsIdentification, NeedsPackets, Unexpected, IdentStep,
         PacketStep, frontLine, frontPacket, limits, Position, PacketStart
<1>3. BytesAccounted' /\ BudgetsHeld'
  BY <1>2 DEF Inv, BytesAccounted, BudgetsHeld, observer
<1> QED
  BY <1>1, <1>2, <1>3 DEF Inv, observer

\* A step that ends the observation without consuming anything.
LEMMA EndsHere ==
    ASSUME Inv, DriverType', end = NoEnd,
           UNCHANGED <<line, packet, buffered, exchange, bytesRead>>,
           packets' \in Nat, bytes' \in Nat, stage' = "Finished",
           end' \in OutcomeType,
           end'.code \notin {"None", "InputOverflow", "UnexpectedInput", "KexInit"},
           end'.code = "Eof" => end'.bytes = buffered,
           pc' \notin {"Poll", "Read"}
    PROVE  Inv'
<1>1. Position' = Position /\ bytesRead = Position + buffered
  BY DEF Position, PacketStart, Inv, NoEnd, Ended
<1>2. TypeOK'
  <2>1. ObserverType'
    <3>1. ObserverType /\ WellFormed(exchange)'
      BY TypeSplit DEF Inv, ObserverType, WellFormed
    <3> QED
      BY <3>1 DEF ObserverType, Stage
  <2> QED
    BY <2>1 DEF TypeOK, ObserverType, DriverType, OutcomeType
<1>3. BytesAccounted' /\ BudgetsHeld'
  BY <1>1 DEF Inv, BytesAccounted, BudgetsHeld
<1>4. end' # NoEnd
  BY DEF NoEnd, Ended
<1> QED
  BY <1>1, <1>2, <1>3, <1>4 DEF Inv
----------------------------------------------------------------------------
\* The invariant holds initially.
LEMMA InitInv == Init => Inv
<1> SUFFICES ASSUME Init PROVE Inv
  OBVIOUS
<1>1. WellFormed(exchange)
  BY DEF Init
<1>2. PacketStart = 0 /\ Position = 0
  <2>1. PacketStart = StartOf(exchange, 1)
    BY DEF Init, PacketStart, StartOf
  <2> QED
    BY <1>1, <2>1, FirstPacket DEF Position, Init
<1>3. TypeOK
  <2>1. NoEnd \in OutcomeType
    BY EndedType DEF NoEnd
  <2>2. Len(exchange.lines) \in Nat /\ Len(exchange.packets) \in Nat /\ exchange.size \in Nat
    BY <1>1 DEF WellFormed
  <2>3. ObserverType
    BY <1>1, <2>1, <2>2, CapacityNat DEF Init, ObserverType, Stage
  <2>4. DriverType
    BY DEF Init, DriverType, Stage, RunEnd
  <2> QED
    BY <2>3, <2>4, TypeSplit
<1>4. BytesAccounted /\ BudgetsHeld
  BY <1>2 DEF Init, BytesAccounted, BudgetsHeld, NoEnd, Ended
<1> QED
  BY <1>2, <1>3, <1>4 DEF Init, Inv, NoEnd, Ended

\* Whoever reads was told that more is needed, so what was asked for fits.
LEMMA ReadStep ==
    ASSUME Inv, DriverType', Read
    PROVE  Inv'
<1>1. NeedMore /\ pc' = "Step" /\ end = NoEnd
  BY DEF Inv, Read, Goto, NeedMore, NeedsIdentification, NeedsPackets
<1>2. buffered \in Nat /\ buffered < Capacity /\ exchange.size \in Nat /\ bytesRead \in Nat
  <2>1. buffered < Capacity
    BY <1>1, NeedMoreLeavesRoom
  <2>2. TypeOK /\ WellFormed(exchange)
    BY DEF Inv, TypeOK
  <2>3. exchange.size \in Nat
    BY <2>2 DEF WellFormed
  <2> QED
    BY <2>1, <2>2, <2>3, CapacityNat DEF TypeOK
<1>3. want \in Nat /\ want <= Room
  BY <1>2, WantFits
<1>4. PICK n \in 1..Smaller(want, exchange.size - bytesRead) :
          Feed(n) /\ bytesRead' = bytesRead + n
  BY DEF Read
<1>5. n \in Nat /\ n <= Room /\ bytesRead + n <= exchange.size
  <2>1. Room \in Int /\ exchange.size - bytesRead \in Int
    BY <1>2, CapacityNat DEF Room
  <2> QED
    BY <1>2, <1>3, <1>4, <2>1 DEF Smaller
<1>6. /\ buffered' = buffered + n
      /\ UNCHANGED <<stage, end, line, packet, packets, bytes, exchange>>
  BY <1>2, <1>4, <1>5, CapacityNat DEF Feed, Room, Read, environment
<1>7. ObserverType'
  <2>1. ObserverType /\ WellFormed(exchange)'
    BY <1>6, TypeSplit DEF Inv, ObserverType, WellFormed
  <2>2. buffered' \in 0..Capacity /\ bytesRead' \in 0..exchange.size
    BY <1>2, <1>4, <1>5, <1>6, CapacityNat DEF Room
  <2> QED
    BY <1>6, <2>1, <2>2 DEF ObserverType
<1>8. TypeOK'
  BY <1>7 DEF TypeOK, ObserverType, DriverType, OutcomeType
<1>9. Position' = Position /\ PacketStart' = PacketStart
  BY <1>6 DEF Position, PacketStart
<1>10. bytesRead = Position + buffered /\ Position \in Int
  <2>1. WellFormed(exchange) /\ packet \in 1..(Len(exchange.packets) + 1)
    BY DEF Inv, TypeOK
  <2>2. /\ exchange.linesLen \in Nat /\ exchange.size \in Nat
        /\ exchange.packets \in Seq(Packet)
    BY <2>1 DEF WellFormed
  <2>3. PacketStart \in Int
    <3>1. CASE packet <= Len(exchange.packets)
      <4>1. exchange.packets[packet] \in Packet
        BY <2>1, <2>2, <3>1
      <4> QED
        BY <3>1, <4>1 DEF PacketStart, Packet
    <3>2. CASE ~(packet <= Len(exchange.packets))
      BY <2>2, <3>2 DEF PacketStart
    <3> QED
      BY <3>1, <3>2
  <2> QED
    BY <1>1, <2>2, <2>3 DEF Position, Inv, NoEnd, Ended
<1>11. bytesRead' = Position' + buffered'
  BY <1>2, <1>4, <1>5, <1>6, <1>9, <1>10
<1>12. BytesAccounted' /\ BudgetsHeld'
  BY <1>1, <1>6, <1>9, <1>11 DEF Inv, BytesAccounted, BudgetsHeld, NoEnd, Ended
<1> QED
  BY <1>1, <1>6, <1>8, <1>9, <1>11, <1>12 DEF Inv, NoEnd, Ended
\* The end of what step does with the last packet.
LEMMA LastPacketStep ==
    ASSUME Inv, DriverType', LastPacket, pc' = "Returned", UNCHANGED <<exchange, bytesRead>>
    PROVE  Inv'
<1>1. /\ NeedsPackets /\ Counted(PacketStep) /\ Count /\ Consume /\ line' = line
      /\ PacketStep \in {"KexInit", "Disconnect"}
  BY DEF LastPacket, Counted
<1>2. /\ packet' \in 1..(Len(exchange.packets) + 1)
      /\ buffered' \in 0..Capacity
      /\ packets' \in Nat /\ bytes' \in Nat
      /\ Position' + buffered' = bytesRead'
      /\ packet' - 1 <= MaxPackets
      /\ Position' - exchange.linesLen <= MaxBytes
  BY <1>1, PacketStepConsumes
<1>3. line = 2 /\ buffered' \in Nat
  BY <1>1, <1>2, CapacityNat DEF Inv, NeedsPackets
<1>4. /\ end' \in OutcomeType /\ end'.code = PacketStep /\ stage' = "Finished"
      /\ end'.code = "KexInit" => end'.bytes = buffered'
  <2>1. "KexInit" \in Code /\ "Disconnect" \in Code
    BY DEF Code
  <2> QED
    BY <1>1, <1>3, <2>1 DEF LastPacket, Finish, Ended, OutcomeType
<1>5. TypeOK'
  <2>1. ObserverType /\ WellFormed(exchange)'
    BY TypeSplit DEF Inv, ObserverType, WellFormed
  <2>2. ObserverType'
    BY <1>1, <1>2, <1>4, <2>1 DEF ObserverType, Stage
  <2> QED
    BY <2>2 DEF TypeOK, ObserverType, DriverType, OutcomeType
<1>6. BytesAccounted' /\ BudgetsHeld'
  <2>1. BytesAccounted'
    BY <1>1, <1>2, <1>4 DEF BytesAccounted
  <2>2. BudgetsHeld'
    BY <1>1, <1>2, <1>3 DEF BudgetsHeld
  <2> QED
    BY <2>1, <2>2
<1>7. end' # NoEnd
  BY <1>1, <1>4 DEF NoEnd, Ended
<1>8. line' = 2 /\ end'.code # "InputOverflow"
  BY <1>1, <1>3, <1>4
<1>9. exchange'.lines # <<>> /\ Len(exchange'.lines) = 1
  BY <1>3 DEF Inv
<1>10. bytesRead' = Position' + buffered'
  BY <1>2
<1> QED
  BY <1>5, <1>6, <1>7, <1>8, <1>9, <1>10 DEF Inv

\* A message that is skipped leaves the observation where the next one starts.
LEMMA SkippedStep ==
    ASSUME Inv, DriverType', Skipped, pc' = "Step", UNCHANGED <<exchange, bytesRead>>
    PROVE  Inv'
<1>1. /\ NeedsPackets /\ Counted(PacketStep) /\ Count /\ Consume
      /\ UNCHANGED <<line, stage, end>>
  BY DEF Skipped, Counted
<1>2. /\ packet' \in 1..(Len(exchange.packets) + 1)
      /\ buffered' \in 0..Capacity
      /\ packets' = packet' - 1 /\ PacketStart' = bytes'
      /\ packets' \in Nat /\ bytes' \in Nat
      /\ Position' + buffered' = bytesRead'
      /\ packet' - 1 <= MaxPackets
      /\ Position' - exchange.linesLen <= MaxBytes
  BY <1>1, PacketStepConsumes
<1>3. line = 2 /\ end = NoEnd /\ stage = "InitialPackets"
  BY <1>1 DEF Inv, NeedsPackets
<1>4. TypeOK'
  <2>1. ObserverType /\ WellFormed(exchange)'
    BY TypeSplit DEF Inv, ObserverType, WellFormed
  <2>2. ObserverType'
    BY <1>1, <1>2, <2>1 DEF ObserverType
  <2> QED
    BY <2>2 DEF TypeOK, ObserverType, DriverType, OutcomeType
<1>5. BytesAccounted' /\ BudgetsHeld'
  BY <1>1, <1>2, <1>3 DEF BytesAccounted, BudgetsHeld, NoEnd, Ended
<1> QED
  BY <1>1, <1>2, <1>3, <1>4, <1>5 DEF Inv, NoEnd, Ended

\* Input that is not an identification is sampled, and the sample says
\* whether it is all there was.
LEMMA UnexpectedStep ==
    ASSUME Inv, DriverType', UnexpectedInput, pc' = "Returned",
           UNCHANGED <<exchange, bytesRead>>
    PROVE  Inv'
<1>1. line = 1 /\ end = NoEnd /\ UNCHANGED <<line, packet, packets, bytes>>
  BY DEF Inv, UnexpectedInput, NeedsIdentification
<1>2. bytesRead = Position + buffered /\ buffered \in Nat /\ Position = 0 /\ Position' = 0
  BY <1>1, CapacityNat DEF Inv, TypeOK, NoEnd, Ended, Position
<1>3. /\ Smaller(buffered, UnexpectedSample) \in Nat
      /\ Smaller(buffered, UnexpectedSample) <= UnexpectedSample
      /\ IF buffered > UnexpectedSample
         THEN Smaller(buffered, UnexpectedSample) < buffered
         ELSE Smaller(buffered, UnexpectedSample) = buffered
  BY <1>2 DEF Smaller
<1>4. /\ end' \in OutcomeType /\ end'.code = "UnexpectedInput" /\ stage' = "Finished"
      /\ end'.bytes = Smaller(buffered, UnexpectedSample)
      /\ end'.truncated = (buffered > UnexpectedSample)
  <2>1. "UnexpectedInput" \in Code /\ (buffered > UnexpectedSample) \in BOOLEAN
    BY DEF Code
  <2> QED
    BY <1>3, <2>1 DEF UnexpectedInput, Finish, Ended, OutcomeType
<1>5. TypeOK'
  <2>1. ObserverType /\ WellFormed(exchange)'
    BY TypeSplit DEF Inv, ObserverType, WellFormed
  <2>2. buffered' = 0 /\ buffered' \in 0..Capacity
    BY CapacityNat DEF UnexpectedInput
  <2>3. ObserverType'
    BY <1>1, <1>4, <2>1, <2>2 DEF ObserverType, Stage
  <2> QED
    BY <2>3 DEF TypeOK, ObserverType, DriverType, OutcomeType
<1>6. BudgetsHeld'
  BY <1>1, <1>2 DEF Inv, BudgetsHeld
<1>7. BytesAccounted'
  <2>1. bytesRead' = buffered /\ (buffered > UnexpectedSample) \in BOOLEAN
    BY <1>2
  <2>2. end'.bytes <= UnexpectedSample
    BY <1>3, <1>4
  <2>3. IF end'.truncated THEN end'.bytes < bytesRead' ELSE end'.bytes = bytesRead'
    <3>1. CASE buffered > UnexpectedSample
      BY <1>3, <1>4, <2>1, <3>1
    <3>2. CASE ~(buffered > UnexpectedSample)
      BY <1>3, <1>4, <2>1, <3>2
    <3> QED
      BY <3>1, <3>2
  <2> QED
    BY <1>4, <2>2, <2>3 DEF BytesAccounted
<1>8. end' # NoEnd
  BY <1>4 DEF NoEnd, Ended
<1> QED
  BY <1>1, <1>4, <1>5, <1>6, <1>7, <1>8 DEF Inv
----------------------------------------------------------------------------
\* Every step keeps the invariant.
LEMMA NextInv ==
    ASSUME Inv, [Next]_vars
    PROVE  Inv'
<1> DriverType'
  BY DriverTypeStep DEF Inv
<1>1. CASE WriteBanner
  BY <1>1, SameObserver DEF WriteBanner, Goto, obs, environment
<1>2. CASE WriteFails
  BY <1>2, SameObserver DEF WriteFails, Return, environment
<1>3. CASE StepIdentification
  BY <1>3, IdentificationStep DEF StepIdentification, Goto, environment, DriverType
<1>4. CASE StepSkipped
  BY <1>4, SkippedStep DEF StepSkipped, Goto, environment
<1>5. CASE StepFinished
  <2>1. pc' = "Returned" /\ UNCHANGED <<exchange, bytesRead>>
    BY <1>5 DEF StepFinished, Return, environment
  <2>2. CASE UNCHANGED observer
    BY <2>1, <2>2, SameObserver
  <2>3. CASE UnexpectedInput
    BY <2>1, <2>3, UnexpectedStep
  <2>4. CASE LastPacket
    BY <2>1, <2>4, LastPacketStep
  <2>5. CASE IdentificationError
    <3>1. /\ end = NoEnd /\ stage' = "Finished" /\ end' = Ended(IdentStep)
          /\ IdentStep \in IdentError
          /\ UNCHANGED <<line, packet, buffered, packets, bytes>>
      BY <2>5 DEF IdentificationError, NeedsIdentification, Finish
    <3>2. /\ end' \in OutcomeType
          /\ end'.code \notin {"None", "InputOverflow", "UnexpectedInput", "KexInit", "Eof"}
      BY <3>1, EndedType DEF Code, IdentError
    <3> QED
      BY <2>1, <3>1, <3>2, EndsHere DEF Inv, TypeOK
  <2>6. CASE ErrorPacket
    <3>1. /\ NeedsPackets /\ end = NoEnd /\ stage' = "Finished" /\ end' = Ended(PacketStep)
          /\ PacketStep \in PacketError
          /\ UNCHANGED <<line, packet, buffered>>
      BY <2>6 DEF ErrorPacket, NeedsPackets, Finish
    <3>2. /\ end' \in OutcomeType
          /\ end'.code \notin {"None", "InputOverflow", "UnexpectedInput", "KexInit", "Eof"}
      BY <3>1, EndedType DEF Code, PacketError
    <3>3. packets' \in Nat /\ bytes' \in Nat
      <4>1. line = 2 /\ bytesRead = Position + buffered
        BY <3>1 DEF Inv, NeedsPackets, NoEnd, Ended
      <4>2. PacketLen(frontPacket) \in Nat
        BY <4>1, FrontPacket, PacketLenAtLeast DEF Inv
      <4> QED
        BY <2>6, <4>2 DEF ErrorPacket, Count, Inv, TypeOK
    <3> QED
      BY <2>1, <3>1, <3>2, <3>3, EndsHere
  <2> QED
    BY <1>5, <2>2, <2>3, <2>4, <2>5, <2>6 DEF StepFinished
<1>6. CASE StepNeedMore
  BY <1>6, SameObserver DEF StepNeedMore, Goto, environment
<1>7. CASE Poll
  BY <1>7, SameObserver DEF Poll, Return, environment, Inv
<1>8. CASE Read
  BY <1>8, ReadStep
<1>9. CASE ReadEof
  <2>1. /\ pc' = "Returned" /\ stage' = "Finished"
        /\ end' = [Ended("Eof") EXCEPT !.stage = stage, !.bytes = buffered]
        /\ UNCHANGED <<line, packet, buffered, packets, bytes, exchange, bytesRead>>
    BY <1>9 DEF ReadEof, InputEnded, Finish, Return, environment
  <2>2. end = NoEnd /\ buffered \in Nat /\ stage \in Stage /\ packets \in Nat /\ bytes \in Nat
    BY <1>9, CapacityNat
       DEF Inv, ReadEof, NeedMore, NeedsIdentification, NeedsPackets, TypeOK
  <2>3. end' \in OutcomeType /\ end'.code = "Eof" /\ end'.bytes = buffered
    <3>1. "Eof" \in Code
      BY DEF Code
    <3> QED
      BY <2>1, <2>2, <3>1 DEF Ended, OutcomeType
  <2> QED
    BY <2>1, <2>2, <2>3, EndsHere
<1>10. CASE ReadNothing
  BY <1>10, SameObserver DEF ReadNothing, Goto, obs, environment
<1>11. CASE ReadFails
  BY <1>11, SameObserver DEF ReadFails, Return, environment
<1>12. CASE Expire
  BY <1>12, SameObserver DEF Expire, obs, Inv
<1>13. CASE RequestStop
  BY <1>13, SameObserver DEF RequestStop, obs, Inv
<1>14. CASE UNCHANGED vars
  BY <1>14, SameObserver DEF vars, obs, environment, Inv
<1> QED
  BY <1>1, <1>2, <1>3, <1>4, <1>5, <1>6, <1>7, <1>8, <1>9, <1>10, <1>11, <1>12, <1>13,
     <1>14 DEF Next, Drive, Step, Client, Returned

\* The invariant holds in every reachable state.
THEOREM Invariance == Spec => []Inv
<1>1. Inv /\ [Next]_vars => Inv'
  BY NextInv
<1> QED
  BY InitInv, <1>1, PTL DEF Spec

\* Every variable of the observer and of its driver keeps its type, and the
\* buffer never holds more than its capacity (observer.rs, io/listener.rs).
THEOREM TypeCorrect == Spec => []TypeOK
<1>1. Inv => TypeOK
  BY DEF Inv
<1> QED
  BY Invariance, <1>1, PTL

\* For every limit and every client, the capacity buffer_capacity computes is
\* enough: a read always has room, what the driver asks for fits, and no
\* client ends an observation with InputOverflow (observer.rs, drive).
THEOREM ReadsAlwaysFit == Spec => []ReadsFit
<1>1. Inv => ReadsFit
  <2> SUFFICES ASSUME Inv PROVE ReadsFit
    OBVIOUS
  <2>1. end.code # "InputOverflow"
    BY DEF Inv
  <2>2. ASSUME pc = "Read"
        PROVE  Room >= 1 /\ want <= Room
    <3>1. NeedMore /\ buffered \in Nat
      BY <2>2, CapacityNat DEF Inv, TypeOK
    <3>2. buffered < Capacity
      BY <3>1, NeedMoreLeavesRoom
    <3> QED
      BY <3>1, <3>2, WantFits, CapacityNat DEF Room
  <2> QED
    BY <2>1, <2>2 DEF ReadsFit
<1> QED
  BY Invariance, <1>1, PTL

\* Every byte read was consumed with a line or packet reported, or is in the
\* buffer, and the outcome's count of unconsumed bytes is exact.
THEOREM EveryByteAccounted == Spec => []BytesAccounted
<1>1. Inv => BytesAccounted
  BY DEF Inv
<1> QED
  BY Invariance, <1>1, PTL

\* No client gets more packets or bytes past the observer than max_packets
\* and max_bytes (initial.rs, InitialPackets::step).
THEOREM BudgetsAlwaysHeld == Spec => []BudgetsHeld
<1>1. Inv => BudgetsHeld
  BY DEF Inv
<1> QED
  BY Invariance, <1>1, PTL

\* For every limit and every client, the input of an observation is bounded
\* and accounted for (observer.rs, initial.rs, io/listener.rs drive).
THEOREM InputAlwaysBounded == Spec => []InputBounded
<1>1. ReadsFit /\ BytesAccounted /\ BudgetsHeld => InputBounded
  BY DEF InputBounded
<1> QED
  BY ReadsAlwaysFit, EveryByteAccounted, BudgetsAlwaysHeld, <1>1, PTL

----------------------------------------------------------------------------
(* The record.                                                             *)

Ending == IF end.code \in {"KexInit", "Disconnect"} THEN 1 ELSE 0

\* What the driver has copied so far is what the observer went past.  The
\* stage is copied where the driver may give up, and the end when it returns.
RecordInv ==
    /\ clientIdentification = (line = 2)
    /\ messages = packet - 1 - Ending
    /\ proposal = (end.code = "KexInit")
    /\ end # NoEnd => stage = "Finished" /\ pc \in {"Step", "Returned"}
    /\ end.code = "Eof" =>
          end.stage = IF line = 1 THEN "ClientIdentification" ELSE "InitialPackets"
    /\ pc \in {"Write", "Poll", "Read", "Returned"} => obsStage = stage
    /\ pc = "Returned" => (runEnd = "Observer") = (end # NoEnd)

LEMMA InitRecord == Init => RecordInv
<1> SUFFICES ASSUME Init PROVE RecordInv
  OBVIOUS
<1>1. /\ line = 1 /\ packet = 1 /\ messages = 0 /\ end = NoEnd
      /\ clientIdentification = FALSE /\ proposal = FALSE
      /\ pc = "Write" /\ obsStage = stage
  BY DEF Init
<1>2. end.code = "None" /\ Ending = 0
  BY <1>1 DEF Ending, NoEnd, Ended
<1>3. messages = packet - 1 - Ending /\ (line = 2) = FALSE
  BY <1>1, <1>2
<1>4. (end.code = "KexInit") = FALSE
  BY <1>2
<1> QED
  BY <1>1, <1>2, <1>3, <1>4 DEF RecordInv

\* A step of the driver that leaves observer and record alone.
LEMMA SameRecord ==
    ASSUME Inv, RecordInv,
           UNCHANGED <<observer, clientIdentification, messages, proposal, obsStage>>,
           \/ pc' = pc /\ runEnd' = runEnd
           \/ pc # "Returned" /\ pc' = "Step"
           \/ pc \in {"Write", "Poll", "Read"} /\ pc' \in {"Write", "Poll", "Read"}
           \/ pc \in {"Write", "Poll", "Read"} /\ pc' = "Returned" /\ runEnd' # "Observer"
    PROVE  RecordInv'
<1>1. UNCHANGED <<line, packet, end, stage>> /\ Ending' = Ending
  BY DEF observer, Ending
<1>2. pc \in {"Write", "Poll", "Read"} => end = NoEnd
  BY DEF RecordInv
<1> QED
  BY <1>1, <1>2 DEF RecordInv

\* The observer ends and the driver returns with it.
LEMMA EndRecord ==
    ASSUME Inv, RecordInv, end = NoEnd, end' # NoEnd, stage' = "Finished",
           packet' = packet + Ending', packet \in Nat,
           UNCHANGED <<line, clientIdentification, messages>>,
           proposal' = (end'.code = "KexInit"), obsStage' = "Finished",
           pc' = "Returned", runEnd' = "Observer",
           end'.code = "Eof" => end'.stage = stage
    PROVE  RecordInv'
<1>1. Ending = 0 /\ Ending' \in {0, 1}
  BY DEF Ending, NoEnd, Ended
<1>2. messages' = packet' - 1 - Ending'
  <2>1. messages' = packet - 1 - 0
    BY <1>1 DEF RecordInv
  <2>2. CASE Ending' = 0
    BY <2>1, <2>2
  <2>3. CASE Ending' = 1
    BY <2>1, <2>3
  <2> QED
    BY <1>1, <2>2, <2>3
<1>3. stage = IF line = 1 THEN "ClientIdentification" ELSE "InitialPackets"
  BY DEF Inv
<1> QED
  BY <1>2, <1>3 DEF RecordInv

LEMMA NextRecord ==
    ASSUME Inv, RecordInv, [Next]_vars
    PROVE  RecordInv'
<1>0. packet \in Nat /\ line \in {1, 2}
  BY DEF Inv, TypeOK
<1>1. CASE WriteBanner
  BY <1>1, SameRecord DEF WriteBanner, Goto, obs
<1>2. CASE WriteFails
  BY <1>2, SameRecord DEF WriteFails, Return
<1>3. CASE StepIdentification
  <2>1. /\ ClientIdentification /\ pc' = "Step" /\ clientIdentification' = TRUE
        /\ UNCHANGED <<messages, proposal, obsStage>>
    BY <1>3 DEF StepIdentification, Goto
  <2>2. line = 1 /\ end = NoEnd /\ packet' = packet /\ line' = 2
    BY <2>1 DEF ClientIdentification, NeedsIdentification, Inv
  <2>3. \/ stage' = "Finished" /\ end'.code = "BannerOnly"
        \/ end' = NoEnd
    BY <2>1, <2>2 DEF ClientIdentification, Finish, Ended
  <2>4. Ending = 0 /\ Ending' = 0 /\ end'.code \notin {"KexInit", "Eof"} /\ end.code # "KexInit"
    BY <2>2, <2>3 DEF Ending, NoEnd, Ended
  <2> QED
    BY <2>1, <2>2, <2>3, <2>4 DEF RecordInv
<1>4. CASE StepSkipped
  <2>1. /\ packet' = packet + 1 /\ messages' = messages + 1 /\ pc' = "Step"
        /\ UNCHANGED <<line, stage, end, clientIdentification, proposal, obsStage>>
    BY <1>4 DEF StepSkipped, Skipped, Consume, Goto
  <2>2. Ending' = Ending /\ Ending \in {0, 1}
    BY <2>1 DEF Ending
  <2>3. messages' = packet' - 1 - Ending'
    BY <1>0, <2>1, <2>2 DEF RecordInv
  <2> QED
    BY <2>1, <2>3 DEF RecordInv
<1>5. CASE StepFinished
  <2>1. /\ pc = "Step" /\ pc' = "Returned" /\ runEnd' = "Observer"
        /\ proposal' = (end'.code = "KexInit") /\ obsStage' = "Finished"
        /\ UNCHANGED <<clientIdentification, messages>>
    BY <1>5 DEF StepFinished, Return
  <2>2. CASE end # NoEnd /\ UNCHANGED observer
    <3>1. UNCHANGED <<line, packet, end, stage>> /\ Ending' = Ending
      BY <2>2 DEF observer, Ending
    <3> QED
      BY <2>1, <2>2, <3>1 DEF RecordInv
  <2>3. CASE UnexpectedInput
    <3>1. /\ end = NoEnd /\ stage' = "Finished" /\ end'.code = "UnexpectedInput"
          /\ UNCHANGED <<line, packet>>
      BY <2>3 DEF UnexpectedInput, NeedsIdentification, Finish, Ended
    <3>2. Ending' = 0 /\ end' # NoEnd
      BY <3>1 DEF Ending, NoEnd, Ended
    <3> QED
      BY <1>0, <2>1, <3>1, <3>2, EndRecord
  <2>4. CASE LastPacket
    <3>1. /\ end = NoEnd /\ stage' = "Finished" /\ end'.code \in {"KexInit", "Disconnect"}
          /\ packet' = packet + 1 /\ line' = line
      BY <2>4 DEF LastPacket, NeedsPackets, Finish, Ended, Consume
    <3>2. Ending' = 1 /\ end' # NoEnd
      BY <3>1 DEF Ending, NoEnd, Ended
    <3> QED
      BY <1>0, <2>1, <3>1, <3>2, EndRecord
  <2>5. CASE IdentificationError
    <3>1. /\ end = NoEnd /\ stage' = "Finished" /\ end'.code \in IdentError
          /\ UNCHANGED <<line, packet>>
      BY <2>5 DEF IdentificationError, NeedsIdentification, Finish, Ended
    <3>2. Ending' = 0 /\ end' # NoEnd /\ end'.code # "Eof"
      BY <3>1 DEF Ending, NoEnd, Ended, IdentError
    <3> QED
      BY <1>0, <2>1, <3>1, <3>2, EndRecord
  <2>6. CASE ErrorPacket
    <3>1. /\ end = NoEnd /\ stage' = "Finished" /\ end'.code \in PacketError
          /\ UNCHANGED <<line, packet>>
      BY <2>6 DEF ErrorPacket, NeedsPackets, Finish, Ended
    <3>2. Ending' = 0 /\ end' # NoEnd /\ end'.code # "Eof"
      BY <3>1 DEF Ending, NoEnd, Ended, PacketError
    <3> QED
      BY <1>0, <2>1, <3>1, <3>2, EndRecord
  <2> QED
    BY <1>5, <2>2, <2>3, <2>4, <2>5, <2>6 DEF StepFinished
<1>6. CASE StepNeedMore
  <2>1. /\ pc' = "Poll" /\ obsStage' = stage /\ end = NoEnd
        /\ UNCHANGED <<line, packet, end, stage, clientIdentification, messages, proposal>>
    BY <1>6 DEF StepNeedMore, Goto, observer, NeedMore, NeedsIdentification, NeedsPackets
  <2>2. Ending' = Ending
    BY <2>1 DEF Ending
  <2> QED
    BY <2>1, <2>2 DEF RecordInv
<1>7. CASE Poll
  BY <1>7, SameRecord DEF Poll, Return
<1>8. CASE Read
  <2>1. pc = "Read" /\ pc' = "Step" /\ end = NoEnd
    BY <1>8 DEF Read, Goto, RecordInv
  <2>2. UNCHANGED <<line, packet, clientIdentification, messages, proposal, obsStage>>
    BY <1>8 DEF Read, Feed
  <2>3. \/ UNCHANGED <<end, stage>>
        \/ stage' = "Finished" /\ end'.code = "InputOverflow"
    BY <1>8 DEF Read, Feed, Finish, Ended
  <2>4. Ending' = Ending /\ end'.code \notin {"KexInit", "Eof"} /\ end.code # "KexInit"
    BY <2>1, <2>3 DEF Ending, NoEnd, Ended
  <2> QED
    BY <2>1, <2>2, <2>3, <2>4 DEF RecordInv
<1>9. CASE ReadEof
  <2>1. /\ pc = "Read" /\ pc' = "Returned" /\ runEnd' = "Observer" /\ obsStage' = "Finished"
        /\ stage' = "Finished" /\ end'.code = "Eof" /\ end'.stage = stage
        /\ UNCHANGED <<line, packet, clientIdentification, messages, proposal>>
    BY <1>9 DEF ReadEof, InputEnded, Finish, Return, Ended
  <2>2. end = NoEnd /\ end' # NoEnd /\ Ending' = 0 /\ end.code # "KexInit"
    BY <2>1 DEF RecordInv, NoEnd, Ended, Ending
  <2>3. proposal' = (end'.code = "KexInit")
    BY <2>1, <2>2 DEF RecordInv
  <2> QED
    BY <1>0, <2>1, <2>2, <2>3, EndRecord
<1>10. CASE ReadNothing
  BY <1>10, SameRecord DEF ReadNothing, Goto, obs
<1>11. CASE ReadFails
  BY <1>11, SameRecord DEF ReadFails, Return
<1>12. CASE Expire
  BY <1>12, SameRecord DEF Expire, obs
<1>13. CASE RequestStop
  BY <1>13, SameRecord DEF RequestStop, obs
<1>14. CASE UNCHANGED vars
  BY <1>14, SameRecord DEF vars, obs
<1> QED
  BY <1>1, <1>2, <1>3, <1>4, <1>5, <1>6, <1>7, <1>8, <1>9, <1>10, <1>11, <1>12, <1>13,
     <1>14 DEF Next, Drive, Step, Client, Returned

\* For every limit and every client, the record that observe_connection
\* returns says what the observer went past, where it was when the driver gave
\* up, and whether it ended with a proposal (io/listener.rs, drive).
THEOREM RecordCorrect == Spec => []RecordAgrees
<1>1. Init => Inv /\ RecordInv
  BY InitInv, InitRecord
<1>2. Inv /\ RecordInv /\ [Next]_vars => (Inv /\ RecordInv)'
  BY NextInv, NextRecord
<1>3. RecordInv => RecordAgrees
  BY DEF RecordInv, RecordAgrees, Reported, Ending
<1> QED
  BY <1>1, <1>2, <1>3, PTL DEF Spec
----------------------------------------------------------------------------
(* The reference model (StreamModel), for every exchange: what the readers *)
(* decide is what the reference decides, and what it expects of a stream   *)
(* whose first lines and packets are known.                                *)

\* A nonempty set of positions has a first, and Min is it.
LEMMA MinIs ==
    ASSUME NEW T \in SUBSET Nat, T # {}
    PROVE  Min(T) \in T /\ \A y \in T : Min(T) <= y
<1> DEFINE R == OpToRel(<, Nat)
<1>1. IsWellFoundedOn(R, Nat) /\ T \subseteq Nat
  BY NatLessThanWellFounded
<1>2. \A x, y \in Nat : <<y, x>> \in R <=> y < x
  BY DEF OpToRel
<1> HIDE DEF R
<1>3. PICK x \in T : \A y \in T : ~(<<y, x>> \in R)
  BY <1>1, WFMin, Zenon
<1>4. \A y \in T : x <= y
  <2> TAKE y \in T
  <2>1. x \in Nat /\ y \in Nat /\ ~(y < x)
    BY <1>1, <1>2, <1>3
  <2> QED
    BY <2>1
<1> QED
  BY <1>4, Zenon DEF Min

\* The first position where something holds, when it is known where that is.
LEMMA MinAt ==
    ASSUME NEW T \in SUBSET Nat, NEW k \in T, \A j \in 1..(k - 1) : j \notin T, 0 \notin T
    PROVE  Min(T) = k
<1>1. Min(T) \in T /\ Min(T) <= k
  BY MinIs
<1>2. Min(T) \in Nat /\ k \in Nat /\ Min(T) # 0 /\ Min(T) \notin 1..(k - 1)
  BY <1>1
<1> QED
  BY <1>1, <1>2

\* Framing: the reference accepts exactly the headers the decoder accepts.
LEMMA FrameAgrees ==
    ASSUME NEW p \in Packet
    PROVE  RefFrameOK(p) <=> ~BadHeader(p)
<1>1. p.packetLength \in Nat /\ p.paddingLength \in Nat
  BY DEF Packet
<1> DEFINE m == p.packetLength + 4
<1>2. m \in Nat
  BY <1>1
<1>3. (\E blocks \in 0..m : m = 8 * blocks) <=> m % 8 = 0
  <2> HIDE DEF m
  <2>1. ASSUME NEW b \in 0..m, m = 8 * b
        PROVE  m % 8 = 0
    BY <1>2, <2>1
  <2>2. ASSUME m % 8 = 0
        PROVE  m \div 8 \in 0..m /\ m = 8 * (m \div 8)
    BY <1>2, <2>2
  <2> QED
    BY <2>1, <2>2
<1>4. p.paddingLength \in 4..(p.packetLength - 1) <=> ~BadPadding(p)
  BY <1>1 DEF BadPadding, PayloadLen, MIN_PADDING
<1>5. ~BadLength(p) <=> p.packetLength <= MaxPacketLength /\ p.packetLength >= 12 /\ m % 8 = 0
  BY <1>1, InitialAssumption DEF BadLength, MIN_TOTAL_LEN, INITIAL_BLOCK_SIZE
<1> QED
  BY <1>3, <1>4, <1>5 DEF RefFrameOK, BadHeader

\* A verdict on packet i, reached with the counters at its position, is the
\* reference's (packet.rs decode_initial_packet, initial.rs step).
LEMMA PacketAgrees ==
    ASSUME NEW x, WellFormed(x), NEW i \in 1..Len(x.packets), NEW n \in Nat,
           PacketsStep(i - 1, x.packets[i].from, x.packets[i], n) # "NeedMore"
    PROVE  PacketsStep(i - 1, x.packets[i].from, x.packets[i], n) = RefPacket(x, i)
<1> DEFINE p == x.packets[i]
           d == DecodeInitialPacket(p, n)
<1>1. p \in Packet
  BY NextPacket
<1>2. /\ p.packetLength \in Nat /\ p.paddingLength \in Nat /\ p.from \in Nat
      /\ p.message \in Message /\ p.wellFormed \in BOOLEAN /\ i \in Nat /\ i >= 1
  BY <1>1 DEF Packet
<1>3. RefFrameOK(p) <=> ~BadHeader(p)
  BY <1>1, FrameAgrees
<1>4. RefPacket(x, i) = IF ~RefFrameOK(p) THEN "Packet"
                        ELSE IF i > MaxPackets THEN "PacketBudgetExceeded"
                        ELSE IF p.from + p.packetLength + 4 > MaxBytes THEN "ByteBudgetExceeded"
                        ELSE RefClassify(p)
  BY DEF RefPacket
<1> HIDE DEF p
<1>5. CASE d = "Packet"
  <2>1. BadHeader(p)
    BY <1>5 DEF DecodeInitialPacket, BadHeader
  <2> QED
    BY <1>3, <1>4, <1>5, <2>1 DEF PacketsStep, p
<1>6. CASE d = "Complete"
  <2>1. ~BadHeader(p)
    BY <1>6 DEF DecodeInitialPacket, BadHeader
  <2>2. PacketsStep(i - 1, p.from, p, n) =
            IF i - 1 >= MaxPackets THEN "PacketBudgetExceeded"
            ELSE IF p.from + p.packetLength + 4 > MaxBytes THEN "ByteBudgetExceeded"
            ELSE Classify(p)
    BY <1>6 DEF PacketsStep
  <2>3. i - 1 >= MaxPackets <=> i > MaxPackets
    BY <1>2, InitialAssumption
  <2>4. Classify(p) = RefClassify(p)
    <3>1. PayloadLen(p) = 0 <=> p.paddingLength = p.packetLength - 1
      BY <1>2 DEF PayloadLen
    <3> QED
      BY <1>2, <3>1 DEF Classify, RefClassify, Message
  <2> QED
    BY <1>3, <1>4, <2>1, <2>2, <2>3, <2>4 DEF p
<1>7. d \in {"NeedMore", "Packet", "Complete"}
  BY DEF DecodeInitialPacket
<1>8. d # "NeedMore"
  BY DEF PacketsStep, p
<1> QED
  BY <1>5, <1>6, <1>7, <1>8

\* A verdict on line i, reached with the counters at its position, is the
\* reference's, also when the line is not complete yet (ident.rs feed).
LEMMA LineAgrees ==
    ASSUME NEW lim \in IdentLimits, lim.maxIdentificationLine >= PREFIX_LEN,
           NEW x, WellFormed(x), NEW i \in 1..Len(x.lines), NEW n \in Nat,
           IdentFeed(lim, i - 1, x.lines[i].from, x.lines[i], n) # "NeedMore"
    PROVE  IdentFeed(lim, i - 1, x.lines[i].from, x.lines[i], n) = RefLine(lim, x, i)
<1> DEFINE l == x.lines[i]
<1>1. l \in Line /\ l.tell <= l.len /\ (l.class # "Text" => l.tell = PREFIX_LEN)
  BY DEF WellFormed
<1>2. /\ l.len \in Nat /\ l.from \in Nat /\ l.tell \in 1..4 /\ l.class \in LineClass
      /\ i \in Nat /\ i >= 1
      /\ lim.maxPreludeLine \in Nat /\ lim.maxPreludeLines \in Nat
      /\ lim.maxPreludeBytes \in Nat /\ lim.maxIdentificationLine \in Nat
      /\ lim.maxIdentificationLine >= 4
  BY <1>1 DEF Line, PREFIX_LEN, IdentLimits
<1>3. RefLine(lim, x, i) =
          IF l.class # "Text"
          THEN IF l.len > lim.maxIdentificationLine THEN "IdentificationTooLong"
               ELSE CASE l.class = "Invalid"      -> "InvalidIdentification"
                      [] l.class = "OtherVersion" -> "UnsupportedVersion"
                      [] l.class = "Ssh2"         -> "Identification"
          ELSE IF l.len > lim.maxPreludeLine THEN "PreludeLineTooLong"
          ELSE IF i > lim.maxPreludeLines THEN "TooManyPreludeLines"
          ELSE IF l.from + l.len > lim.maxPreludeBytes THEN "PreludeBytesExceeded"
          ELSE "Prelude"
  BY DEF RefLine
<1>4. IdentFeed(lim, i - 1, l.from, l, n) # "NeedMore"
  OBVIOUS
<1> HIDE DEF l
<1>5. CASE n >= l.len
  <2>1. IdentFeed(lim, i - 1, l.from, l, n) =
            IF l.class # "Text"
            THEN IF l.len > lim.maxIdentificationLine
                 THEN "IdentificationTooLong" ELSE ParseIdentification(l)
            ELSE IF l.len > lim.maxPreludeLine THEN "PreludeLineTooLong"
            ELSE IF i - 1 >= lim.maxPreludeLines THEN "TooManyPreludeLines"
            ELSE IF l.from + l.len > lim.maxPreludeBytes THEN "PreludeBytesExceeded"
            ELSE "Prelude"
    BY <1>2, <1>5 DEF IdentFeed
  <2>2. i - 1 >= lim.maxPreludeLines <=> i > lim.maxPreludeLines
    BY <1>2
  <2> QED
    BY <1>2, <1>3, <2>1, <2>2 DEF ParseIdentification, LineClass, l
<1>6. CASE n < l.len
  <2>1. IdentFeed(lim, i - 1, l.from, l, n) = PartialLine(lim, l, n)
    BY <1>6 DEF IdentFeed
  <2>2. n >= LineLimit(lim, l, n)
    BY <1>4, <2>1 DEF PartialLine
  <2>3. n >= l.tell
    <3>1. ASSUME n < l.tell PROVE FALSE
      <4>1. StartsIdentification(l, n) = "Unknown"
        BY <1>2, <3>1 DEF StartsIdentification
      <4>2. LineLimit(lim, l, n) = Larger(lim.maxPreludeLine, lim.maxIdentificationLine)
        BY <4>1 DEF LineLimit
      <4> QED
        BY <1>2, <2>2, <3>1, <4>2 DEF Larger
    <3>2. n \in Nat /\ l.tell \in Nat
      BY <1>2
    <3> QED
      BY ONLY <3>1, <3>2
  <2>4. CASE l.class = "Text"
    <3>1. StartsIdentification(l, n) = "No" /\ LineLimit(lim, l, n) = lim.maxPreludeLine
      BY <1>2, <2>3, <2>4 DEF StartsIdentification, LineLimit
    <3>2. l.len > lim.maxPreludeLine /\ PartialLine(lim, l, n) = "PreludeLineTooLong"
      BY <1>2, <1>6, <2>2, <3>1 DEF PartialLine
    <3> QED
      BY <1>3, <2>1, <2>4, <3>2 DEF l
  <2>5. CASE l.class # "Text"
    <3>1. StartsIdentification(l, n) = "Yes" /\ LineLimit(lim, l, n) = lim.maxIdentificationLine
      BY <1>2, <2>3, <2>5 DEF StartsIdentification, LineLimit
    <3>2. l.len > lim.maxIdentificationLine /\ PartialLine(lim, l, n) = "IdentificationTooLong"
      BY <1>2, <1>6, <2>2, <3>1 DEF PartialLine
    <3> QED
      BY <1>3, <2>1, <2>5, <3>2 DEF l
  <2> QED
    BY <2>4, <2>5
<1> QED
  BY <1>2, <1>5, <1>6

\* What is expected of the packets when the first k are known to be skipped.
LEMMA ExpectedPackets ==
    ASSUME NEW x, WellFormed(x), NEW ls, NEW k \in 0..Len(x.packets),
           \A j \in 1..k : RefPacket(x, j) = "Skipped"
    PROVE  /\ ExpectPackets(x, ls).lines = ls
           /\ ExpectPackets(x, ls).packets \in Nat /\ ExpectPackets(x, ls).packets >= k
           /\ k = Len(x.packets) => ExpectPackets(x, ls) = Expectation(ls, k, "Incomplete")
           /\ k < Len(x.packets) /\ RefPacket(x, k + 1) # "Skipped" =>
                 ExpectPackets(x, ls) = Expectation(ls, k, RefPacket(x, k + 1))
<1> DEFINE ends == {i \in DOMAIN x.packets : RefPacket(x, i) # "Skipped"}
<1>1. Len(x.packets) \in Nat /\ DOMAIN x.packets = 1..Len(x.packets)
  BY DEF WellFormed
<1>2. ends \in SUBSET Nat /\ 0 \notin ends /\ \A j \in 1..k : j \notin ends
  BY <1>1
<1>3. ExpectPackets(x, ls) = IF ends = {} THEN Expectation(ls, Len(x.packets), "Incomplete")
                             ELSE Expectation(ls, Min(ends) - 1, RefPacket(x, Min(ends)))
  BY DEF ExpectPackets
<1>4. k + 1 \in ends => Min(ends) = k + 1
  <2> SUFFICES ASSUME k + 1 \in ends PROVE Min(ends) = k + 1
    OBVIOUS
  <2>1. \A j \in 1..((k + 1) - 1) : j \notin ends
    BY <1>1, <1>2
  <2> HIDE DEF ends
  <2> QED
    BY <1>2, <2>1, MinAt
<1>5. ends # {} => Min(ends) \in Nat /\ Min(ends) > k
  <2> SUFFICES ASSUME ends # {} PROVE Min(ends) \in Nat /\ Min(ends) > k
    OBVIOUS
  <2>1. Min(ends) \in ends
    BY <1>2, MinIs
  <2>2. Min(ends) \in Nat /\ Min(ends) # 0 /\ Min(ends) \notin 1..k
    BY <1>2, <2>1
  <2> QED
    BY ONLY <2>2, k \in 0..Len(x.packets), <1>1
<1>6. k = Len(x.packets) => ends = {}
  BY <1>1, <1>2
<1>7. k < Len(x.packets) /\ RefPacket(x, k + 1) # "Skipped" => k + 1 \in ends
  BY <1>1
<1> HIDE DEF ends
<1>8. CASE ends = {}
  BY <1>1, <1>3, <1>7, <1>8 DEF Expectation
<1>9. CASE ends # {}
  <2>1. Min(ends) - 1 \in Nat /\ Min(ends) - 1 >= k
    BY <1>1, <1>5, <1>9
  <2>2. ExpectPackets(x, ls) = Expectation(ls, Min(ends) - 1, RefPacket(x, Min(ends)))
    BY <1>3, <1>9
  <2>3. k + 1 \in ends => ExpectPackets(x, ls) = Expectation(ls, k, RefPacket(x, k + 1))
    BY <1>1, <1>4, <2>2
  <2> QED
    BY <1>6, <1>7, <1>9, <2>1, <2>2, <2>3 DEF Expectation
<1> QED
  BY <1>8, <1>9

\* What is expected of a stream when the first k lines are known to be
\* prelude, unless it is an observer's and unexpected from the start.
LEMMA ExpectedLines ==
    ASSUME NEW x, WellFormed(x), NEW lim, NEW b, NEW o, NEW k \in 0..Len(x.lines),
           ~(o /\ x.lines # <<>> /\ x.lines[1].class = "Text"),
           \A j \in 1..k : RefLine(lim, x, j) = "Prelude"
    PROVE  /\ k = Len(x.lines) => Expect(x, lim, b, o) = Expectation(k, 0, "Incomplete")
           /\ Expect(x, lim, b, o).lines \in Nat /\ Expect(x, lim, b, o).lines >= k
           /\ Expect(x, lim, b, o).packets \in Nat
           /\ k < Len(x.lines) /\ RefLine(lim, x, k + 1) \notin {"Prelude", "Identification"} =>
                 Expect(x, lim, b, o) = Expectation(k, 0, RefLine(lim, x, k + 1))
           /\ k < Len(x.lines) /\ RefLine(lim, x, k + 1) = "Identification" =>
                 /\ b => Expect(x, lim, b, o) = Expectation(k + 1, 0, "BannerOnly")
                 /\ ~b => Expect(x, lim, b, o) = ExpectPackets(x, k + 1)
<1> DEFINE ends == {i \in DOMAIN x.lines : RefLine(lim, x, i) # "Prelude"}
           m == Min(ends)
<1>1. Len(x.lines) \in Nat /\ DOMAIN x.lines = 1..Len(x.lines)
  BY DEF WellFormed
<1>2. ends \in SUBSET Nat /\ 0 \notin ends /\ \A j \in 1..k : j \notin ends
  BY <1>1
<1>3. Expect(x, lim, b, o) =
         IF ends = {} THEN Expectation(Len(x.lines), 0, "Incomplete")
         ELSE IF RefLine(lim, x, m) # "Identification"
              THEN Expectation(m - 1, 0, RefLine(lim, x, m))
         ELSE IF b THEN Expectation(m, 0, "BannerOnly")
         ELSE ExpectPackets(x, m)
  BY DEF Expect
<1>4. k + 1 \in ends => m = k + 1
  <2> SUFFICES ASSUME k + 1 \in ends PROVE m = k + 1
    OBVIOUS
  <2>1. \A j \in 1..((k + 1) - 1) : j \notin ends
    BY <1>1, <1>2
  <2> HIDE DEF ends
  <2> QED
    BY <1>2, <2>1, MinAt
<1>5. ends # {} => m \in Nat /\ m > k
  <2> SUFFICES ASSUME ends # {} PROVE m \in Nat /\ m > k
    OBVIOUS
  <2>1. m \in ends
    BY <1>2, MinIs
  <2> HIDE DEF ends, m
  <2> QED
    BY <1>1, <1>2, <2>1
<1>6. k = Len(x.lines) => ends = {}
  BY <1>1, <1>2
<1>7. k < Len(x.lines) /\ RefLine(lim, x, k + 1) # "Prelude" => k + 1 \in ends
  BY <1>1
<1>8. ExpectPackets(x, m).lines = m /\ ExpectPackets(x, m).packets \in Nat
  <2>1. 0 \in 0..Len(x.packets) /\ \A j \in 1..0 : RefPacket(x, j) = "Skipped"
    BY DEF WellFormed
  <2> HIDE DEF m
  <2> QED
    BY <2>1, ExpectedPackets
<1> HIDE DEF ends, m
<1>9. CASE ends = {}
  BY <1>1, <1>3, <1>7, <1>9 DEF Expectation
<1>10. CASE ends # {}
  <2>1. m - 1 \in Nat /\ m - 1 >= k /\ m \in Nat /\ m >= k
    BY <1>1, <1>5, <1>10
  <2>2. Expect(x, lim, b, o).lines \in Nat /\ Expect(x, lim, b, o).lines >= k
        /\ Expect(x, lim, b, o).packets \in Nat
    BY <1>3, <1>8, <1>10, <2>1 DEF Expectation
  <2>3. CASE k + 1 \in ends
    <3>1. m = k + 1 /\ m - 1 = k
      BY <1>1, <1>4, <2>3
    <3> QED
      BY <1>3, <1>6, <1>10, <2>2, <3>1
  <2>4. CASE k + 1 \notin ends
    BY <1>6, <1>7, <1>10, <2>2, <2>4
  <2> QED
    BY <2>3, <2>4
<1> QED
  BY <1>9, <1>10

\* What ends in order, the last within a total, ends within it.
LEMMA EndsWithin ==
    ASSUME NEW n \in Nat, NEW e \in [1..n -> Nat], NEW total \in Nat,
           n > 0 => e[n] <= total, \A i \in 1..(n - 1) : e[i] <= e[i + 1]
    PROVE  \A i \in 1..n : e[i] <= total
<1> DEFINE bad == {d \in 0..(n - 1) : ~(e[n - d] <= total)}
<1> SUFFICES ASSUME NEW i \in 1..n, ~(e[i] <= total) PROVE FALSE
  OBVIOUS
<1>1. n - i \in 0..(n - 1) /\ n - (n - i) = i
  OBVIOUS
<1>2. bad \in SUBSET Nat /\ bad # {}
  <2>1. n - i \in bad
    BY <1>1
  <2>2. \A d \in bad : d \in Nat
    OBVIOUS
  <2> HIDE DEF bad
  <2> QED
    BY <2>1, <2>2
<1>3. PICK d \in bad : \A y \in bad : d <= y
  <2> HIDE DEF bad
  <2>1. Min(bad) \in bad /\ \A y \in bad : Min(bad) <= y
    BY <1>2, MinIs
  <2> QED
    BY <2>1, Zenon
<1>4. d \in 0..(n - 1) /\ ~(e[n - d] <= total)
  BY <1>3
<1>5. CASE d = 0
  <2>1. n > 0 /\ n - d = n
    BY <1>5
  <2> QED
    BY <1>4, <2>1
<1>6. CASE d # 0
  <2>1. d - 1 \in 0..(n - 1) /\ ~(d <= d - 1)
    BY <1>4, <1>6
  <2>2. d - 1 \notin bad
    BY <1>3, <2>1
  <2>3. e[n - (d - 1)] <= total
    BY <2>1, <2>2
  <2>4. n - d \in 1..(n - 1) /\ n - (d - 1) = (n - d) + 1 /\ (n - d) + 1 \in 1..n
    BY <1>4, <1>6
  <2>5. e[n - d] <= e[(n - d) + 1] /\ e[n - d] \in Nat /\ e[(n - d) + 1] \in Nat
    BY <2>4
  <2> QED
    BY <1>4, <2>3, <2>4, <2>5
<1> QED
  BY <1>5, <1>6

\* Every packet ends within the stream.
LEMMA PacketFits ==
    ASSUME NEW x, WellFormed(x), NEW i \in 1..Len(x.packets)
    PROVE  x.linesLen + x.packets[i].from + PacketLen(x.packets[i]) <= x.size
<1> DEFINE n == Len(x.packets)
           e == [j \in 1..n |-> x.linesLen + x.packets[j].from + PacketLen(x.packets[j])]
<1>1. x.packets \in Seq(Packet) /\ n \in Nat /\ x.linesLen \in Nat /\ x.size \in Nat
  BY DEF WellFormed
<1>2. \A j \in 1..n : /\ x.packets[j].from \in Nat /\ PacketLen(x.packets[j]) \in Nat
                      /\ e[j] = x.linesLen + x.packets[j].from + PacketLen(x.packets[j])
                      /\ e[j] \in Nat
  <2> TAKE j \in 1..n
  <2>1. x.packets[j] \in Packet
    BY <1>1
  <2>2. x.packets[j].from \in Nat /\ PacketLen(x.packets[j]) \in Nat
    BY <2>1, PacketLenAtLeast DEF Packet
  <2>3. e[j] = x.linesLen + x.packets[j].from + PacketLen(x.packets[j])
    OBVIOUS
  <2>4. x.linesLen \in Nat
    BY <1>1
  <2> HIDE DEF e
  <2> QED
    BY ONLY <2>2, <2>3, <2>4
<1>3. e \in [1..n -> Nat]
  <2>1. e = [j \in 1..n |-> e[j]]
    OBVIOUS
  <2> HIDE DEF e
  <2> QED
    BY <1>2, <2>1
<1>4. n > 0 => e[n] <= x.size
  <2> SUFFICES ASSUME n > 0 PROVE e[n] <= x.size
    OBVIOUS
  <2>1. n \in 1..n
    BY <1>1
  <2>2. x.size = x.linesLen + x.packets[n].from + PacketLen(x.packets[n])
    BY <2>1 DEF WellFormed
  <2> QED
    BY <1>1, <1>2, <2>1, <2>2
<1>5. \A j \in 1..(n - 1) : e[j] <= e[j + 1]
  <2> TAKE j \in 1..(n - 1)
  <2>1. j \in 1..n /\ j + 1 \in 1..n /\ j + 1 # 1 /\ (j + 1) - 1 = j
    BY <1>1
  <2>2. x.packets[j + 1].from = x.packets[j].from + PacketLen(x.packets[j])
    BY <2>1 DEF WellFormed
  <2>3. /\ e[j] = x.linesLen + x.packets[j].from + PacketLen(x.packets[j])
        /\ e[j + 1] = x.linesLen + x.packets[j + 1].from + PacketLen(x.packets[j + 1])
        /\ x.packets[j].from \in Nat /\ PacketLen(x.packets[j]) \in Nat
        /\ PacketLen(x.packets[j + 1]) \in Nat
    BY <1>2, <2>1
  <2>4. x.linesLen \in Nat
    BY <1>1
  <2> HIDE DEF e
  <2> QED
    BY ONLY <2>2, <2>3, <2>4
<1> HIDE DEF e
<1>6. \A j \in 1..n : e[j] <= x.size
  BY <1>1, <1>3, <1>4, <1>5, EndsWithin
<1> QED
  BY <1>2, <1>6

\* Every line ends within the lines, and these within the stream.
LEMMA LineFits ==
    ASSUME NEW x, WellFormed(x), NEW i \in 1..Len(x.lines)
    PROVE  x.lines[i].from + x.lines[i].len <= x.linesLen /\ x.linesLen <= x.size
<1> DEFINE n == Len(x.lines)
           e == [j \in 1..n |-> x.lines[j].from + x.lines[j].len]
<1>1. x.lines \in Seq(Line) /\ n \in Nat /\ x.linesLen \in Nat /\ x.size \in Nat
  BY DEF WellFormed
<1>2. \A j \in 1..n : /\ x.lines[j].from \in Nat /\ x.lines[j].len \in Nat
                      /\ e[j] = x.lines[j].from + x.lines[j].len
                      /\ e[j] \in Nat
  <2> TAKE j \in 1..n
  <2>1. x.lines[j] \in Line
    BY <1>1
  <2>2. x.lines[j].from \in Nat /\ x.lines[j].len \in Nat
    BY <2>1 DEF Line
  <2>3. e[j] = x.lines[j].from + x.lines[j].len
    OBVIOUS
  <2> HIDE DEF e
  <2> QED
    BY ONLY <2>2, <2>3
<1>3. e \in [1..n -> Nat]
  <2>1. e = [j \in 1..n |-> e[j]]
    OBVIOUS
  <2> HIDE DEF e
  <2> QED
    BY <1>2, <2>1
<1>4. n > 0 => e[n] <= x.linesLen
  <2> SUFFICES ASSUME n > 0 PROVE e[n] <= x.linesLen
    OBVIOUS
  <2>1. n \in 1..n
    BY <1>1
  <2>2. x.linesLen = x.lines[n].from + x.lines[n].len
    BY <2>1 DEF WellFormed
  <2> QED
    BY <1>1, <1>2, <2>1, <2>2
<1>5. \A j \in 1..(n - 1) : e[j] <= e[j + 1]
  <2> TAKE j \in 1..(n - 1)
  <2>1. j \in 1..n /\ j + 1 \in 1..n /\ j + 1 # 1 /\ (j + 1) - 1 = j
    BY <1>1
  <2>2. x.lines[j + 1].from = x.lines[j].from + x.lines[j].len
    BY <2>1 DEF WellFormed
  <2>3. /\ e[j] = x.lines[j].from + x.lines[j].len
        /\ e[j + 1] = x.lines[j + 1].from + x.lines[j + 1].len
        /\ x.lines[j].from \in Nat /\ x.lines[j].len \in Nat /\ x.lines[j + 1].len \in Nat
    BY <1>2, <2>1
  <2> HIDE DEF e
  <2> QED
    BY ONLY <2>2, <2>3
<1> HIDE DEF e
<1>6. \A j \in 1..n : e[j] <= x.linesLen
  BY <1>1, <1>3, <1>4, <1>5, EndsWithin
<1>7. x.linesLen <= x.size
  <2>1. CASE x.packets = <<>>
    BY <1>1, <2>1 DEF WellFormed
  <2>2. CASE x.packets # <<>>
    <3>1. 1 \in 1..Len(x.packets) /\ x.packets[1] \in Packet
      BY <2>2 DEF WellFormed
    <3>2. x.linesLen + x.packets[1].from + PacketLen(x.packets[1]) <= x.size
      BY <3>1, PacketFits
    <3>3. x.packets[1].from \in Nat /\ PacketLen(x.packets[1]) \in Nat
      BY <3>1, PacketLenAtLeast DEF Packet
    <3> QED
      BY <1>1, <3>2, <3>3
  <2> QED
    BY <2>1, <2>2
<1> QED
  BY <1>2, <1>6, <1>7
----------------------------------------------------------------------------
(* The observation against the reference model.                            *)

\* How an observation ended, in the reference's words.
Explained ==
    /\ end.code = "BannerOnly" => bannerOnly /\ line = 2
    /\ end.code = "UnexpectedInput" =>
          line = 1 /\ exchange.lines # <<>> /\ exchange.lines[1].class = "Text"
    /\ end.code \in IdentError =>
          /\ line = 1 /\ exchange.lines # <<>> /\ exchange.lines[1].class # "Text"
          /\ RefLine(limits, exchange, 1) = end.code
    /\ end.code \in PacketError \union {"KexInit", "Disconnect"} =>
          /\ line = 2 /\ Reported < Len(exchange.packets)
          /\ RefPacket(exchange, Reported + 1) = end.code
    /\ end.code = "Eof" => IF line = 1 THEN buffered < frontLine.len
                           ELSE buffered < PacketLen(frontPacket)

\* Everything the observer went past is what the reference goes past.
FollowInv ==
    /\ line = 2 => /\ RefLine(limits, exchange, 1) = "Identification"
                   /\ exchange.lines[1].class # "Text"
    /\ line = 2 /\ bannerOnly => end.code = "BannerOnly"
    /\ bannerOnly => packet = 1
    /\ \A j \in 1..Reported : RefPacket(exchange, j) = "Skipped"
    /\ Explained

LEMMA ReportedIs ==
    ASSUME Inv, RecordInv
    PROVE  Reported = packet - 1 - Ending /\ Reported \in Nat /\ packet \in Nat
<1>1. messages \in Nat /\ messages = packet - 1 - Ending /\ packet \in Nat
  BY DEF Inv, RecordInv, TypeOK, WellFormed
<1> QED
  BY <1>1 DEF Reported, Ending

\* What the reader decides of the line at the front is what the reference
\* decides of the first line.
LEMMA LineVerdict ==
    ASSUME Inv, NeedsIdentification, ~Unexpected, IdentStep # "NeedMore"
    PROVE  /\ line = 1 /\ exchange.lines # <<>> /\ exchange.lines[1].class # "Text"
           /\ IdentStep = RefLine(limits, exchange, 1)
<1>1. line = 1 /\ end = NoEnd /\ WellFormed(exchange) /\ buffered \in Nat
  BY CapacityNat DEF Inv, TypeOK, NeedsIdentification
<1>2. bytesRead = Position + buffered
  BY <1>1 DEF Inv, NoEnd, Ended
<1>3. frontLine \in Line
  BY <1>1, <1>2, FrontLine DEF Inv
<1>4. LineLimit(limits, frontLine, buffered) = MaxIdentificationLine
  BY DEF LineLimit, limits, Larger
<1>5. buffered > 0
  <2> SUFFICES ASSUME buffered = 0 PROVE FALSE
    BY <1>1
  <2>1. frontLine.len \in Nat /\ frontLine.len > 0
    <3>1. CASE frontLine = NoLine
      BY <3>1 DEF NoLine
    <3>2. CASE frontLine # NoLine
      <4>1. 1 \in 1..Len(exchange.lines) /\ frontLine = exchange.lines[1]
        BY <1>1, <3>2 DEF frontLine, At, WellFormed
      <4>2. frontLine.tell <= frontLine.len /\ frontLine.tell \in 1..4 /\ frontLine.len \in Nat
        BY <1>1, <1>3, <4>1 DEF WellFormed, Line, PREFIX_LEN
      <4> QED
        BY <4>2
    <3> QED
      BY <3>1, <3>2
  <2>2. IdentStep = PartialLine(limits, frontLine, buffered)
    BY <2>1 DEF IdentStep, IdentFeed
  <2> QED
    BY <1>4, <2>2 DEF PartialLine, PREFIX_LEN
<1>6. 1 \in 1..Len(exchange.lines) /\ frontLine = exchange.lines[1]
  BY <1>1, <1>2, <1>5, FrontLine DEF Inv
<1>7. exchange.lines[1].from = 0
  BY <1>1, <1>6 DEF WellFormed
<1>8. IdentStep = IdentFeed(limits, 1 - 1, exchange.lines[1].from, exchange.lines[1], buffered)
  BY <1>6, <1>7 DEF IdentStep
<1>9. limits.maxIdentificationLine >= PREFIX_LEN
  BY DEF limits
<1>10. IdentStep = RefLine(limits, exchange, 1)
  BY <1>1, <1>6, <1>8, <1>9, Limits, LineAgrees
<1>11. exchange.lines[1].class # "Text"
  <2> SUFFICES ASSUME frontLine.class = "Text" PROVE FALSE
    BY <1>6
  <2>1. frontLine.tell \in 1..4 /\ frontLine.len \in Nat /\ frontLine.tell <= frontLine.len
    BY <1>1, <1>3, <1>6 DEF Line, PREFIX_LEN, WellFormed
  <2>2. buffered < frontLine.tell
    BY <1>1, <2>1 DEF Unexpected, StartsIdentification
  <2>3. buffered < frontLine.len /\ ~(buffered >= MaxIdentificationLine)
    BY <1>1, <2>1, <2>2 DEF PREFIX_LEN
  <2> QED
    BY <1>4, <2>3 DEF IdentStep, IdentFeed, PartialLine
<1>12. exchange.lines # <<>>
  BY <1>6
<1> QED
  BY <1>1, <1>10, <1>11, <1>12

\* What the decoder decides of the packet at the front is what the reference
\* decides of it.
LEMMA PacketVerdict ==
    ASSUME Inv, NeedsPackets, PacketStep # "NeedMore"
    PROVE  /\ line = 2 /\ packet \in 1..Len(exchange.packets)
           /\ PacketStep = RefPacket(exchange, packet)
<1>1. /\ line = 2 /\ end = NoEnd /\ WellFormed(exchange) /\ buffered \in Nat
      /\ packets = packet - 1 /\ bytes = PacketStart
  BY CapacityNat DEF Inv, TypeOK, NeedsPackets
<1>2. bytesRead = Position + buffered
  BY <1>1 DEF Inv, NoEnd, Ended
<1>3. buffered > 0
  <2> SUFFICES ASSUME buffered = 0 PROVE FALSE
    BY <1>1
  <2>1. DecodeInitialPacket(frontPacket, buffered) = "NeedMore"
    BY DEF DecodeInitialPacket
  <2> QED
    BY <2>1 DEF PacketStep, PacketsStep
<1>4. packet \in 1..Len(exchange.packets) /\ frontPacket = exchange.packets[packet]
  BY <1>1, <1>2, <1>3, FrontPacket DEF Inv
<1>5. bytes = exchange.packets[packet].from
  BY <1>1, <1>4 DEF PacketStart
<1>6. PacketStep = PacketsStep(packet - 1, exchange.packets[packet].from,
                               exchange.packets[packet], buffered)
  BY <1>1, <1>4, <1>5 DEF PacketStep
<1> QED
  BY <1>1, <1>4, <1>6, PacketAgrees

\* A step of the driver that leaves the front of the stream where it is.
LEMMA SameFollow ==
    ASSUME FollowInv, UNCHANGED <<line, packet, end, exchange, bannerOnly>>,
           end.code = "Eof" => buffered' = buffered
    PROVE  FollowInv'
<1>1. Reported' = Reported /\ limits' = limits /\ frontLine' = frontLine
      /\ frontPacket' = frontPacket
  BY DEF Reported, limits, frontLine, frontPacket
<1>2. RefLine(limits, exchange, 1)' = RefLine(limits, exchange, 1)
  BY <1>1
<1>3. Explained'
  BY <1>1, <1>2 DEF FollowInv, Explained
<1> QED
  BY <1>1, <1>2, <1>3 DEF FollowInv

\* The observer ends, for a reason the reference has as well.
LEMMA EndFollow ==
    ASSUME Inv, RecordInv, FollowInv, end = NoEnd, Explained',
           UNCHANGED <<line, exchange, bannerOnly>>, packet' = packet + Ending'
    PROVE  FollowInv'
<1>1. Reported = packet - 1 /\ packet \in Nat
  <2>1. Ending = 0
    BY DEF Ending, NoEnd, Ended
  <2> QED
    BY <2>1, ReportedIs
<1>2. Ending' \in {0, 1} /\ Reported' = packet' - 1 - Ending'
  BY DEF Ending, Reported
<1>3. Reported' = Reported
  <2>1. CASE Ending' = 0
    BY <1>1, <1>2, <2>1
  <2>2. CASE Ending' = 1
    BY <1>1, <1>2, <2>2
  <2> QED
    BY <1>2, <2>1, <2>2
<1>4. limits' = limits
  BY DEF limits
<1>5. bannerOnly => line # 2
  BY DEF FollowInv, NoEnd, Ended
<1>6. bannerOnly => Ending' = 0
  BY <1>5 DEF Explained, Ending
<1>7. bannerOnly' => packet' = 1
  BY <1>1, <1>6 DEF FollowInv
<1> QED
  BY <1>3, <1>4, <1>5, <1>7 DEF FollowInv

LEMMA InitFollow == Init => FollowInv
<1> SUFFICES ASSUME Init PROVE FollowInv
  OBVIOUS
<1>1. line = 1 /\ packet = 1 /\ end.code = "None"
  BY DEF Init, NoEnd, Ended
<1>2. Reported = 0
  <2>1. Ending = 0 /\ Reported = packet - 1 - Ending
    BY <1>1 DEF Ending, Reported
  <2> QED
    BY <1>1, <2>1
<1>3. Explained
  BY <1>1 DEF Explained, IdentError, PacketError
<1> QED
  BY <1>1, <1>2, <1>3 DEF FollowInv

\* A driver that waits has less than decides the line or packet at the front.
LEMMA WaitsWithin ==
    ASSUME Inv, NeedMore
    PROVE  /\ bytesRead = Position + buffered /\ buffered \in Nat
           /\ IF line = 1
              THEN /\ stage = "ClientIdentification"
                   /\ buffered < frontLine.len /\ buffered < MaxIdentificationLine
              ELSE stage = "InitialPackets" /\ buffered < PacketLen(frontPacket)
<1>1. buffered \in Nat
  BY CapacityNat DEF Inv, TypeOK
<1>2. bytesRead = Position + buffered
  BY DEF Inv, NeedMore, NeedsIdentification, NeedsPackets, NoEnd, Ended
<1>3. CASE NeedsIdentification /\ IdentStep = "NeedMore"
  <2>1. line = 1 /\ stage = "ClientIdentification"
    BY <1>3 DEF Inv, NeedsIdentification
  <2>2. frontLine \in Line
    BY <1>2, <2>1, FrontLine DEF Inv
  <2>3. buffered < frontLine.len /\ buffered < LineLimit(limits, frontLine, buffered)
    BY <1>1, <1>3, <2>2, Limits, IdentNeedMore DEF IdentStep
  <2>4. LineLimit(limits, frontLine, buffered) = MaxIdentificationLine
    BY DEF LineLimit, limits, Larger
  <2> QED
    BY <1>1, <1>2, <2>1, <2>3, <2>4
<1>4. CASE NeedsPackets /\ PacketStep = "NeedMore"
  <2>1. line = 2 /\ stage = "InitialPackets"
    BY <1>4 DEF Inv, NeedsPackets
  <2>2. frontPacket \in Packet
    BY <1>2, <2>1, FrontPacket DEF Inv
  <2>3. buffered < PacketLen(frontPacket)
    BY <1>1, <1>4, <2>2, PacketNeedMore DEF PacketStep, Inv, TypeOK
  <2> QED
    BY <1>1, <1>2, <2>1, <2>3
<1> QED
  BY <1>3, <1>4 DEF NeedMore

LEMMA NextFollow ==
    ASSUME Inv, RecordInv, FollowInv, [Next]_vars
    PROVE  FollowInv'
<1>0. packet \in Nat /\ line \in {1, 2} /\ Inv' /\ RecordInv'
  BY NextInv, NextRecord DEF Inv, TypeOK, WellFormed
<1>1. CASE WriteBanner
  BY <1>1, SameFollow DEF WriteBanner, observer, environment
<1>2. CASE WriteFails
  BY <1>2, SameFollow DEF WriteFails, observer, environment
<1>3. CASE StepIdentification
  <2>1. ClientIdentification /\ UNCHANGED <<exchange, bannerOnly>>
    BY <1>3 DEF StepIdentification, environment
  <2>2. NeedsIdentification /\ ~Unexpected /\ IdentStep = "Identification" /\ end = NoEnd
    BY <2>1 DEF ClientIdentification, NeedsIdentification
  <2>3. /\ line = 1 /\ packet = 1 /\ exchange.lines[1].class # "Text"
        /\ RefLine(limits, exchange, 1) = "Identification"
    BY <2>2, LineVerdict DEF Inv
  <2>4. /\ line' = 2 /\ packet' = 1
        /\ IF bannerOnly THEN end' = Ended("BannerOnly") ELSE end' = NoEnd
    BY <2>1, <2>2, <2>3 DEF ClientIdentification, Finish
  <2>5. /\ end'.code \in {"BannerOnly", "None"}
        /\ end'.code = "BannerOnly" <=> bannerOnly
    BY <2>4 DEF Ended, NoEnd
  <2>6. Reported' = 0
    <3>1. Ending' = 0 /\ Reported' = packet' - 1 - Ending'
      BY <2>5 DEF Ending, Reported
    <3> QED
      BY <2>4, <3>1
  <2>7. Explained'
    BY <2>1, <2>4, <2>5 DEF Explained, IdentError, PacketError
  <2>8. limits' = limits
    BY DEF limits
  <2> QED
    BY <2>1, <2>3, <2>4, <2>5, <2>6, <2>7, <2>8 DEF FollowInv
<1>4. CASE StepSkipped
  <2>1. /\ Skipped /\ packet' = packet + 1
        /\ UNCHANGED <<line, end, exchange, bannerOnly>>
    BY <1>4 DEF StepSkipped, Skipped, Consume, environment
  <2>2. NeedsPackets /\ PacketStep = "Skipped" /\ end = NoEnd
    BY <2>1 DEF Skipped, NeedsPackets
  <2>3. line = 2 /\ RefPacket(exchange, packet) = "Skipped"
    BY <2>2, PacketVerdict
  <2>4. ~bannerOnly /\ end.code = "None"
    BY <2>2, <2>3 DEF FollowInv, NoEnd, Ended
  <2>5. Reported = packet - 1 /\ Reported' = packet
    <3>1. /\ Ending = 0 /\ Ending' = 0
          /\ Reported = packet - 1 - Ending /\ Reported' = packet' - 1 - Ending'
      BY <2>1, <2>4 DEF Ending, Reported
    <3> QED
      BY <1>0, <2>1, <3>1
  <2>6. \A j \in 1..Reported' : RefPacket(exchange, j) = "Skipped"
    <3> TAKE j \in 1..Reported'
    <3>1. CASE j = packet
      BY <2>3, <3>1
    <3>2. CASE j # packet
      <4>1. j \in 1..Reported
        BY <1>0, <2>5, <3>2
      <4> QED
        BY <4>1 DEF FollowInv
    <3> QED
      BY <3>1, <3>2
  <2>7. Explained'
    BY <2>1, <2>4 DEF Explained, IdentError, PacketError
  <2>8. limits' = limits
    BY DEF limits
  <2> QED
    BY <2>1, <2>4, <2>6, <2>7, <2>8 DEF FollowInv
<1>5. CASE StepFinished
  <2>1. UNCHANGED <<exchange, bannerOnly>>
    BY <1>5 DEF StepFinished, environment
  <2>2. CASE UNCHANGED observer
    BY <2>1, <2>2, SameFollow DEF observer
  <2>3. CASE UnexpectedInput
    <3>1. /\ NeedsIdentification /\ Unexpected /\ end = NoEnd
          /\ end'.code = "UnexpectedInput" /\ UNCHANGED <<line, packet>>
      BY <2>3 DEF UnexpectedInput, NeedsIdentification, Finish, Ended
    <3>2. line = 1 /\ buffered \in Nat /\ bytesRead = Position + buffered
      BY <3>1, CapacityNat DEF Inv, TypeOK, NeedsIdentification, NoEnd, Ended
    <3>3. frontLine \in Line
      BY <3>2, FrontLine DEF Inv
    <3>4. buffered > 0 /\ frontLine.class = "Text"
      <4>1. frontLine.tell \in Nat /\ frontLine.tell >= 1
        BY <3>3 DEF Line, PREFIX_LEN
      <4> QED
        BY <3>1, <3>2, <4>1 DEF Unexpected, StartsIdentification
    <3>5. exchange.lines # <<>> /\ exchange.lines[1].class = "Text"
      BY <3>2, <3>4, FrontLine DEF Inv
    <3>6. Explained'
      BY <2>1, <3>1, <3>2, <3>5 DEF Explained, IdentError, PacketError
    <3>7. Ending' = 0
      BY <3>1 DEF Ending
    <3> QED
      BY <1>0, <2>1, <3>1, <3>6, <3>7, EndFollow
  <2>4. CASE IdentificationError
    <3>1. /\ NeedsIdentification /\ ~Unexpected /\ IdentStep \in IdentError /\ end = NoEnd
          /\ end'.code = IdentStep /\ UNCHANGED <<line, packet>>
      BY <2>4 DEF IdentificationError, NeedsIdentification, Finish, Ended
    <3>2. IdentStep # "NeedMore"
      BY <3>1 DEF IdentError
    <3>3. /\ line = 1 /\ exchange.lines # <<>> /\ exchange.lines[1].class # "Text"
          /\ IdentStep = RefLine(limits, exchange, 1)
      BY <3>1, <3>2, LineVerdict
    <3>4. limits' = limits
      BY DEF limits
    <3>5. Explained'
      BY <2>1, <3>1, <3>3, <3>4 DEF Explained, IdentError, PacketError
    <3>6. Ending' = 0
      BY <3>1 DEF Ending, IdentError
    <3> QED
      BY <1>0, <2>1, <3>1, <3>5, <3>6, EndFollow
  <2>5. CASE LastPacket \/ ErrorPacket
    <3>1. /\ NeedsPackets /\ end = NoEnd /\ end'.code = PacketStep /\ line' = line
          /\ PacketStep \in PacketError \union {"KexInit", "Disconnect"}
          /\ packet' = packet + Ending'
      BY <1>0, <2>5 DEF LastPacket, ErrorPacket, NeedsPackets, Finish, Ended, Consume, Ending,
         PacketError
    <3>2. PacketStep # "NeedMore"
      BY <3>1 DEF PacketError
    <3>3. /\ line = 2 /\ packet \in 1..Len(exchange.packets)
          /\ PacketStep = RefPacket(exchange, packet)
      BY <3>1, <3>2, PacketVerdict
    <3>4. Reported' = packet - 1
      <4>1. Reported' = packet' - 1 - Ending' /\ Ending' \in {0, 1}
        BY DEF Reported, Ending
      <4>2. CASE Ending' = 0
        BY <1>0, <3>1, <4>1, <4>2
      <4>3. CASE Ending' = 1
        BY <1>0, <3>1, <4>1, <4>3
      <4> QED
        BY <4>1, <4>2, <4>3
    <3>5. Len(exchange.packets) \in Nat
      BY DEF Inv, TypeOK, WellFormed
    <3>6. Reported' < Len(exchange.packets) /\ Reported' + 1 = packet
      BY <1>0, <3>3, <3>4, <3>5
    <3>7. Explained'
      BY <2>1, <3>1, <3>3, <3>6 DEF Explained, IdentError, PacketError
    <3> QED
      BY <1>0, <2>1, <3>1, <3>7, EndFollow
  <2> QED
    BY <1>5, <2>2, <2>3, <2>4, <2>5 DEF StepFinished
<1>6. CASE StepNeedMore
  BY <1>6, SameFollow DEF StepNeedMore, observer, environment
<1>7. CASE Poll
  BY <1>7, SameFollow DEF Poll, observer, environment
<1>8. CASE Read
  <2>1. pc = "Read" /\ UNCHANGED <<line, packet, exchange, bannerOnly>>
    BY <1>8 DEF Read, Feed, Goto, environment
  <2>2. end = NoEnd /\ end.code # "Eof"
    BY <2>1 DEF RecordInv, NoEnd, Ended
  <2>3. end' = end
    <3>1. \/ end' = end
          \/ end'.code = "InputOverflow"
      BY <1>8 DEF Read, Feed, Finish, Ended
    <3> QED
      BY <1>0, <3>1 DEF Inv
  <2> QED
    BY <2>1, <2>2, <2>3, SameFollow
<1>9. CASE ReadEof
  <2>1. /\ pc = "Read" /\ end'.code = "Eof" /\ UNCHANGED <<exchange, bannerOnly>>
        /\ UNCHANGED <<line, packet, buffered>>
    BY <1>9 DEF ReadEof, InputEnded, Finish, Ended, environment
  <2>2. end = NoEnd /\ NeedMore
    BY <2>1 DEF RecordInv, Inv
  <2>3. IF line = 1 THEN buffered < frontLine.len ELSE buffered < PacketLen(frontPacket)
    BY <2>2, WaitsWithin
  <2>4. frontLine' = frontLine /\ frontPacket' = frontPacket
    BY <2>1 DEF frontLine, frontPacket
  <2>5. Explained'
    BY <2>1, <2>3, <2>4 DEF Explained, IdentError, PacketError
  <2>6. Ending' = 0
    BY <2>1 DEF Ending
  <2> QED
    BY <1>0, <2>1, <2>2, <2>5, <2>6, EndFollow
<1>10. CASE ReadNothing
  BY <1>10, SameFollow DEF ReadNothing, observer, environment
<1>11. CASE ReadFails
  BY <1>11, SameFollow DEF ReadFails, observer, environment
<1>12. CASE Expire
  BY <1>12, SameFollow DEF Expire, observer
<1>13. CASE RequestStop
  BY <1>13, SameFollow DEF RequestStop, observer
<1>14. CASE UNCHANGED vars
  BY <1>14, SameFollow DEF vars, observer, environment
<1> QED
  BY <1>1, <1>2, <1>3, <1>4, <1>5, <1>6, <1>7, <1>8, <1>9, <1>10, <1>11, <1>12, <1>13,
     <1>14 DEF Next, Drive, Step, Client, Returned

\* The first line is refused, or was not complete when the input ended.
LEMMA LineMeets ==
    ASSUME Inv, RecordInv, FollowInv, line = 1
    PROVE  AgreesWith(Expect(exchange, limits, bannerOnly, TRUE), exchange,
                      line - 1, Reported, end.code, bytesRead)
<1> DEFINE exp == Expect(exchange, limits, bannerOnly, TRUE)
<1>1. /\ WellFormed(exchange) /\ packet = 1 /\ Len(exchange.lines) \in Nat
      /\ end.code \in Code \union {"None"} /\ end.code # "InputOverflow"
  BY DEF Inv, TypeOK, WellFormed
<1>2. Ending = 0
  BY DEF FollowInv, Explained, Ending
<1>3. Reported = 0 /\ line - 1 = 0
  BY <1>1, <1>2, ReportedIs
<1>4. end.code \in {"None", "Eof", "UnexpectedInput"} \union IdentError
  BY <1>1 DEF FollowInv, Explained, Code
<1>5. end.code = "Eof" /\ bytesRead = exchange.size => exchange.lines = <<>>
  <2> SUFFICES ASSUME end.code = "Eof", bytesRead = exchange.size, exchange.lines # <<>>
               PROVE  FALSE
    OBVIOUS
  <2>1. 1 \in 1..Len(exchange.lines) /\ frontLine = exchange.lines[1]
    BY <1>1 DEF frontLine, At, WellFormed
  <2>2. frontLine.from = 0 /\ frontLine.len \in Nat /\ buffered \in Nat
    <3>1. exchange.lines[1] \in Line /\ exchange.lines[1].from = 0
      BY <1>1, <2>1 DEF WellFormed
    <3>2. buffered \in Nat
      BY CapacityNat DEF Inv, TypeOK
    <3> QED
      BY <2>1, <3>1, <3>2 DEF Line
  <2>3. buffered < frontLine.len
    BY DEF FollowInv, Explained
  <2>4. bytesRead = 0 + buffered
    BY DEF Inv, Position
  <2>5. /\ exchange.lines[1].from + exchange.lines[1].len <= exchange.linesLen
        /\ exchange.linesLen <= exchange.size
    BY <1>1, <2>1, LineFits
  <2>6. exchange.linesLen \in Nat /\ exchange.size \in Nat
    BY <1>1 DEF WellFormed
  <2> QED
    BY <2>1, <2>2, <2>3, <2>4, <2>5, <2>6
<1>6. CASE exchange.lines # <<>> /\ exchange.lines[1].class = "Text"
  <2>1. exp = Expectation(0, 0, "UnexpectedInput")
    BY <1>6 DEF Expect
  <2>2. end.code \in {"None", "Eof", "UnexpectedInput"}
    BY <1>4, <1>6 DEF FollowInv, Explained
  <2>3. ~(end.code = "Eof" /\ bytesRead = exchange.size)
    BY <1>5, <1>6
  <2> HIDE DEF exp
  <2>4. exp.lines = 0 /\ exp.packets = 0 /\ exp.code = "UnexpectedInput"
    BY <2>1 DEF Expectation
  <2>5. AgreesWith(exp, exchange, 0, 0, end.code, bytesRead)
    BY <2>2, <2>3, <2>4 DEF AgreesWith
  <2> QED
    BY <1>3, <2>5 DEF exp
<1>7. CASE ~(exchange.lines # <<>> /\ exchange.lines[1].class = "Text")
  <2>1. 0 \in 0..Len(exchange.lines) /\ \A j \in 1..0 : RefLine(limits, exchange, j) = "Prelude"
    BY <1>1
  <2>2. /\ 0 = Len(exchange.lines) => exp = Expectation(0, 0, "Incomplete")
        /\ exp.lines \in Nat /\ exp.lines >= 0 /\ exp.packets \in Nat
        /\ 0 < Len(exchange.lines)
              /\ RefLine(limits, exchange, 0 + 1) \notin {"Prelude", "Identification"} =>
              exp = Expectation(0, 0, RefLine(limits, exchange, 0 + 1))
    <3> DEFINE o == TRUE
               b == bannerOnly
               e == Expect(exchange, limits, b, o)
    <3>1. ~(o /\ exchange.lines # <<>> /\ exchange.lines[1].class = "Text")
      BY <1>7
    <3> HIDE DEF o, b
    <3>2. /\ 0 = Len(exchange.lines) => e = Expectation(0, 0, "Incomplete")
          /\ e.lines \in Nat /\ e.lines >= 0 /\ e.packets \in Nat
          /\ 0 < Len(exchange.lines)
                /\ RefLine(limits, exchange, 0 + 1) \notin {"Prelude", "Identification"} =>
                e = Expectation(0, 0, RefLine(limits, exchange, 0 + 1))
      BY <1>1, <2>1, <3>1, ExpectedLines
    <3> HIDE DEF e
    <3>3. exp = e
      BY DEF e, o, b
    <3> HIDE DEF exp
    <3> QED
      BY <3>2, <3>3
  <2> HIDE DEF exp
  <2>3. end.code \in {"None", "Eof"} \union IdentError
    BY <1>4, <1>7 DEF FollowInv, Explained
  <2>4. CASE end.code = "None"
    <3>1. AgreesWith(exp, exchange, 0, 0, end.code, bytesRead)
      BY <2>2, <2>4 DEF AgreesWith
    <3> QED
      BY <1>3, <3>1 DEF exp
  <2>5. CASE end.code = "Eof"
    <3>1. bytesRead = exchange.size => Len(exchange.lines) = 0
      BY <1>5, <2>5
    <3>2. bytesRead = exchange.size => exp.lines = 0 /\ exp.packets = 0 /\ exp.code = "Incomplete"
      BY <2>2, <3>1 DEF Expectation
    <3>3. AgreesWith(exp, exchange, 0, 0, end.code, bytesRead)
      BY <2>2, <2>5, <3>2 DEF AgreesWith
    <3> QED
      BY <1>3, <3>3 DEF exp
  <2>6. CASE end.code \in IdentError
    <3>1. exchange.lines # <<>> /\ RefLine(limits, exchange, 0 + 1) = end.code
      BY <2>6 DEF FollowInv, Explained
    <3>2. 0 < Len(exchange.lines) /\ end.code \notin {"Prelude", "Identification", "None", "Eof"}
      BY <1>1, <2>6, <3>1 DEF IdentError, WellFormed
    <3>3. exp.lines = 0 /\ exp.packets = 0 /\ exp.code = end.code
      BY <2>2, <3>1, <3>2 DEF Expectation
    <3>4. AgreesWith(exp, exchange, 0, 0, end.code, bytesRead)
      BY <3>2, <3>3 DEF AgreesWith
    <3> QED
      BY <1>3, <3>4 DEF exp
  <2> QED
    BY <2>3, <2>4, <2>5, <2>6
<1> QED
  BY <1>6, <1>7

\* The identification was reported; what follows it is as expected.
LEMMA PacketsMeet ==
    ASSUME Inv, RecordInv, FollowInv, line = 2
    PROVE  AgreesWith(Expect(exchange, limits, bannerOnly, TRUE), exchange,
                      line - 1, Reported, end.code, bytesRead)
<1> DEFINE exp == Expect(exchange, limits, bannerOnly, TRUE)
           np == Len(exchange.packets)
<1>1. /\ WellFormed(exchange) /\ np \in Nat /\ packet \in 1..(np + 1)
      /\ Len(exchange.lines) = 1
      /\ end.code \in Code \union {"None"} /\ end.code # "InputOverflow"
  BY DEF Inv, TypeOK, WellFormed
<1>2. /\ Reported \in Nat /\ Reported = packet - 1 - Ending /\ Ending \in {0, 1}
  BY ReportedIs DEF Ending
<1>3. Reported \in 0..np
  <2> HIDE DEF np
  <2> QED
    BY <1>1, <1>2
<1>4. /\ bannerOnly => exp = Expectation(1, 0, "BannerOnly")
      /\ ~bannerOnly => exp = ExpectPackets(exchange, 1)
  <2>1. /\ 0 \in 0..Len(exchange.lines) /\ 0 < Len(exchange.lines)
        /\ \A j \in 1..0 : RefLine(limits, exchange, j) = "Prelude"
    BY <1>1
  <2>2. /\ RefLine(limits, exchange, 0 + 1) = "Identification"
        /\ ~(TRUE /\ exchange.lines # <<>> /\ exchange.lines[1].class = "Text")
    BY DEF FollowInv
  <2>3. /\ bannerOnly => exp = Expectation(0 + 1, 0, "BannerOnly")
        /\ ~bannerOnly => exp = ExpectPackets(exchange, 0 + 1)
    <3> DEFINE o == TRUE
               b == bannerOnly
               e == Expect(exchange, limits, b, o)
    <3>1. ~(o /\ exchange.lines # <<>> /\ exchange.lines[1].class = "Text")
      BY <2>2
    <3> HIDE DEF o, b
    <3>2. /\ b => e = Expectation(0 + 1, 0, "BannerOnly")
          /\ ~b => e = ExpectPackets(exchange, 0 + 1)
      BY <1>1, <2>1, <2>2, <3>1, ExpectedLines
    <3> HIDE DEF e
    <3>3. exp = e /\ (b <=> bannerOnly)
      BY DEF e, o, b
    <3> HIDE DEF exp
    <3> QED
      BY <3>2, <3>3, Zenon
  <2>4. 0 + 1 = 1
    OBVIOUS
  <2> QED
    BY <2>3, <2>4, Zenon
<1>5. line - 1 = 1
  OBVIOUS
<1>6. CASE bannerOnly
  <2>1. end.code = "BannerOnly" /\ packet = 1 /\ Ending = 0
    BY <1>6 DEF FollowInv, Ending
  <2>2. Reported = 0
    BY <1>2, <2>1
  <2> HIDE DEF exp
  <2>3. exp = Expectation(1, 0, "BannerOnly")
    BY <1>4, <1>6, Zenon
  <2>5. exp.lines = 1 /\ exp.packets = 0 /\ exp.code = "BannerOnly"
    BY <2>3 DEF Expectation
  <2>4. AgreesWith(exp, exchange, 1, 0, end.code, bytesRead)
    BY <2>1, <2>5 DEF AgreesWith
  <2> QED
    BY <1>5, <2>2, <2>4 DEF exp
<1>7. CASE ~bannerOnly
  <2> HIDE DEF exp
  <2>1. exp = ExpectPackets(exchange, 1)
    BY <1>4, <1>7, Zenon
  <2>2. \A j \in 1..Reported : RefPacket(exchange, j) = "Skipped"
    BY DEF FollowInv
  <2>3. /\ exp.lines = 1 /\ exp.packets \in Nat /\ exp.packets >= Reported
        /\ Reported = np => exp = Expectation(1, Reported, "Incomplete")
        /\ Reported < np /\ RefPacket(exchange, Reported + 1) # "Skipped" =>
              exp = Expectation(1, Reported, RefPacket(exchange, Reported + 1))
    BY <1>1, <1>3, <2>1, <2>2, ExpectedPackets
  <2>4. end.code \in {"None", "Eof"} \union (PacketError \union {"KexInit", "Disconnect"})
    BY <1>1, <1>7 DEF FollowInv, Explained, Code
  <2> HIDE DEF np
  <2>5. CASE end.code = "None"
    <3>1. AgreesWith(exp, exchange, 1, Reported, end.code, bytesRead)
      BY <1>2, <2>3, <2>5 DEF AgreesWith
    <3> QED
      BY <1>5, <3>1 DEF exp
  <2>6. CASE end.code = "Eof"
    <3>1. Ending = 0 /\ Reported = packet - 1
      BY <1>1, <1>2, <2>6 DEF Ending
    <3>2. bytesRead = exchange.size => Reported = np
      <4> SUFFICES ASSUME bytesRead = exchange.size, packet # np + 1 PROVE FALSE
        BY <1>1, <3>1
      <4>1. packet \in 1..Len(exchange.packets) /\ frontPacket = exchange.packets[packet]
        BY <1>1 DEF np, frontPacket, At
      <4>2. PacketStart = exchange.packets[packet].from
        BY <1>1, <4>1 DEF PacketStart, np
      <4>3. bytesRead = Position + buffered /\ buffered < PacketLen(frontPacket)
        BY <2>6 DEF Inv, FollowInv, Explained
      <4>4. Position = exchange.linesLen + exchange.packets[packet].from
        BY <4>2 DEF Position
      <4>5. exchange.linesLen + exchange.packets[packet].from
                + PacketLen(exchange.packets[packet]) <= exchange.size
        BY <1>1, <4>1, PacketFits
      <4>6. exchange.packets[packet] \in Packet
        BY <1>1, <4>1 DEF WellFormed
      <4>7. /\ exchange.linesLen \in Nat /\ exchange.size \in Nat /\ buffered \in Nat
            /\ exchange.packets[packet].from \in Nat
            /\ PacketLen(exchange.packets[packet]) \in Nat
        <5>1. exchange.linesLen \in Nat /\ exchange.size \in Nat
          BY <1>1 DEF WellFormed
        <5>2. buffered \in Nat
          BY <1>1, CapacityNat DEF Inv, TypeOK
        <5>3. /\ exchange.packets[packet].from \in Nat
              /\ PacketLen(exchange.packets[packet]) \in Nat
          BY <4>6, PacketLenAtLeast DEF Packet
        <5> QED
          BY ONLY <5>1, <5>2, <5>3
      <4> QED
        BY <4>1, <4>3, <4>4, <4>5, <4>7
    <3>3. bytesRead = exchange.size =>
             exp.lines = 1 /\ exp.packets = Reported /\ exp.code = "Incomplete"
      BY <2>3, <3>2 DEF Expectation
    <3>4. AgreesWith(exp, exchange, 1, Reported, end.code, bytesRead)
      BY <1>2, <2>3, <2>6, <3>3 DEF AgreesWith
    <3> QED
      BY <1>5, <3>4 DEF exp
  <2>7. CASE end.code \in PacketError \union {"KexInit", "Disconnect"}
    <3>1. Reported < np /\ RefPacket(exchange, Reported + 1) = end.code
      BY <2>7 DEF FollowInv, Explained, np
    <3>2. end.code \notin {"Skipped", "None", "Eof"}
      BY <2>7 DEF PacketError
    <3>3. exp.lines = 1 /\ exp.packets = Reported /\ exp.code = end.code
      BY <2>3, <3>1, <3>2 DEF Expectation
    <3>4. AgreesWith(exp, exchange, 1, Reported, end.code, bytesRead)
      BY <1>2, <3>2, <3>3 DEF AgreesWith
    <3> QED
      BY <1>5, <3>4 DEF exp
  <2> QED
    BY <2>4, <2>5, <2>6, <2>7
<1> QED
  BY <1>6, <1>7

\* A driver about to poll or to read has less than decides the front.
LEMMA NeverLate ==
    ASSUME Inv, pc \in {"Poll", "Read"}
    PROVE  bytesRead - Position < IF stage = "ClientIdentification"
                                  THEN Smaller(frontLine.len, MaxIdentificationLine)
                                  ELSE PacketLen(frontPacket)
<1>1. NeedMore
  BY DEF Inv
<1>2. /\ bytesRead = Position + buffered /\ buffered \in Nat
      /\ IF line = 1
         THEN /\ stage = "ClientIdentification"
              /\ buffered < frontLine.len /\ buffered < MaxIdentificationLine
         ELSE stage = "InitialPackets" /\ buffered < PacketLen(frontPacket)
  BY <1>1, WaitsWithin
<1>3. Position \in Nat
  <2>1. CASE line = 1
    BY <2>1 DEF Position
  <2>2. CASE line # 1
    <3>1. line = 2 /\ WellFormed(exchange) /\ end = NoEnd /\ bytes = PacketStart /\ bytes \in Nat
      BY <1>1, <2>2 DEF Inv, TypeOK, NeedMore, NeedsIdentification, NeedsPackets
    <3> QED
      BY <2>2, <3>1 DEF Position, WellFormed
  <2> QED
    BY <2>1, <2>2
<1>4. bytesRead - Position = buffered
  BY ONLY <1>2, <1>3
<1> QED
  BY <1>2, <1>4 DEF Smaller

\* For every client, every limit and every way the bytes arrive: the observer
\* reports what the reference model expects of the whole stream, ends as it
\* expects, and never waits for more than it takes to tell (observer.rs step,
\* io/listener.rs drive, against tcp_support.rs stream_gen::expect).
THEOREM ExpectationMet == Spec => []AsExpected
<1>1. Init => Inv /\ RecordInv /\ FollowInv
  BY InitInv, InitRecord, InitFollow
<1>2. Inv /\ RecordInv /\ FollowInv /\ [Next]_vars => (Inv /\ RecordInv /\ FollowInv)'
  BY NextInv, NextRecord, NextFollow
<1>3. Inv /\ RecordInv /\ FollowInv => AsExpected
  <2> SUFFICES ASSUME Inv, RecordInv, FollowInv PROVE AsExpected
    OBVIOUS
  <2>1. AgreesWith(Expect(exchange, limits, bannerOnly, TRUE), exchange,
                   line - 1, Reported, end.code, bytesRead)
    BY LineMeets, PacketsMeet DEF Inv
  <2> QED
    BY <2>1, NeverLate DEF AsExpected
<1> QED
  BY <1>1, <1>2, <1>3, PTL DEF Spec

=============================================================================
