------------------------------- MODULE Probe -------------------------------
(***************************************************************************)
(* The client probe of tatami_ssh_tcp (probe.rs) and its blocking driver   *)
(* (connect, run_probe and drive of io.rs): connect to one of the resolved *)
(* addresses, send the client identification, then step until NeedMore and *)
(* read, all under one deadline.  The server may send lines before its     *)
(* identification.                                                         *)
(***************************************************************************)
EXTENDS StreamModel

CONSTANTS
    MaxPreludeLines, MaxPreludeBytes, MaxPreludeLine,
    MaxIdentificationLine,   \* IdentLimits
    MaxConnectAttempts,      \* IoConfig::max_connect_attempts
    Addresses                \* how many addresses the target may resolve to

\* An identification limit that the prefix alone would exceed is left out.
ASSUME ProbeAssumption ==
    /\ MaxPreludeLines \in Nat /\ MaxPreludeBytes \in Nat /\ MaxPreludeLine \in Nat
    /\ MaxIdentificationLine \in Nat /\ MaxIdentificationLine >= PREFIX_LEN
    /\ MaxConnectAttempts \in Nat
    /\ Addresses \subseteq Nat

VARIABLES
    exchange,            \* what this server has to send
    line, packet,        \* the line and the packet at the front of the buffer
    buffered,            \* buf.len()
    stage, preludeLines, preludeBytes, packets, bytes, end,
    addresses, failures, \* how many resolved, how many attempts failed
    pc, runEnd, runStage, pendingBytes, events, bytesRead,
    expired              \* the deadline of the phase has passed

probe == <<line, packet, buffered, stage, preludeLines, preludeBytes, packets,
           bytes, end>>
run == <<runEnd, runStage, pendingBytes, events, bytesRead>>
connection == <<addresses, failures>>
vars == <<probe, connection, pc, run, exchange, expired>>

\* buffer_capacity
Capacity ==
    LET ident == Larger(MaxPreludeLine, MaxIdentificationLine)
    IN Larger(MaxPacketLength + HEADER_LEN, ident) + ident
Room == Capacity - buffered

limits == [maxPreludeLines |-> MaxPreludeLines, maxPreludeBytes |-> MaxPreludeBytes,
           maxPreludeLine |-> MaxPreludeLine,
           maxIdentificationLine |-> MaxIdentificationLine]

frontLine == At(exchange.lines, line, NoLine)
frontPacket == At(exchange.packets, packet, NoPacket)

----------------------------------------------------------------------------
(* Probe.                                                                  *)

Finish(outcome) == stage' = "Finished" /\ end' = outcome

NeedsIdentification == stage = "Identification" /\ end = NoEnd
NeedsPackets == stage = "InitialPackets" /\ end = NoEnd
IdentStep == IdentFeed(limits, preludeLines, preludeBytes, frontLine, buffered)
PacketStep == PacketsStep(packets, bytes, frontPacket, buffered)

NeedMore == \/ NeedsIdentification /\ IdentStep = "NeedMore"
            \/ NeedsPackets /\ PacketStep = "NeedMore"

ConsumeLine == /\ line' = line + 1
               /\ buffered' = buffered - frontLine.len

PreludeLine ==
    /\ NeedsIdentification /\ IdentStep = "Prelude"
    /\ ConsumeLine
    /\ preludeLines' = preludeLines + 1
    /\ preludeBytes' = preludeBytes + frontLine.len
    /\ UNCHANGED <<packet, stage, packets, bytes, end>>

ServerIdentification ==
    /\ NeedsIdentification /\ IdentStep = "Identification"
    /\ ConsumeLine
    /\ stage' = "InitialPackets"
    /\ UNCHANGED <<packet, preludeLines, preludeBytes, packets, bytes, end>>

IdentificationError ==
    /\ NeedsIdentification /\ IdentStep \in IdentError
    /\ Finish(Ended(IdentStep))
    /\ UNCHANGED <<line, packet, buffered, preludeLines, preludeBytes, packets, bytes>>

Count == /\ packets' = packets + 1
         /\ bytes' = bytes + PacketLen(frontPacket)
Consume == /\ packet' = packet + 1
           /\ buffered' = buffered - PacketLen(frontPacket)

Skipped ==
    /\ NeedsPackets /\ PacketStep = "Skipped"
    /\ Count /\ Consume
    /\ UNCHANGED <<line, stage, preludeLines, preludeBytes, end>>

\* What follows KEXINIT is measured with KEXINIT.
FaultyLastPacket ==
    /\ NeedsPackets /\ PacketStep \in {"KexInit", "Disconnect"}
    /\ Count /\ Consume
    /\ Finish([Ended(PacketStep) EXCEPT
                   !.bytes = IF PacketStep = "KexInit" THEN buffered ELSE 0])
    /\ UNCHANGED <<line, preludeLines, preludeBytes>>

\* KEXINIT and DISCONNECT are consumed and end the probe.
LastPacket ==
    /\ NeedsPackets /\ PacketStep \in {"KexInit", "Disconnect"}
    /\ Count /\ Consume
    /\ Finish([Ended(PacketStep) EXCEPT
                   !.bytes = IF PacketStep = "KexInit" THEN buffered' ELSE 0])
    /\ UNCHANGED <<line, preludeLines, preludeBytes>>

ErrorPacket ==
    /\ NeedsPackets /\ PacketStep \in PacketError
    /\ IF Counted(PacketStep) THEN Count ELSE UNCHANGED <<packets, bytes>>
    /\ Finish(Ended(PacketStep))
    /\ UNCHANGED <<line, packet, buffered, preludeLines, preludeBytes>>

\* feed: what does not fit is refused before anything is copied.
Feed(n) ==
    /\ IF n > Room
       THEN Finish(Ended("InputOverflow")) /\ UNCHANGED buffered
       ELSE buffered' = buffered + n /\ UNCHANGED <<stage, end>>
    /\ UNCHANGED <<line, packet, preludeLines, preludeBytes, packets, bytes>>

InputEnded ==
    /\ Finish([Ended("Eof") EXCEPT !.stage = stage, !.bytes = buffered])
    /\ UNCHANGED <<line, packet, buffered, preludeLines, preludeBytes, packets, bytes>>

----------------------------------------------------------------------------
(* connect.  One deadline covers the resolved addresses, of which the      *)
(* first max_connect_attempts are tried, at least one.                     *)

Goto(from, to) == pc = from /\ pc' = to
Return(why) == pc' = "Returned" /\ runEnd' = why

attempts == Smaller(addresses, Larger(MaxConnectAttempts, 1))

\* The deadline is looked at before every attempt.
ConnectGivesUp ==
    /\ pc = "Connect"
    /\ \/ failures = 0 /\ Return("Resolve")
       \/ addresses = 0 /\ Return("NoAddresses")
       \/ addresses > 0 /\ expired /\ Return("ConnectTimedOut")
       \/ failures = attempts /\ addresses > 0 /\ ~expired /\ Return("AllAttemptsFailed")
    /\ UNCHANGED <<probe, connection, runStage, pendingBytes, events, bytesRead,
                   exchange, expired>>
AttemptFails ==
    /\ Goto("Connect", "Connect")
    /\ ~expired /\ failures < attempts
    /\ failures' = failures + 1
    /\ UNCHANGED <<probe, addresses, run, exchange, expired>>
\* The deadline of the read phase starts when run_probe is called.
Connected ==
    /\ Goto("Connect", "Write")
    /\ ~expired /\ failures < attempts
    /\ UNCHANGED <<probe, connection, run, exchange, expired>>

\* run_probe cannot name the ends of the connection, or Probe::new refuses
\* the software version.
SetupFails ==
    /\ pc = "Write"
    /\ Return("Setup")
    /\ UNCHANGED <<probe, connection, runStage, pendingBytes, events, bytesRead,
                   exchange, expired>>

----------------------------------------------------------------------------
(* drive.                                                                  *)

\* The driver gives up, and says where the probe was.
GiveUp(why) ==
    /\ Return(why)
    /\ runStage' = stage
    /\ pendingBytes' = IF why = "TimedOut" THEN buffered ELSE 0
    /\ UNCHANGED <<probe, connection, events, bytesRead, exchange, expired>>

WriteIdentification ==
    Goto("Write", "Step") /\ UNCHANGED <<probe, connection, run, exchange, expired>>
\* The kernel may time a connection out by itself, before the deadline.
WriteFails == pc = "Write" /\ (GiveUp("TimedOut") \/ GiveUp("Io"))

StepEvent ==
    /\ Goto("Step", "Step")
    /\ PreludeLine \/ ServerIdentification \/ Skipped
    /\ events' = events + 1
    /\ UNCHANGED <<connection, runEnd, runStage, pendingBytes, bytesRead, exchange,
                   expired>>
StepFinished ==
    /\ pc = "Step"
    /\ \/ end # NoEnd /\ UNCHANGED probe
       \/ IdentificationError
       \/ LastPacket
       \/ ErrorPacket
    /\ Return("Probe")
    /\ UNCHANGED <<connection, runStage, pendingBytes, events, bytesRead, exchange,
                   expired>>
StepNeedMore ==
    /\ Goto("Step", "Read")
    /\ NeedMore
    /\ UNCHANGED <<probe, connection, run, exchange, expired>>

want == Larger(Smaller(ReadChunk, Room), 1)

Read ==
    /\ Goto("Read", "Step")
    /\ ~expired
    /\ \E n \in 1..Smaller(want, exchange.size - bytesRead) :
          Feed(n) /\ bytesRead' = bytesRead + n
    /\ UNCHANGED <<connection, runEnd, runStage, pendingBytes, events, exchange, expired>>
ReadEof ==
    /\ pc = "Read" /\ ~expired
    /\ InputEnded
    /\ Return("Probe")
    /\ UNCHANGED <<connection, runStage, pendingBytes, events, bytesRead, exchange,
                   expired>>
ReadInterrupted ==
    /\ Goto("Read", "Step") /\ ~expired
    /\ UNCHANGED <<probe, connection, run, exchange, expired>>
ReadFails == pc = "Read" /\ (GiveUp("TimedOut") \/ GiveUp("Io"))

\* A silent server is waited for.
FaultyReadTimesOut == FALSE /\ GiveUp("TimedOut")

\* The deadline passed before the read or during it.
ReadTimesOut == pc = "Read" /\ expired /\ GiveUp("TimedOut")

Expire == ~expired /\ expired' = TRUE /\ UNCHANGED <<probe, connection, pc, run, exchange>>
Returned == pc = "Returned" /\ UNCHANGED vars

Init ==
    /\ exchange \in Exchanges /\ addresses \in Addresses /\ failures = 0
    /\ line = 1 /\ packet = 1 /\ buffered = 0
    /\ stage = "Identification" /\ preludeLines = 0 /\ preludeBytes = 0
    /\ packets = 0 /\ bytes = 0 /\ end = NoEnd
    /\ pc = "Connect" /\ runEnd = "None" /\ runStage = "Identification"
    /\ pendingBytes = 0 /\ events = 0 /\ bytesRead = 0
    /\ expired = FALSE

Connect == ConnectGivesUp \/ AttemptFails \/ Connected
Drive == StepEvent \/ StepFinished \/ StepNeedMore \/ ReadTimesOut
Server == Read \/ ReadEof \/ ReadInterrupted \/ ReadFails
Next == Connect \/ SetupFails \/ WriteIdentification \/ WriteFails \/ Drive \/ Server
            \/ Expire \/ Returned

\* The driver is one thread, connecting and writing end by a timeout, and the
\* clock runs.  Nothing is asked of the server.
Spec == /\ Init /\ [][Next]_vars
        /\ WF_vars(Connect) /\ WF_vars(SetupFails \/ WriteIdentification \/ WriteFails)
        /\ WF_vars(Drive) /\ WF_vars(Expire)

----------------------------------------------------------------------------
\* Where the front of the buffer is in what the server sent.
PacketStart == IF packet <= Len(exchange.packets) THEN exchange.packets[packet].from
               ELSE exchange.size - exchange.linesLen
Position == IF line <= Len(exchange.lines) THEN exchange.lines[line].from
            ELSE exchange.linesLen + PacketStart

\* The capacity computed from the limits is enough: when the driver reads
\* there is room for what it asks, and a server cannot make the probe end
\* with InputOverflow, however its bytes are cut.
ReadsFit ==
    /\ buffered \in 0..Capacity
    /\ pc = "Read" => Room >= 1 /\ want <= Room
    /\ end.code # "InputOverflow"

\* Every byte read is accounted for: it was consumed with the lines and
\* packets reported, or it is in the buffer, and the pending bytes of a
\* timeout or an end of input and the bytes after KEXINIT are exact.
BytesAccounted ==
    /\ bytesRead = Position + buffered
    /\ end.code \in {"Eof", "KexInit"} => Position + end.bytes = bytesRead
    /\ runEnd = "TimedOut" => Position + pendingBytes = bytesRead

\* The budgets hold of the stream itself: what was reported before the
\* identification is within the prelude limits, and everything consumed
\* after it, KEXINIT included, within max_packets and max_bytes.
BudgetsHeld ==
    /\ LET preludes == {i \in 1..(line - 1) : exchange.lines[i].class = "Text"}
       IN \A i \in preludes :
             /\ i <= MaxPreludeLines
             /\ exchange.lines[i].len <= MaxPreludeLine
             /\ exchange.lines[i].from + exchange.lines[i].len <= MaxPreludeBytes
    /\ packet - 1 <= MaxPackets
    /\ packet > 1 => Position - exchange.linesLen <= MaxBytes

\* The packets reported: KEXINIT and DISCONNECT are gone past and end it.
Reported == packet - 1 - (IF end.code \in {"KexInit", "Disconnect"} THEN 1 ELSE 0)

\* The run returned tells what happened: one event for every line and packet
\* that was gone past but the last, the stage the probe had reached when the
\* driver gave up, and a connection error only after every attempt allowed.
RunAgrees ==
    pc = "Returned" =>
        /\ events = (line - 1) + Reported
        /\ runEnd \in {"TimedOut", "Io"} =>
              runStage = IF line > 1 /\ exchange.lines[line - 1].class # "Text"
                         THEN "InitialPackets" ELSE "Identification"
        /\ (runEnd = "Probe") = (end # NoEnd)
        /\ runEnd = "AllAttemptsFailed" =>
              failures >= 1 /\ failures = Smaller(addresses, Larger(MaxConnectAttempts, 1))

\* The probe keeps exact books on a stream it does not trust: every read has
\* room, every byte and every budget adds up against the stream itself, and
\* the run that is returned says so (probe.rs step, io.rs run_probe).
ProbeExact == ReadsFit /\ BytesAccounted /\ BudgetsHeld /\ RunAgrees

\* The longest the front line can get before it is refused.
LongestLine == IF frontLine.class = "Text"
               THEN Larger(MaxPreludeLine, frontLine.tell) ELSE MaxIdentificationLine

\* The probe is the one the reference model expects of the whole stream,
\* however it was cut into reads: the same prelude lines, the same events,
\* the same end, and never later than it could be told (the probe waits only
\* while less of the front line or packet has arrived than decides it).
AsExpected ==
    /\ AgreesWith(Expect(exchange, limits, FALSE, FALSE), exchange,
                  line - 1, Reported, end.code, bytesRead)
    /\ pc = "Read" =>
          bytesRead - Position < IF stage = "Identification"
                                 THEN Smaller(frontLine.len, LongestLine)
                                 ELSE PacketLen(frontPacket)

\* The run ends by its deadlines, whatever the server sends or withholds.
RunReturns == <>(pc = "Returned")
=============================================================================
