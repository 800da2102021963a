------------------------------ MODULE Observer ------------------------------
(***************************************************************************)
(* The server observer of tatami_ssh_tcp (observer.rs) and the driver that *)
(* runs it on one accepted connection (drive and observe_connection of     *)
(* io/listener.rs): send the banner, then step until NeedMore, look at the *)
(* stop flag and the deadline, and read.  The socket cuts what the client  *)
(* sends anywhere, and the client may close, fail or fall silent anywhere. *)
(***************************************************************************)
EXTENDS StreamModel

CONSTANTS
    MaxIdentificationLine,  \* ObserverConfig::max_identification_line
    UnexpectedSample        \* ObserverConfig::unexpected_sample

\* An identification limit that the prefix alone would exceed is left out.
ASSUME ObserverAssumption ==
    /\ MaxIdentificationLine \in Nat /\ MaxIdentificationLine >= PREFIX_LEN
    /\ UnexpectedSample \in Nat

VARIABLES
    exchange,            \* what this client has to send
    bannerOnly,          \* ObserverConfig::banner_only
    line, packet,        \* the line and the packet at the front of the buffer
    buffered,            \* buf.len()
    stage, packets, bytes, end,
    pc, bytesRead, clientIdentification, messages, proposal, obsStage, runEnd,
    expired, stop        \* the deadline has passed; the stop flag

observer == <<line, packet, buffered, stage, packets, bytes, end>>
obs == <<bytesRead, clientIdentification, messages, proposal, obsStage, runEnd>>
environment == <<exchange, bannerOnly, expired, stop>>
vars == <<observer, pc, obs, environment>>

Stage == {"ClientIdentification", "InitialPackets", "Finished"}
RunEnd == {"None", "Observer", "TimedOut", "Shutdown", "Io"}

\* Room for one packet and nothing else.
FaultyCapacity == Larger(MaxPacketLength, MaxIdentificationLine)

\* buffer_capacity
Capacity == Larger(MaxPacketLength + HEADER_LEN, MaxIdentificationLine)
                + MaxIdentificationLine
Room == Capacity - buffered

limits == [maxPreludeLines |-> 0, maxPreludeBytes |-> 0,
           maxPreludeLine |-> MaxIdentificationLine,
           maxIdentificationLine |-> MaxIdentificationLine]

frontLine == At(exchange.lines, line, NoLine)
frontPacket == At(exchange.packets, packet, NoPacket)

----------------------------------------------------------------------------
(* Observer.                                                               *)

Finish(outcome) == stage' = "Finished" /\ end' = outcome

NeedsIdentification == stage = "ClientIdentification" /\ end = NoEnd
NeedsPackets == stage = "InitialPackets" /\ end = NoEnd
IdentStep == IdentFeed(limits, 0, 0, frontLine, buffered)
Unexpected == StartsIdentification(frontLine, buffered) = "No"
PacketStep == PacketsStep(packets, bytes, frontPacket, buffered)

NeedMore ==
    \/ NeedsIdentification /\ ~Unexpected /\ IdentStep = "NeedMore"
    \/ NeedsPackets /\ PacketStep = "NeedMore"

\* Input that does not start with SSH- ends the observation at once.
UnexpectedInput ==
    /\ NeedsIdentification /\ Unexpected
    /\ Finish([Ended("UnexpectedInput") EXCEPT
                   !.bytes = Smaller(buffered, UnexpectedSample),
                   !.truncated = buffered > UnexpectedSample])
    /\ buffered' = 0
    /\ UNCHANGED <<line, packet, packets, bytes>>

ClientIdentification ==
    /\ NeedsIdentification /\ ~Unexpected /\ IdentStep = "Identification"
    /\ line' = line + 1
    /\ buffered' = buffered - frontLine.len
    /\ IF bannerOnly
       THEN Finish(Ended("BannerOnly"))
       ELSE stage' = "InitialPackets" /\ UNCHANGED end
    /\ UNCHANGED <<packet, packets, bytes>>

IdentificationError ==
    /\ NeedsIdentification /\ ~Unexpected /\ IdentStep \in IdentError
    /\ Finish(Ended(IdentStep))
    /\ UNCHANGED <<line, packet, buffered, packets, bytes>>

Count == /\ packets' = packets + 1
         /\ bytes' = bytes + PacketLen(frontPacket)
Consume == /\ packet' = packet + 1
           /\ buffered' = buffered - PacketLen(frontPacket)

Skipped ==
    /\ NeedsPackets /\ PacketStep = "Skipped"
    /\ Count /\ Consume
    /\ UNCHANGED <<line, stage, end>>

\* KEXINIT and DISCONNECT are consumed and end the observation.
LastPacket ==
    /\ NeedsPackets /\ PacketStep \in {"KexInit", "Disconnect"}
    /\ Count /\ Consume
    /\ Finish([Ended(PacketStep) EXCEPT
                   !.bytes = IF PacketStep = "KexInit" THEN buffered' ELSE 0])
    /\ UNCHANGED line

ErrorPacket ==
    /\ NeedsPackets /\ PacketStep \in PacketError
    /\ IF Counted(PacketStep) THEN Count ELSE UNCHANGED <<packets, bytes>>
    /\ Finish(Ended(PacketStep))
    /\ UNCHANGED <<line, packet, buffered>>

\* feed: what does not fit is refused before anything is copied.
Feed(n) ==
    /\ IF n > Room
       THEN Finish(Ended("InputOverflow")) /\ UNCHANGED buffered
       ELSE buffered' = buffered + n /\ UNCHANGED <<stage, end>>
    /\ UNCHANGED <<line, packet, packets, bytes>>

InputEnded ==
    /\ Finish([Ended("Eof") EXCEPT !.stage = stage, !.bytes = buffered])
    /\ UNCHANGED <<line, packet, buffered, packets, bytes>>

----------------------------------------------------------------------------
(* drive.                                                                  *)

Goto(from, to) == pc = from /\ pc' = to
Return(why) == pc' = "Returned" /\ runEnd' = why

WriteBanner == Goto("Write", "Step") /\ UNCHANGED <<observer, obs, environment>>
\* write_all_by reports a deadline as TimedOut, anything else as it is; the
\* kernel may time a connection out by itself.
WriteFails ==
    /\ pc = "Write"
    /\ Return("TimedOut") \/ Return("Io")
    /\ UNCHANGED <<observer, bytesRead, clientIdentification, messages, proposal,
                   obsStage, environment>>

StepIdentification ==
    /\ Goto("Step", "Step")
    /\ ClientIdentification
    /\ clientIdentification' = TRUE
    /\ UNCHANGED <<bytesRead, messages, proposal, obsStage, runEnd, environment>>
StepSkipped ==
    /\ Goto("Step", "Step")
    /\ Skipped
    /\ messages' = messages + 1
    /\ UNCHANGED <<bytesRead, clientIdentification, proposal, obsStage, runEnd,
                   environment>>

StepFinished ==
    /\ pc = "Step"
    /\ \/ end # NoEnd /\ UNCHANGED observer
       \/ UnexpectedInput
       \/ IdentificationError
       \/ LastPacket
       \/ ErrorPacket
    /\ Return("Observer")
    /\ proposal' = (end'.code = "KexInit")
    /\ obsStage' = "Finished"
    /\ UNCHANGED <<bytesRead, clientIdentification, messages, environment>>

\* The stage of the record is left as it was.
FaultyStepNeedMore ==
    /\ Goto("Step", "Poll")
    /\ NeedMore
    /\ UNCHANGED <<observer, obs, environment>>

StepNeedMore ==
    /\ Goto("Step", "Poll")
    /\ NeedMore
    /\ obsStage' = stage
    /\ UNCHANGED <<observer, bytesRead, clientIdentification, messages, proposal,
                   runEnd, environment>>

\* A deadline is checked only against a read that timed out.
FaultyPoll ==
    /\ pc = "Poll"
    /\ \/ stop /\ Return("Shutdown")
       \/ ~stop /\ pc' = "Read" /\ UNCHANGED runEnd
    /\ UNCHANGED <<observer, bytesRead, clientIdentification, messages, proposal,
                   obsStage, environment>>

Poll ==
    /\ pc = "Poll"
    /\ \/ stop /\ Return("Shutdown")
       \/ ~stop /\ expired /\ Return("TimedOut")
       \/ ~stop /\ ~expired /\ pc' = "Read" /\ UNCHANGED runEnd
    /\ UNCHANGED <<observer, bytesRead, clientIdentification, messages, proposal,
                   obsStage, environment>>

want == Larger(Smaller(ReadChunk, Room), 1)

Read ==
    /\ Goto("Read", "Step")
    /\ \E n \in 1..Smaller(want, exchange.size - bytesRead) :
          Feed(n) /\ bytesRead' = bytesRead + n
    /\ UNCHANGED <<clientIdentification, messages, proposal, obsStage, runEnd,
                   environment>>
ReadEof ==
    /\ pc = "Read"
    /\ InputEnded
    /\ Return("Observer")
    /\ obsStage' = "Finished"
    /\ UNCHANGED <<bytesRead, clientIdentification, messages, proposal, environment>>
\* The poll slice ended, or the read was interrupted.
ReadNothing == Goto("Read", "Step") /\ UNCHANGED <<observer, obs, environment>>
\* set_read_timeout or read failed.
ReadFails ==
    /\ pc = "Read"
    /\ Return("Io")
    /\ UNCHANGED <<observer, bytesRead, clientIdentification, messages, proposal,
                   obsStage, environment>>

Expire == ~expired /\ expired' = TRUE
          /\ UNCHANGED <<observer, pc, obs, exchange, bannerOnly, stop>>
RequestStop == ~stop /\ stop' = TRUE
               /\ UNCHANGED <<observer, pc, obs, exchange, bannerOnly, expired>>
Returned == pc = "Returned" /\ UNCHANGED vars

Init ==
    /\ exchange \in Exchanges /\ bannerOnly \in BOOLEAN
    /\ line = 1 /\ packet = 1 /\ buffered = 0
    /\ stage = "ClientIdentification" /\ packets = 0 /\ bytes = 0 /\ end = NoEnd
    /\ pc = "Write" /\ bytesRead = 0 /\ clientIdentification = FALSE /\ messages = 0
    /\ proposal = FALSE /\ obsStage = "ClientIdentification" /\ runEnd = "None"
    /\ expired = FALSE /\ stop = FALSE

Step == StepIdentification \/ StepSkipped \/ StepFinished \/ StepNeedMore
Drive == Step \/ Poll \/ ReadNothing
Client == WriteBanner \/ WriteFails \/ Read \/ ReadEof \/ ReadFails
Next == Drive \/ Client \/ Expire \/ RequestStop \/ Returned

\* The driver is one thread, its reads and its write end by a timeout, and
\* the clock runs.  Nothing is asked of the client.
Spec == /\ Init /\ [][Next]_vars
        /\ WF_vars(Drive) /\ WF_vars(WriteBanner \/ WriteFails) /\ WF_vars(Expire)

----------------------------------------------------------------------------
TypeOK ==
    /\ WellFormed(exchange) /\ bannerOnly \in BOOLEAN
    /\ line \in 1..(Len(exchange.lines) + 1)
    /\ packet \in 1..(Len(exchange.packets) + 1)
    /\ buffered \in 0..Capacity
    /\ stage \in Stage /\ packets \in Nat /\ bytes \in Nat
    /\ end \in [code : Code \union {"None"}, stage : Stage \union {"None"},
                bytes : Nat, truncated : BOOLEAN]
    /\ pc \in {"Write", "Step", "Poll", "Read", "Returned"}
    /\ bytesRead \in 0..exchange.size
    /\ clientIdentification \in BOOLEAN /\ messages \in Nat /\ proposal \in BOOLEAN
    /\ obsStage \in Stage /\ runEnd \in RunEnd
    /\ expired \in BOOLEAN /\ stop \in BOOLEAN

\* Where the front of the buffer is in what the client sent.
PacketStart == IF packet <= Len(exchange.packets) THEN exchange.packets[packet].from
               ELSE exchange.size - exchange.linesLen
Position == IF line = 1 THEN 0 ELSE exchange.linesLen + PacketStart

\* The capacity computed from the limits is enough: when the driver reads
\* there is room for what it asks, and a client cannot make the observer
\* end with InputOverflow, however its bytes are cut.
ReadsFit ==
    /\ pc = "Read" => Room >= 1 /\ want <= Room
    /\ end.code # "InputOverflow"

\* Every byte read is accounted for: it was consumed with the lines and
\* packets reported, or it is in the buffer, and what the outcome says of
\* unconsumed input (pending at the end of input, unexamined after KEXINIT,
\* the sample of unexpected input) is exact.
BytesAccounted ==
    /\ end.code # "UnexpectedInput" => bytesRead = Position + buffered
    /\ end.code \in {"Eof", "KexInit"} => Position + end.bytes = bytesRead
    /\ end.code = "UnexpectedInput" =>
          /\ end.bytes <= UnexpectedSample
          /\ IF end.truncated THEN end.bytes < bytesRead ELSE end.bytes = bytesRead

\* The budgets hold of the stream itself: everything consumed up to the end,
\* KEXINIT included, is within max_packets and max_bytes.
BudgetsHeld ==
    /\ packet - 1 <= MaxPackets
    /\ line = 2 => Position - exchange.linesLen <= MaxBytes

\* Input is bounded and accounted for: every read has room, every byte read
\* is consumed, buffered or reported, and the budgets hold of the stream.
InputBounded == ReadsFit /\ BytesAccounted /\ BudgetsHeld

\* The packets reported: KEXINIT and DISCONNECT are gone past and end it.
Reported == packet - 1 - (IF end.code \in {"KexInit", "Disconnect"} THEN 1 ELSE 0)

\* The record returned agrees with the observer: what was reported is what
\* the observer went past, the stage is the observer's when the driver gave
\* up, and there is a proposal exactly when the observer ended with one.
RecordAgrees ==
    pc = "Returned" =>
        /\ obsStage = stage
        /\ clientIdentification = (line = 2)
        /\ messages = Reported
        /\ proposal = (end.code = "KexInit")
        /\ (runEnd = "Observer") = (end # NoEnd)
        /\ end.code = "Eof" =>
              end.stage = IF line = 1 THEN "ClientIdentification" ELSE "InitialPackets"

\* The observation is the one the reference model expects of the whole
\* stream, however it was cut into reads: the same events, the same end, and
\* never later than it could be told (the observer waits only while less of
\* the front line or packet has arrived than decides it).
AsExpected ==
    /\ AgreesWith(Expect(exchange, limits, bannerOnly, TRUE), exchange,
                  line - 1, Reported, end.code, bytesRead)
    /\ pc \in {"Poll", "Read"} =>
          bytesRead - Position < IF stage = "ClientIdentification"
                                 THEN Smaller(frontLine.len, MaxIdentificationLine)
                                 ELSE PacketLen(frontPacket)

\* Every connection is given up by its deadline, whatever the client sends
\* or withholds.
DriveReturns == <>(pc = "Returned")
=============================================================================
