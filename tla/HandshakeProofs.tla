-------------------------- MODULE HandshakeProofs --------------------------
(***************************************************************************)
(* Proofs about Handshake, for every server, every order of host calls and *)
(* every value of the limits: the trust gate and the secrets (IndInv), and *)
(* on top of it the sequence numbers, the script of the output with the    *)
(* meaning of the outcomes, and the strict transcript (RunInv).  Then, of  *)
(* the driven handshake (HandshakeRun), that it implements the model it is *)
(* fuzzed against (HandshakeModel), step by step.  Last, of protected      *)
(* packets (Gcm), for every stream, and of negotiation (Negotiation), for  *)
(* every server's proposal.                                                *)
(***************************************************************************)
EXTENDS HandshakeRun, Gcm, Negotiation, WellFoundedInduction, SequenceTheorems, TLAPS

Late == {"NEWKEYS", "SERVICE_REQUEST", "DISCONNECT"}

\* What each phase knows about the gate.  newkeysSent is what the output
\* messages of the gate hang on; it is set in one place, which leaves the
\* only phase where signatureValid is known and trust is not yet.
GateInv ==
    /\ newkeysSent => signatureValid = "true" /\ trust = "Trusted"
    /\ phase \in {"ServerIdentification", "ServerKexInit", "EcdhReply", "TrustDecision"}
          => ~newkeysSent
    /\ phase = "TrustDecision" => signatureValid = "true"
    /\ phase \in {"ServerNewKeys", "Service"} => newkeysSent
    /\ \A msg \in Late : Queued(msg) => newkeysSent

IndInv == TypeOK /\ SecretsWhenNeeded /\ GateInv

----------------------------------------------------------------------------
LEMMA InitType == Init => TypeOK
<1> SUFFICES ASSUME Init PROVE TypeOK
  OBVIOUS
<1>1. inbox \in Seq(Input) /\ Len(inbox) <= BufferCapacity
  BY HandshakeConfig DEF Init
<1>2. out \in Seq(Sendable) /\ sent \in Seq(Sendable)
  BY DEF Init, Sendable
<1>3. received \in Seq({m.kind : m \in Input})
  BY DEF Init
<1>4. /\ preKexPackets \in 0..MaxPreKexPackets
      /\ sendSeq \in 0..(SequenceMod - 1) /\ recvSeq \in 0..(SequenceMod - 1)
      /\ protectedSent \in Nat /\ protectedReceived \in 0..MaxProtectedPackets
  BY HandshakeConfig DEF Init
<1>5. phase \in Phase /\ outcome \in Outcome \cup {"None"}
  BY DEF Init, Phase
<1>6. /\ pendingOutcome \in {"None", "Completed", "RekeyNotSupported"}
      /\ signatureValid \in {"None", "true", "false"}
      /\ trust \in {"None", "Trusted", "Untrusted"}
  BY DEF Init
<1>7. /\ strict \in BOOLEAN /\ guessWrong \in BOOLEAN /\ guessDiscarded \in BOOLEAN
      /\ ephemeral \in BOOLEAN /\ keys \in BOOLEAN
      /\ newkeysSent \in BOOLEAN /\ newkeysReceived \in BOOLEAN
  BY DEF Init
<1>8. QED
  BY <1>1, <1>2, <1>3, <1>4, <1>5, <1>6, <1>7 DEF TypeOK

LEMMA InitGate == Init => SecretsWhenNeeded /\ GateInv
  BY DEF Init, SecretsWhenNeeded, GateInv, Late, Queued

\* A step that only finishes the handshake.
LEMMA FinishType ==
    ASSUME TypeOK, NEW o \in Outcome, Finish(o)
    PROVE  /\ phase' \in Phase /\ outcome' \in Outcome \cup {"None"}
           /\ pendingOutcome' \in {"None", "Completed", "RekeyNotSupported"}
           /\ ephemeral' \in BOOLEAN /\ keys' \in BOOLEAN
  BY DEF Finish, Phase

LEMMA FinishGate ==
    ASSUME TypeOK, SecretsWhenNeeded, GateInv, NEW o \in Outcome, Finish(o),
           UNCHANGED <<out, sent, newkeysSent, newkeysReceived>>,
           newkeysSent => UNCHANGED <<signatureValid, trust>>
    PROVE  SecretsWhenNeeded' /\ GateInv'
<1>1. o # "None"
  BY DEF Outcome
<1>2. SecretsWhenNeeded'
  BY <1>1 DEF Finish, SecretsWhenNeeded
<1>3. GateInv'
  BY DEF Finish, GateInv, Late, Queued
<1>4. QED
  BY <1>2, <1>3

LEMMA BumpedType ==
    ASSUME NEW seq \in 0..(SequenceMod - 1)
    PROVE  Bumped(seq) \in 0..(SequenceMod - 1)
  BY HandshakeConfig DEF Bumped

LEMMA FailureType ==
    ASSUME NEW m \in Input
    PROVE  /\ UnprotectedFailure(m) \in Outcome \cup {"None"}
           /\ ProtectedFailure(m) \in Outcome \cup {"None"}
<1>1. \A o \in Outcome \cup {"None"} : /\ Unless(m, o) \in Outcome \cup {"None"}
                                       /\ StrictIf(o) \in Outcome \cup {"None"}
  BY DEF Unless, StrictIf, Outcome
<1>2. KexInitFailure(m) \in Outcome \cup {"None"}
  BY <1>1 DEF KexInitFailure, Outcome
<1>3. KexMessageFailure(m) \in Outcome \cup {"None"}
  BY <1>1 DEF KexMessageFailure, Outcome
<1>4. ProtectedFailure(m) \in Outcome \cup {"None"}
  BY <1>1 DEF ProtectedFailure, Outcome
<1>5. QED
  BY <1>2, <1>3, <1>4 DEF UnprotectedFailure

\* The unit of input at the head of the buffer, consumed.
LEMMA ConsumeType ==
    ASSUME TypeOK, inbox # <<>>, inbox' = Tail(inbox)
    PROVE  inbox' \in Seq(Input) /\ Len(inbox') <= BufferCapacity
  BY HandshakeConfig DEF TypeOK

LEMMA UnprotectedType ==
    ASSUME TypeOK, NEW m \in Input, Consume(m)
    PROVE  /\ inbox' \in Seq(Input) /\ Len(inbox') <= BufferCapacity
           /\ received' \in Seq({x.kind : x \in Input})
           /\ preKexPackets' \in 0..MaxPreKexPackets
           /\ protectedReceived' \in 0..MaxProtectedPackets
<1>1. inbox' \in Seq(Input) /\ Len(inbox') <= BufferCapacity
  BY ConsumeType DEF Consume, Stepping
<1>2. received' \in Seq({x.kind : x \in Input})
  BY DEF Consume, TypeOK
<1>3. QED
  BY <1>1, <1>2, HandshakeConfig DEF Consume, TypeOK

LEMMA ProtectedType ==
    ASSUME TypeOK, NEW m \in Input, Protected(m)
    PROVE  /\ inbox' \in Seq(Input) /\ Len(inbox') <= BufferCapacity
           /\ received' \in Seq({x.kind : x \in Input})
           /\ preKexPackets' \in 0..MaxPreKexPackets
           /\ protectedReceived' \in 0..MaxProtectedPackets
           /\ recvSeq' \in 0..(SequenceMod - 1)
           /\ UNCHANGED kexVars
<1>1. inbox' \in Seq(Input) /\ Len(inbox') <= BufferCapacity
  BY ConsumeType DEF Protected, Stepping
<1>2. received' \in Seq({x.kind : x \in Input})
  BY DEF Protected, TypeOK
<1>3. recvSeq' \in 0..(SequenceMod - 1)
  BY BumpedType DEF Protected, TypeOK
<1>4. QED
  BY <1>1, <1>2, <1>3, HandshakeConfig DEF Protected, TypeOK

LEMMA TypeNext == TypeOK /\ [Next]_vars => TypeOK'
<1> SUFFICES ASSUME TypeOK, [Next]_vars PROVE TypeOK'
  OBVIOUS
<1> USE HandshakeConfig
<1>1. ASSUME NEW m \in Input, Feed(m) PROVE TypeOK'
  BY <1>1 DEF Feed, TypeOK, kexVars, secrets, sending
<1>2. CASE FeedOverflow
  BY <1>2 DEF FeedOverflow, TypeOK, Finish, kexVars, sending, receiving, Phase, Outcome
<1>3. CASE TakeOutput
  BY <1>3 DEF TakeOutput, TypeOK, kexVars, secrets, sending, receiving, Sendable
<1>4. CASE InputEnded
  BY <1>4 DEF InputEnded, TypeOK, Finish, kexVars, sending, receiving, Phase, Outcome
<1>5. CASE ProvideUntrusted
  BY <1>5 DEF ProvideUntrusted, TypeOK, Finish, sending, receiving, Phase, Outcome
<1>6. CASE ProvideTrusted
  BY <1>6, BumpedType DEF ProvideTrusted, TypeOK, secrets, receiving, Phase, Sendable
<1>7. CASE AdoptPending
  BY <1>7 DEF AdoptPending, TypeOK, Finish, kexVars, sending, receiving, Phase, Outcome
<1>8. CASE PreludeLine
  BY <1>8, ConsumeType DEF PreludeLine, TypeOK, Stepping, kexVars, secrets, sending
<1>9. CASE ServerIdentification
  BY <1>9, ConsumeType DEF ServerIdentification, TypeOK, Stepping, kexVars, secrets,
     sending, Phase
<1>10. CASE IdentificationError
  BY <1>10 DEF IdentificationError, TypeOK, Reject, Stepping, kexVars, Finish, sending,
     Phase, Outcome
<1>11. CASE FramingError
  BY <1>11 DEF FramingError, TypeOK, Reject, Stepping, kexVars, Finish, sending, Phase,
     Outcome
<1>12. CASE PreKexLimit
  BY <1>12 DEF PreKexLimit, TypeOK, Reject, Stepping, kexVars, Finish, sending, Phase,
     Outcome
<1>13. ASSUME NEW m \in Input, SequenceWrapped(m) PROVE TypeOK'
  <2>1. Consume(m) /\ Finish("StrictKexViolation")
    BY <1>13 DEF SequenceWrapped, Reject
  <2>2. QED
    BY <1>13, <2>1, UnprotectedType DEF SequenceWrapped, Reject, Finish, TypeOK, Phase,
       Outcome, kexVars, sending
<1>14. ASSUME NEW m \in Input, RejectUnprotected(m) PROVE TypeOK'
  <2>1. Consume(m) /\ Finish(UnprotectedFailure(m))
    BY <1>14 DEF RejectUnprotected, Unprotected, Reject
  <2>2. UnprotectedFailure(m) \in Outcome
    BY <1>14, FailureType DEF RejectUnprotected
  <2>3. recvSeq' \in 0..(SequenceMod - 1)
    BY <1>14, BumpedType DEF RejectUnprotected, TypeOK
  <2>4. strict' \in BOOLEAN /\ guessWrong' \in BOOLEAN
    BY <1>14 DEF RejectUnprotected, RecordMarkers, TypeOK
  <2>5. signatureValid' \in {"None", "true", "false"}
    BY <1>14 DEF RejectUnprotected, TypeOK
  <2>6. QED
    BY <1>14, <2>1, <2>2, <2>3, <2>4, <2>5, UnprotectedType
       DEF RejectUnprotected, Reject, Finish, TypeOK, Phase, sending
<1>15. ASSUME NEW m \in Input, SkipUnprotected(m) PROVE TypeOK'
  BY <1>15, BumpedType, ConsumeType, SMTT(20) DEF SkipUnprotected, TypeOK, Unprotected, kexVars,
     secrets, sending, Consume, Stepping
<1>16. ASSUME NEW m \in Input, OnServerKexInit(m) PROVE TypeOK'
  <2>1. Consume(m)
    BY <1>16 DEF OnServerKexInit, Unprotected
  <2>2. out' \in Seq(Sendable)
    BY <1>16 DEF OnServerKexInit, TypeOK, Sendable
  <2>3. recvSeq' \in 0..(SequenceMod - 1) /\ sendSeq' \in 0..(SequenceMod - 1)
    BY <1>16, BumpedType DEF OnServerKexInit, TypeOK
  <2>4. strict' \in BOOLEAN /\ guessWrong' \in BOOLEAN
    BY <1>16 DEF OnServerKexInit, MarksStrict, MarksWrongGuess
  <2>5. QED
    BY <1>16, <2>1, <2>2, <2>3, <2>4, UnprotectedType
       DEF OnServerKexInit, TypeOK, Phase, secrets
<1>17. ASSUME NEW m \in Input, DiscardGuess(m) PROVE TypeOK'
  BY <1>17, BumpedType, ConsumeType, SMTT(20) DEF DiscardGuess, TypeOK, Unprotected, secrets,
     sending, Consume, Stepping
<1>18. ASSUME NEW m \in Input, OnEcdhReply(m) PROVE TypeOK'
  <2>1. Consume(m)
    BY <1>18 DEF OnEcdhReply, Unprotected
  <2>2. recvSeq' \in 0..(SequenceMod - 1)
    BY <1>18, BumpedType DEF OnEcdhReply, TypeOK
  <2>3. QED
    BY <1>18, <2>1, <2>2, UnprotectedType DEF OnEcdhReply, TypeOK, Phase, sending
<1>19. ASSUME NEW m \in Input, OnServerNewKeys(m) PROVE TypeOK'
  <2>1. Consume(m)
    BY <1>19 DEF OnServerNewKeys, Unprotected
  <2>2. out' \in Seq(Sendable)
    BY <1>19 DEF OnServerNewKeys, TypeOK, Sendable
  <2>3. recvSeq' \in 0..(SequenceMod - 1) /\ sendSeq' \in 0..(SequenceMod - 1)
    <3>1. Bumped(recvSeq) \in 0..(SequenceMod - 1) /\ Bumped(sendSeq) \in 0..(SequenceMod - 1)
      BY BumpedType DEF TypeOK
    <3>2. QED
      BY <1>19, <3>1 DEF OnServerNewKeys
  <2>4. QED
    <3>1. /\ inbox' \in Seq(Input) /\ Len(inbox') <= BufferCapacity
          /\ received' \in Seq({x.kind : x \in Input})
          /\ preKexPackets' \in 0..MaxPreKexPackets
          /\ protectedReceived' \in 0..MaxProtectedPackets
      BY <2>1, UnprotectedType
    <3>2. /\ phase' \in Phase /\ protectedSent' \in Nat
          /\ UNCHANGED <<pendingOutcome, outcome, kexVars, ephemeral, newkeysSent, sent>>
      BY <1>19 DEF OnServerNewKeys, Phase, TypeOK, kexVars
    <3>3. keys' \in BOOLEAN /\ newkeysReceived' \in BOOLEAN
      BY <1>19 DEF OnServerNewKeys
    <3>4. QED
      BY <2>2, <2>3, <3>1, <3>2, <3>3 DEF TypeOK, kexVars
<1>20. CASE TagMismatch
  BY <1>20, ZenonT(40)
     DEF TagMismatch, TypeOK, Reject, Stepping, kexVars, Finish, sending, Phase,
         Outcome
<1>21. CASE ProtectedLimit
  BY <1>21, ConsumeType DEF ProtectedLimit, TypeOK, Reject, Stepping, kexVars, Finish,
     sending, Phase, Outcome
<1>22. ASSUME NEW m \in Input, RejectProtected(m) PROVE TypeOK'
  <2>1. Protected(m) /\ Finish(ProtectedFailure(m))
    BY <1>22 DEF RejectProtected, Reject
  <2>2. ProtectedFailure(m) \in Outcome
    BY <1>22, FailureType DEF RejectProtected
  <2>3. QED
    BY <1>22, <2>1, <2>2, ProtectedType
       DEF RejectProtected, Reject, Finish, TypeOK, Phase, sending, kexVars
<1>23. ASSUME NEW m \in Input, SkipProtected(m) PROVE TypeOK'
  <2>1. Protected(m)
    BY <1>23 DEF SkipProtected
  <2>2. QED
    BY <1>23, <2>1, ProtectedType DEF SkipProtected, TypeOK, secrets, sending, kexVars
<1>24. ASSUME NEW m \in Input, OnServiceAccept(m) PROVE TypeOK'
  <2>1. Protected(m) /\ SendDisconnect
    BY <1>24 DEF OnServiceAccept
  <2>2. /\ out' \in Seq(Sendable)
        /\ protectedSent' \in Nat /\ newkeysSent' \in BOOLEAN
    BY <2>1 DEF SendDisconnect, TypeOK, Sendable
  <2>3. sendSeq' \in 0..(SequenceMod - 1)
    BY <2>1, BumpedType DEF SendDisconnect, TypeOK
  <2>4. QED
    BY <1>24, <2>1, <2>2, <2>3, ProtectedType, ZenonT(40)
       DEF OnServiceAccept, TypeOK, secrets, kexVars
<1>25. ASSUME NEW m \in Input, OnRekey(m) PROVE TypeOK'
  <2>1. Protected(m) /\ SendDisconnect
    BY <1>25 DEF OnRekey
  <2>2. /\ out' \in Seq(Sendable)
        /\ protectedSent' \in Nat /\ newkeysSent' \in BOOLEAN
    BY <2>1 DEF SendDisconnect, TypeOK, Sendable
  <2>3. sendSeq' \in 0..(SequenceMod - 1)
    BY <2>1, BumpedType DEF SendDisconnect, TypeOK
  <2>4. QED
    BY <1>25, <2>1, <2>2, <2>3, ProtectedType, SMTT(20)
       DEF OnRekey, TypeOK, secrets, kexVars
<1>26. CASE UNCHANGED vars
  BY <1>26 DEF TypeOK, vars
<1>27. QED
  BY <1>1, <1>2, <1>3, <1>4, <1>5, <1>6, <1>7, <1>8, <1>9, <1>10, <1>11, <1>12, <1>13, <1>14,
     <1>15, <1>16, <1>17, <1>18, <1>19, <1>20, <1>21, <1>22, <1>23, <1>24, <1>25, <1>26
     DEF Next, Step, HostCall, KexStep, ServiceStep

\* Only the reply that is being waited for can be found badly signed.
LEMMA SignatureInvalidPhase ==
    ASSUME TypeOK, NEW m \in Input, UnprotectedFailure(m) = "SignatureInvalid"
    PROVE  phase \in {"ServerKexInit", "EcdhReply"}
<1>1. Unless(m, "None") # "SignatureInvalid" /\ StrictIf("UnexpectedMessage") # "SignatureInvalid"
      /\ StrictIf(Unless(m, "None")) # "SignatureInvalid"
      /\ Unless(m, StrictIf("ServerDisconnected")) # "SignatureInvalid"
  BY DEF Unless, StrictIf
<1>2. CASE phase = "ServerKexInit"
  BY <1>2
<1>3. CASE phase # "ServerKexInit"
  <2>1. KexMessageFailure(m) = "SignatureInvalid"
    BY <1>3 DEF UnprotectedFailure
  <2>2. phase = "EcdhReply"
    BY <1>1, <2>1 DEF KexMessageFailure
  <2>3. QED
    BY <2>2
<1>4. QED
  BY <1>2, <1>3

\* A step that leaves alone what the gate is about.
LEMMA FrameGate ==
    ASSUME SecretsWhenNeeded, GateInv,
           UNCHANGED <<phase, outcome, ephemeral, keys, newkeysSent, newkeysReceived,
                       signatureValid, trust, sent, out>>
    PROVE  SecretsWhenNeeded' /\ GateInv'
  BY DEF SecretsWhenNeeded, GateInv, Queued

\* Queueing a message of the gate once it is open.
LEMMA SendGate ==
    ASSUME TypeOK, GateInv, newkeysSent, newkeysSent',
           UNCHANGED <<signatureValid, trust>>,
           phase' \notin {"ServerIdentification", "ServerKexInit", "EcdhReply", "TrustDecision"}
    PROVE  GateInv'
  BY DEF GateInv

LEMMA GateNext ==
    TypeOK /\ SecretsWhenNeeded /\ GateInv /\ [Next]_vars => SecretsWhenNeeded' /\ GateInv'
<1> SUFFICES ASSUME TypeOK, SecretsWhenNeeded, GateInv, [Next]_vars
             PROVE  SecretsWhenNeeded' /\ GateInv'
  OBVIOUS
<1>1. ASSUME NEW m \in Input, Feed(m) PROVE SecretsWhenNeeded' /\ GateInv'
  BY <1>1, FrameGate DEF Feed, kexVars, secrets, sending
<1>2. CASE FeedOverflow
  BY <1>2, FinishGate DEF FeedOverflow, kexVars, sending, receiving, Outcome
<1>3. CASE TakeOutput
  <2>1. SecretsWhenNeeded'
    BY <1>3 DEF TakeOutput, SecretsWhenNeeded, kexVars, secrets, sending, receiving
  <2>2. \A msg : Queued(msg)' => Queued(msg)
    BY <1>3 DEF TakeOutput, Queued, TypeOK
  <2>3. GateInv'
    BY <1>3, <2>2 DEF TakeOutput, GateInv, kexVars, secrets, sending, receiving
  <2>4. QED
    BY <2>1, <2>3
<1>4. CASE InputEnded
  BY <1>4, FinishGate DEF InputEnded, kexVars, sending, receiving, Outcome
<1>5. CASE ProvideUntrusted
  <2>1. ~newkeysSent
    BY <1>5 DEF ProvideUntrusted, GateInv
  <2>2. QED
    BY <1>5, <2>1, FinishGate DEF ProvideUntrusted, sending, receiving, Outcome
<1>6. CASE ProvideTrusted
  BY <1>6 DEF ProvideTrusted, SecretsWhenNeeded, GateInv, secrets, receiving
<1>7. CASE AdoptPending
  BY <1>7, FinishGate DEF AdoptPending, TypeOK, kexVars, sending, receiving, Outcome
<1>8. CASE PreludeLine
  BY <1>8, FrameGate DEF PreludeLine, kexVars, secrets, sending
<1>9. CASE ServerIdentification
  BY <1>9 DEF ServerIdentification, Stepping, SecretsWhenNeeded, GateInv, Queued, kexVars,
     secrets, sending
<1>10. CASE IdentificationError
  BY <1>10, FinishGate DEF IdentificationError, Reject, kexVars, sending, Outcome
<1>11. CASE FramingError
  BY <1>11, FinishGate DEF FramingError, Reject, kexVars, sending, Outcome
<1>12. CASE PreKexLimit
  BY <1>12, FinishGate DEF PreKexLimit, Reject, kexVars, sending, Outcome
<1>13. ASSUME NEW m \in Input, SequenceWrapped(m) PROVE SecretsWhenNeeded' /\ GateInv'
  BY <1>13, FinishGate DEF SequenceWrapped, Reject, kexVars, sending, Outcome
<1>14. ASSUME NEW m \in Input, RejectUnprotected(m) PROVE SecretsWhenNeeded' /\ GateInv'
  <2>1. UnprotectedFailure(m) \in Outcome
    BY <1>14, FailureType DEF RejectUnprotected
  <2>2. newkeysSent => UNCHANGED <<signatureValid, trust>>
    BY <1>14, SignatureInvalidPhase DEF RejectUnprotected, GateInv
  <2>3. QED
    BY <1>14, <2>1, <2>2, FinishGate DEF RejectUnprotected, Reject, sending
<1>15. ASSUME NEW m \in Input, SkipUnprotected(m) PROVE SecretsWhenNeeded' /\ GateInv'
  BY <1>15, FrameGate DEF SkipUnprotected, kexVars, secrets, sending
<1>16. ASSUME NEW m \in Input, OnServerKexInit(m) PROVE SecretsWhenNeeded' /\ GateInv'
  <2>1. SecretsWhenNeeded'
    BY <1>16 DEF OnServerKexInit, SecretsWhenNeeded, secrets
  <2>2. \A msg \in Late : Queued(msg)' => Queued(msg)
    BY <1>16 DEF OnServerKexInit, Queued, TypeOK, Late
  <2>3. GateInv'
    BY <1>16, <2>2 DEF OnServerKexInit, GateInv
  <2>4. QED
    BY <2>1, <2>3
<1>17. ASSUME NEW m \in Input, DiscardGuess(m) PROVE SecretsWhenNeeded' /\ GateInv'
  BY <1>17, FrameGate DEF DiscardGuess, secrets, sending
<1>18. ASSUME NEW m \in Input, OnEcdhReply(m) PROVE SecretsWhenNeeded' /\ GateInv'
  BY <1>18 DEF OnEcdhReply, SecretsWhenNeeded, GateInv, Queued, sending
<1>19. ASSUME NEW m \in Input, OnServerNewKeys(m) PROVE SecretsWhenNeeded' /\ GateInv'
  <2>1. newkeysSent
    BY <1>19 DEF OnServerNewKeys, GateInv
  <2>2. GateInv'
    BY <1>19, <2>1, SendGate DEF OnServerNewKeys, kexVars
  <2>3. SecretsWhenNeeded'
    BY <1>19, <2>1 DEF OnServerNewKeys, SecretsWhenNeeded
  <2>4. QED
    BY <2>2, <2>3
<1>20. CASE TagMismatch
  BY <1>20, FinishGate DEF TagMismatch, Reject, kexVars, sending, Outcome
<1>21. CASE ProtectedLimit
  BY <1>21, FinishGate DEF ProtectedLimit, Reject, kexVars, sending, Outcome
<1>22. ASSUME NEW m \in Input, RejectProtected(m) PROVE SecretsWhenNeeded' /\ GateInv'
  <2>1. ProtectedFailure(m) \in Outcome
    BY <1>22, FailureType DEF RejectProtected
  <2>2. QED
    BY <1>22, <2>1, FinishGate DEF RejectProtected, Protected, Reject, kexVars, sending
<1>23. ASSUME NEW m \in Input, SkipProtected(m) PROVE SecretsWhenNeeded' /\ GateInv'
  BY <1>23, FrameGate DEF SkipProtected, Protected, kexVars, secrets, sending
<1>24. ASSUME NEW m \in Input, OnServiceAccept(m) \/ OnRekey(m)
       PROVE  SecretsWhenNeeded' /\ GateInv'
  <2>1. phase = "Service" /\ newkeysSent
    BY <1>24 DEF OnServiceAccept, OnRekey, Protected, Stepping, GateInv
  <2>2. GateInv'
    <3>1. newkeysSent' /\ phase' = phase
      BY <1>24, <2>1 DEF OnServiceAccept, OnRekey, SendDisconnect
    <3>2. UNCHANGED <<signatureValid, trust>>
      BY <1>24 DEF OnServiceAccept, OnRekey, Protected, kexVars
    <3>3. QED
      BY <2>1, <3>1, <3>2, SendGate
  <2>3. SecretsWhenNeeded'
    <3>1. UNCHANGED <<phase, outcome, ephemeral, keys, newkeysSent, newkeysReceived>>
      BY <1>24 DEF OnServiceAccept, OnRekey, SendDisconnect, secrets
    <3>2. QED
      BY <3>1 DEF SecretsWhenNeeded
  <2>4. QED
    BY <2>2, <2>3
<1>25. CASE UNCHANGED vars
  BY <1>25, FrameGate DEF vars
<1>26. QED
  BY <1>1, <1>2, <1>3, <1>4, <1>5, <1>6, <1>7, <1>8, <1>9, <1>10, <1>11, <1>12, <1>13, <1>14,
     <1>15, <1>16, <1>17, <1>18, <1>19, <1>20, <1>21, <1>22, <1>23, <1>24, <1>25
     DEF Next, Step, HostCall, KexStep, ServiceStep

----------------------------------------------------------------------------
\* The inductive invariant holds, for every limit and every modulus.
THEOREM Invariance == Spec => []IndInv
<1>1. Init => IndInv
  BY InitType, InitGate DEF IndInv
<1>2. IndInv /\ [Next]_vars => IndInv'
  BY TypeNext, GateNext DEF IndInv
<1>3. QED
  BY <1>1, <1>2, PTL DEF Spec

\* Every field of ClientHandshake keeps its type; the buffer and the packet
\* counters keep their limits.
THEOREM TypeCorrect == Spec => []TypeOK
<1>1. IndInv => TypeOK
  BY DEF IndInv
<1>2. QED
  BY <1>1, Invariance, PTL

\* No NEWKEYS and no protected packet leaves the client before the signature
\* is verified and the host trusted, whatever the server and the host do.
THEOREM TrustGateHolds == Spec => []TrustGate
<1>1. IndInv => TrustGate
  BY DEF IndInv, GateInv, TrustGate, Late
<1>2. QED
  BY <1>1, Invariance, PTL

\* The secrets are present in exactly the phases whose handlers take them.
THEOREM SecretsCorrect == Spec => []SecretsWhenNeeded
<1>1. IndInv => SecretsWhenNeeded
  BY DEF IndInv
<1>2. QED
  BY <1>1, Invariance, PTL

----------------------------------------------------------------------------
(* Sequence numbers.                                                       *)

\* How far the two directions have counted while the keys are not in use:
\* the client's own count is fixed by the phase, and no protected packet is
\* counted in a direction before that direction has switched.
CountInv ==
    /\ phase \in {"ServerIdentification", "ServerKexInit"} => sendSeq = 1
    /\ phase \in {"EcdhReply", "TrustDecision"} => sendSeq = 2
    /\ phase \notin {"Service", "Finished"}
          => ~newkeysReceived /\ protectedSent = 0 /\ protectedReceived = 0

SeqInv == CountInv /\ SequenceNumbers

----------------------------------------------------------------------------
(* The script.                                                             *)

\* What was queued so far is the beginning of the script, n messages long:
\* IsPrefix(sent \o out, Script), element by element.
Said(n) ==
    /\ Len(sent) + Len(out) = n
    /\ \A i \in 1..Len(sent) : sent[i] = Script[i]
    /\ \A i \in 1..Len(out) : out[i] = Script[Len(sent) + i]

\* How much of the script each phase has queued, and when the queue is empty.
ScriptInv ==
    /\ phase \in {"ServerIdentification", "ServerKexInit"} => Said(2)
    /\ phase \in {"EcdhReply", "TrustDecision"} => Said(3)
    /\ phase = "ServerNewKeys" => Said(4)
    /\ phase = "Service" /\ pendingOutcome = "None" => Said(5)
    /\ phase = "Service" /\ pendingOutcome # "None" => Said(6)
    /\ phase = "Finished" => \E n \in 2..6 : Said(n)
    /\ phase = "TrustDecision" => out = <<>>
    /\ IF sent = <<>> THEN phase \in {"ServerIdentification", "Finished"} /\ Len(out) = 2
       ELSE Len(out) <= 1

\* An outcome that waits for the output is one of the service phase.
PendingInv ==
    /\ pendingOutcome # "None" => phase = "Service"
    /\ pendingOutcome = "Completed" => Last(received) = "SERVICE_ACCEPT"
    /\ outcome = "Completed" => /\ newkeysSent /\ newkeysReceived
                                /\ Last(received) = "SERVICE_ACCEPT"
    /\ outcome \in {"Completed", "RekeyNotSupported"} => Said(6) /\ out = <<>>
    /\ outcome = "HostNotTrusted" => Said(3)

----------------------------------------------------------------------------
(* The strict transcript.                                                  *)

Guesses == {"KEX_ECDH_REPLY", "OTHER_KEX"}

\* KEXINIT and the reply have been received, perhaps a wrong guess between.
Replied ==
    \/ received = <<"KEXINIT", "KEX_ECDH_REPLY">>
    \/ /\ guessWrong
       /\ \E guess \in Guesses : received = <<"KEXINIT", guess, "KEX_ECDH_REPLY">>

TranscriptInv ==
    /\ phase \in {"ServerIdentification", "ServerKexInit"}
          => ~strict /\ ~guessWrong /\ ~guessDiscarded
    /\ phase \notin {"Service", "Finished"} => Len(received) = preKexPackets
    /\ newkeysReceived => newkeysSent /\ preKexPackets <= Len(received)
    /\ strict /\ phase = "EcdhReply" =>
          IF guessDiscarded
          THEN guessWrong /\ \E guess \in Guesses : received = <<"KEXINIT", guess>>
          ELSE received = <<"KEXINIT">>
    /\ strict /\ phase \in {"TrustDecision", "ServerNewKeys"} => Replied
    /\ StrictTranscript

RunInv == SeqInv /\ ScriptInv /\ PendingInv /\ TranscriptInv

----------------------------------------------------------------------------
(* Steps that end the handshake.                                           *)

\* The outcomes a failure leads to.
Failures == Outcome \ {"Completed", "RekeyNotSupported", "HostNotTrusted"}

\* What finishing leaves alone, whichever handler it happens in.
Ends(o) ==
    /\ Finish(o)
    /\ UNCHANGED <<out, sent, sending, newkeysReceived>>
    /\ newkeysSent => UNCHANGED <<strict, guessWrong>>
    /\ newkeysReceived =>
          /\ UNCHANGED preKexPackets
          /\ received' = received \/ \E m \in Input : received' = Append(received, m.kind)

EndingStep ==
    \/ FeedOverflow \/ InputEnded \/ IdentificationError \/ FramingError \/ PreKexLimit
    \/ TagMismatch \/ ProtectedLimit
    \/ \E m \in Input : SequenceWrapped(m) \/ RejectUnprotected(m) \/ RejectProtected(m)

LEMMA FailureKind ==
    ASSUME NEW m \in Input
    PROVE  /\ UnprotectedFailure(m) \in Failures \cup {"None"}
           /\ ProtectedFailure(m) \in Failures \cup {"None"}
<1>1. \A o \in Failures \cup {"None"} : /\ Unless(m, o) \in Failures \cup {"None"}
                                        /\ StrictIf(o) \in Failures \cup {"None"}
  BY DEF Unless, StrictIf, Outcome, Failures
<1>2. KexInitFailure(m) \in Failures \cup {"None"}
  BY <1>1 DEF KexInitFailure, Outcome, Failures
<1>3. KexMessageFailure(m) \in Failures \cup {"None"}
  BY <1>1 DEF KexMessageFailure, Outcome, Failures
<1>4. ProtectedFailure(m) \in Failures \cup {"None"}
  BY <1>1 DEF ProtectedFailure, Outcome, Failures
<1>5. QED
  BY <1>2, <1>3, <1>4 DEF UnprotectedFailure

\* Packets are consumed unprotected only before the server's NEWKEYS.
LEMMA UnprotectedPhase ==
    ASSUME CountInv, NEW m, Consume(m)
    PROVE  phase \in KexPhases /\ outcome = "None" /\ out = <<>> /\ pendingOutcome = "None"
           /\ ~newkeysReceived
  BY DEF Consume, Stepping, KexPhases, CountInv

LEMMA EndingSteps ==
    ASSUME IndInv, CountInv, EndingStep
    PROVE  \E o \in Failures : Ends(o)
<1>1. CASE FeedOverflow
  BY <1>1 DEF FeedOverflow, Ends, Failures, Outcome, kexVars, receiving
<1>2. CASE InputEnded
  BY <1>2 DEF InputEnded, Ends, Failures, Outcome, kexVars, receiving
<1>3. CASE IdentificationError
  BY <1>3 DEF IdentificationError, Reject, Ends, Failures, Outcome, kexVars
<1>4. CASE FramingError
  BY <1>4 DEF FramingError, Reject, Ends, Failures, Outcome, kexVars
<1>5. CASE PreKexLimit
  BY <1>5 DEF PreKexLimit, Reject, Ends, Failures, Outcome, kexVars
<1>6. ASSUME NEW m \in Input, SequenceWrapped(m) PROVE \E o \in Failures : Ends(o)
  <2>1. ~newkeysReceived
    BY <1>6, UnprotectedPhase DEF SequenceWrapped
  <2>2. QED
    BY <1>6, <2>1 DEF SequenceWrapped, Reject, Ends, Failures, Outcome, kexVars
<1>7. ASSUME NEW m \in Input, RejectUnprotected(m) PROVE \E o \in Failures : Ends(o)
  <2>1. ~newkeysReceived
    BY <1>7, UnprotectedPhase DEF RejectUnprotected, Unprotected
  <2>2. UnprotectedFailure(m) \in Failures
    BY <1>7, FailureKind DEF RejectUnprotected
  <2>3. newkeysSent => UNCHANGED <<strict, guessWrong>>
    BY <1>7 DEF RejectUnprotected, IndInv, GateInv
  <2>4. Ends(UnprotectedFailure(m))
    BY <1>7, <2>1, <2>3 DEF RejectUnprotected, Reject, Ends
  <2>5. QED
    BY <2>2, <2>4
<1>8. CASE TagMismatch
  BY <1>8 DEF TagMismatch, Reject, Ends, Failures, Outcome, kexVars
<1>9. CASE ProtectedLimit
  BY <1>9 DEF ProtectedLimit, Reject, Ends, Failures, Outcome, kexVars
<1>10. ASSUME NEW m \in Input, RejectProtected(m) PROVE \E o \in Failures : Ends(o)
  <2>1. ProtectedFailure(m) \in Failures
    BY <1>10, FailureKind DEF RejectProtected
  <2>2. Ends(ProtectedFailure(m))
    BY <1>10 DEF RejectProtected, Protected, Reject, Ends, kexVars
  <2>3. QED
    BY <2>1, <2>2
<1>11. QED
  BY <1>1, <1>2, <1>3, <1>4, <1>5, <1>6, <1>7, <1>8, <1>9, <1>10 DEF EndingStep

----------------------------------------------------------------------------
(* SequenceNumbers is inductive together with CountInv.                    *)

LEMMA ModUnique ==
    ASSUME NEW b \in Nat, b > 3, NEW q \in Nat, NEW r \in 0..(b - 1)
    PROVE  (b * q + r) % b = r
  OBVIOUS

\* Counting modulo b one by one is counting and then reducing modulo b.
LEMMA ModSuccessor ==
    ASSUME NEW b \in Nat, b > 3, NEW a \in Nat
    PROVE  ((a % b) + 1) % b = (a + 1) % b
<1> DEFINE q == a \div b
           r == a % b
<1>1. q \in Nat /\ r \in 0..(b - 1) /\ a = b * q + r
  OBVIOUS
<1> HIDE DEF q, r
<1>2. CASE r + 1 < b
  <2>1. (b * q + (r + 1)) % b = r + 1
    BY <1>1, <1>2, ModUnique
  <2>2. (r + 1) % b = r + 1
    BY <1>1, <1>2
  <2>3. a + 1 = b * q + (r + 1)
    BY <1>1
  <2>4. QED
    BY <2>1, <2>2, <2>3 DEF r
<1>3. CASE r + 1 = b
  <2>1. a + 1 = b * (q + 1) + 0
    BY <1>1, <1>3
  <2>2. (a + 1) % b = 0
    BY <1>1, <2>1, ModUnique
  <2>3. (r + 1) % b = 0
    BY <1>1, <1>3
  <2>4. QED
    BY <2>2, <2>3 DEF r
<1>4. QED
  BY <1>1, <1>2, <1>3

LEMMA BumpedCount ==
    ASSUME NEW a \in Nat
    PROVE  Bumped(a % SequenceMod) = (a + 1) % SequenceMod
  BY ModSuccessor, HandshakeConfig DEF Bumped

LEMMA SmallNumbers ==
    /\ 0 % SequenceMod = 0 /\ Bumped(1) = 2 /\ Bumped(2) = 3 % SequenceMod
  BY HandshakeConfig DEF Bumped

LEMMA EndsSeq ==
    ASSUME SeqInv, NEW o \in Outcome, Ends(o)
    PROVE  SeqInv'
  BY DEF SeqInv, CountInv, SequenceNumbers, Ends, Finish, sending, Outcome

\* A packet that is consumed unprotected without changing direction.
LEMMA CountUnprotected ==
    ASSUME TypeOK, SeqInv, NEW m, Consume(m), recvSeq' = Bumped(recvSeq),
           UNCHANGED newkeysReceived
    PROVE  recvSeq' = ((IF strict' /\ newkeysReceived' THEN 0 ELSE preKexPackets')
                          + protectedReceived') % SequenceMod
<1>1. ~newkeysReceived /\ outcome = "None" /\ protectedReceived = 0
  BY UnprotectedPhase DEF SeqInv, CountInv, Consume, Stepping, KexPhases
<1>2. recvSeq = preKexPackets % SequenceMod
  BY <1>1 DEF SeqInv, SequenceNumbers, TypeOK
<1>3. recvSeq' = (preKexPackets + 1) % SequenceMod
  BY <1>2, BumpedCount DEF TypeOK
<1>4. QED
  BY <1>1, <1>3 DEF Consume, TypeOK

\* The packet the client seals next.
LEMMA CountSent ==
    ASSUME TypeOK, SequenceNumbers, newkeysSent, newkeysSent', UNCHANGED strict,
           sendSeq' = Bumped(sendSeq), protectedSent' = protectedSent + 1
    PROVE  sendSeq' = ((IF strict' THEN 0 ELSE 3) + protectedSent') % SequenceMod
<1> DEFINE base == IF strict THEN 0 ELSE 3
<1>1. base \in Nat /\ protectedSent \in Nat /\ base + protectedSent \in Nat
  BY DEF TypeOK
<1>2. sendSeq = (base + protectedSent) % SequenceMod
  BY DEF SequenceNumbers
<1>3. sendSeq' = (base + protectedSent + 1) % SequenceMod
  BY <1>1, <1>2, BumpedCount
<1>4. QED
  BY <1>1, <1>3

\* The packet the client opens next.
LEMMA CountOpened ==
    ASSUME TypeOK, SecretsWhenNeeded, SequenceNumbers, NEW m, Protected(m),
           UNCHANGED newkeysReceived
    PROVE  recvSeq' = ((IF strict' /\ newkeysReceived' THEN 0 ELSE preKexPackets')
                          + protectedReceived') % SequenceMod
<1> DEFINE base == IF strict THEN 0 ELSE preKexPackets
<1>1. base \in Nat /\ protectedReceived \in Nat /\ base + protectedReceived \in Nat
  BY HandshakeConfig DEF TypeOK
<1>2. newkeysReceived /\ outcome = "None"
  BY DEF Protected, Stepping, SecretsWhenNeeded
<1>3. recvSeq = (base + protectedReceived) % SequenceMod
  BY <1>2 DEF SequenceNumbers
<1>4. recvSeq' = (base + protectedReceived + 1) % SequenceMod
  BY <1>1, <1>3, BumpedCount DEF Protected
<1>5. UNCHANGED <<strict, preKexPackets>> /\ protectedReceived' = protectedReceived + 1
  BY DEF Protected, kexVars
<1>6. QED
  BY <1>1, <1>2, <1>4, <1>5

LEMMA SeqFrame ==
    ASSUME SeqInv, phase' = phase \/ (phase = "ServerIdentification" /\ phase' = "ServerKexInit"),
           UNCHANGED <<outcome, strict, newkeysSent, newkeysReceived, sendSeq, recvSeq,
                       protectedSent, protectedReceived, preKexPackets>>
    PROVE  SeqInv'
  BY DEF SeqInv, CountInv, SequenceNumbers

LEMMA SeqNext == IndInv /\ SeqInv /\ [Next]_vars => SeqInv'
<1> SUFFICES ASSUME IndInv, SeqInv, [Next]_vars PROVE SeqInv'
  OBVIOUS
<1> USE DEF IndInv
<1>1. CASE EndingStep
  BY <1>1, EndingSteps, EndsSeq DEF SeqInv, Failures
<1>2. CASE ProvideUntrusted
  BY <1>2, EndsSeq DEF ProvideUntrusted, Ends, receiving, Outcome
<1>3. CASE AdoptPending
  BY <1>3, EndsSeq DEF AdoptPending, Ends, receiving, kexVars, Outcome, TypeOK
<1>4. ASSUME NEW m \in Input, Feed(m) PROVE SeqInv'
  BY <1>4, SeqFrame DEF Feed, kexVars, sending
<1>5. CASE TakeOutput
  BY <1>5, SeqFrame DEF TakeOutput, kexVars, sending, receiving
<1>6. CASE PreludeLine
  BY <1>6, SeqFrame DEF PreludeLine, kexVars, sending
<1>7. CASE ServerIdentification
  BY <1>7, SeqFrame DEF ServerIdentification, Stepping, kexVars, sending
<1>8. CASE ProvideTrusted
  <2>1. sendSeq = 2 /\ ~newkeysReceived /\ protectedSent = 0 /\ protectedReceived = 0
    BY <1>8 DEF ProvideTrusted, SeqInv, CountInv
  <2>2. sendSeq' = ((IF strict' THEN 0 ELSE 3) + protectedSent') % SequenceMod
    <3>1. CASE strict
      BY <1>8, <2>1, <3>1, SmallNumbers DEF ProvideTrusted
    <3>2. CASE ~strict
      BY <1>8, <2>1, <3>2, SmallNumbers DEF ProvideTrusted
    <3>3. QED
      BY <3>1, <3>2
  <2>3. CountInv'
    BY <1>8, <2>1 DEF ProvideTrusted, CountInv, receiving
  <2>4. SequenceNumbers'
    BY <1>8, <2>2 DEF ProvideTrusted, SequenceNumbers, SeqInv, receiving
  <2>5. QED
    BY <2>3, <2>4 DEF SeqInv
<1>9. ASSUME NEW m \in Input, SkipUnprotected(m) \/ DiscardGuess(m) PROVE SeqInv'
  <2>1. /\ Consume(m) /\ recvSeq' = Bumped(recvSeq)
        /\ UNCHANGED <<phase, outcome, strict, newkeysSent, newkeysReceived, sendSeq,
                       protectedSent, protectedReceived>>
    BY <1>9 DEF SkipUnprotected, DiscardGuess, Unprotected, Consume, kexVars, sending
  <2>2. QED
    BY <2>1, CountUnprotected DEF SeqInv, CountInv, SequenceNumbers
<1>10. ASSUME NEW m \in Input, OnServerKexInit(m) PROVE SeqInv'
  <2>1. Consume(m) /\ recvSeq' = Bumped(recvSeq) /\ UNCHANGED newkeysReceived
    BY <1>10 DEF OnServerKexInit, Unprotected
  <2>2. ~newkeysSent' /\ ~newkeysReceived'
    BY <1>10 DEF OnServerKexInit, GateInv, SeqInv, CountInv
  <2>3. sendSeq' = 2
    BY <1>10, SmallNumbers DEF OnServerKexInit, SeqInv, CountInv
  <2>4. CountInv'
    BY <1>10, <2>2, <2>3 DEF OnServerKexInit, CountInv, SeqInv, Unprotected, Consume
  <2>5. SequenceNumbers'
    BY <2>1, <2>2, CountUnprotected DEF SequenceNumbers
  <2>6. QED
    BY <2>4, <2>5 DEF SeqInv
<1>11. ASSUME NEW m \in Input, OnEcdhReply(m) PROVE SeqInv'
  <2>1. Consume(m) /\ recvSeq' = Bumped(recvSeq) /\ UNCHANGED newkeysReceived
    BY <1>11 DEF OnEcdhReply, Unprotected
  <2>2. ~newkeysSent' /\ ~newkeysReceived'
    BY <1>11 DEF OnEcdhReply, GateInv, SeqInv, CountInv, sending
  <2>3. CountInv'
    BY <1>11, <2>2 DEF OnEcdhReply, CountInv, SeqInv, Unprotected, Consume, sending
  <2>4. SequenceNumbers'
    BY <2>1, <2>2, CountUnprotected DEF SequenceNumbers
  <2>5. QED
    BY <2>3, <2>4 DEF SeqInv
<1>12. ASSUME NEW m \in Input, OnServerNewKeys(m) PROVE SeqInv'
  <2>1. /\ newkeysSent /\ ~newkeysReceived /\ protectedReceived = 0 /\ outcome = "None"
        /\ UNCHANGED <<strict, newkeysSent, protectedReceived>>
        /\ preKexPackets' = preKexPackets + 1
    BY <1>12 DEF OnServerNewKeys, GateInv, SeqInv, CountInv, Unprotected, Consume, Stepping,
       kexVars
  <2>2. sendSeq' = ((IF strict' THEN 0 ELSE 3) + protectedSent') % SequenceMod
    BY <1>12, <2>1, CountSent DEF OnServerNewKeys, SeqInv
  <2>3. recvSeq' = ((IF strict' /\ newkeysReceived' THEN 0 ELSE preKexPackets')
                        + protectedReceived') % SequenceMod
    <3>1. CASE strict
      BY <1>12, <2>1, <3>1, SmallNumbers DEF OnServerNewKeys
    <3>2. CASE ~strict
      <4>1. recvSeq = preKexPackets % SequenceMod
        BY <2>1, <3>2 DEF SeqInv, SequenceNumbers, TypeOK
      <4>2. recvSeq' = (preKexPackets + 1) % SequenceMod
        BY <1>12, <3>2, <4>1, BumpedCount DEF OnServerNewKeys, TypeOK
      <4>3. QED
        BY <2>1, <3>2, <4>2 DEF TypeOK
    <3>3. QED
      BY <3>1, <3>2
  <2>4. CountInv'
    BY <1>12 DEF OnServerNewKeys, CountInv
  <2>5. QED
    BY <2>2, <2>3, <2>4 DEF SeqInv, SequenceNumbers
<1>13. ASSUME NEW m \in Input, SkipProtected(m) PROVE SeqInv'
  <2>1. /\ Protected(m) /\ phase = "Service"
        /\ UNCHANGED <<phase, outcome, strict, newkeysSent, newkeysReceived, sendSeq,
                       protectedSent>>
    BY <1>13 DEF SkipProtected, Protected, Stepping, kexVars, sending
  <2>2. QED
    BY <2>1, CountOpened DEF SeqInv, CountInv, SequenceNumbers
<1>14. ASSUME NEW m \in Input, OnServiceAccept(m) \/ OnRekey(m) PROVE SeqInv'
  <2>1. /\ Protected(m) /\ phase = "Service" /\ newkeysSent /\ SendDisconnect
        /\ UNCHANGED <<phase, outcome, strict, newkeysReceived>>
    BY <1>14 DEF OnServiceAccept, OnRekey, Protected, Stepping, kexVars, SecretsWhenNeeded
  <2>2. sendSeq' = ((IF strict' THEN 0 ELSE 3) + protectedSent') % SequenceMod
    BY <2>1, CountSent DEF SendDisconnect, SeqInv
  <2>3. CountInv'
    BY <2>1 DEF CountInv
  <2>4. QED
    BY <2>1, <2>2, <2>3, CountOpened DEF SeqInv, SequenceNumbers
<1>15. CASE UNCHANGED vars
  BY <1>15, SeqFrame DEF vars
<1>16. QED
  BY <1>1, <1>2, <1>3, <1>4, <1>5, <1>6, <1>7, <1>8, <1>9, <1>10, <1>11, <1>12, <1>13, <1>14,
     <1>15 DEF Next, Step, HostCall, KexStep, ServiceStep, EndingStep

----------------------------------------------------------------------------
(* ScriptFollowed is inductive together with ScriptInv and PendingInv.     *)

\* Said does not see whether a message has been taken.
LEMMA TakeSaid ==
    ASSUME TypeOK, NEW n \in 2..6, Said(n), sent' = sent \o out, out' = <<>>
    PROVE  Said(n)'
<1>1. /\ Len(sent') = Len(sent) + Len(out) /\ Len(out') = 0
      /\ \A i \in 1..Len(sent') :
            sent'[i] = IF i <= Len(sent) THEN sent[i] ELSE out[i - Len(sent)]
  BY DEF TypeOK
<1>2. \A i \in 1..Len(sent') : sent'[i] = Script[i]
  <2>1. TAKE i \in 1..Len(sent')
  <2>2. CASE i <= Len(sent)
    BY <1>1, <2>2 DEF Said, TypeOK
  <2>3. CASE i > Len(sent)
    <3>1. i - Len(sent) \in 1..Len(out) /\ Len(sent) + (i - Len(sent)) = i
      BY <1>1, <2>3 DEF TypeOK
    <3>2. QED
      BY <1>1, <2>3, <3>1 DEF Said
  <2>4. QED
    BY <2>2, <2>3, <1>1 DEF TypeOK
<1>3. Len(sent) \in Nat /\ Len(out) \in Nat
  BY DEF TypeOK
<1>4. QED
  BY <1>1, <1>2, <1>3 DEF Said

\* The next message of the script is queued, into an empty queue.
LEMMA SaySaid ==
    ASSUME TypeOK, NEW n \in 2..5, Said(n), out = <<>>,
           out' = Append(out, Script[n + 1]), UNCHANGED sent
    PROVE  Said(n + 1)' /\ Len(out') = 1
<1>1. Len(sent) = n /\ Len(out) = 0
  BY DEF Said, TypeOK
<1>2. Len(out') = 1 /\ out'[1] = Script[n + 1]
  BY DEF TypeOK
<1>3. \A i \in 1..Len(sent') : sent'[i] = Script[i]
  BY DEF Said
<1>4. QED
  BY <1>1, <1>2, <1>3 DEF Said

LEMMA SaidAtMostOnce ==
    ASSUME ScriptInv, NEW n \in 3..6, Said(n), TypeOK
    PROVE  sent # <<>>
<1>1. SUFFICES ASSUME sent = <<>> PROVE FALSE
  OBVIOUS
<1>2. Len(out) = 2
  BY <1>1 DEF ScriptInv
<1>3. Len(sent) = 0
  BY <1>1
<1>4. Len(sent) + Len(out) = n
  BY DEF Said
<1>5. QED
  BY <1>2, <1>3, <1>4

LEMMA SaidFrame ==
    ASSUME UNCHANGED <<sent, out>>
    PROVE  \A n : Said(n)' <=> Said(n)
  BY DEF Said

\* While the client runs, what it has said follows from the phase.
LEMMA SaidSome ==
    ASSUME TypeOK, ScriptInv
    PROVE  \E n \in 2..6 : Said(n)
<1>1. 2 \in 2..6 /\ 3 \in 2..6 /\ 4 \in 2..6 /\ 5 \in 2..6 /\ 6 \in 2..6
  OBVIOUS
<1>2. QED
  BY <1>1 DEF TypeOK, ScriptInv, Phase

LEMMA EndsScript ==
    ASSUME TypeOK, ScriptInv, PendingInv, NEW o \in Outcome, Ends(o)
    PROVE  ScriptInv'
<1>1. \E n \in 2..6 : Said(n)'
  BY SaidSome, SaidFrame DEF Ends
<1>2. QED
  BY <1>1 DEF ScriptInv, Ends, Finish

LEMMA FailsPending ==
    ASSUME NEW o \in Failures, Ends(o)
    PROVE  PendingInv'
  BY DEF PendingInv, Ends, Finish, Failures, Outcome

\* A step that sends nothing and stays in a phase that queues as much.
LEMMA ScriptFrame ==
    ASSUME ScriptInv, UNCHANGED <<sent, out, pendingOutcome>>,
           \/ phase' = phase
           \/ phase = "ServerIdentification" /\ phase' = "ServerKexInit" /\ sent # <<>>
           \/ phase = "EcdhReply" /\ phase' = "TrustDecision" /\ out = <<>>
    PROVE  ScriptInv'
<1>1. \A n : Said(n)' <=> Said(n)
  BY SaidFrame
<1>2. QED
  BY <1>1 DEF ScriptInv

\* A step of a handshake that goes on: no outcome is reached or waited for.
LEMMA PendingFrame ==
    ASSUME outcome' = "None", pendingOutcome' = "None"
    PROVE  PendingInv'
  BY DEF PendingInv

LEMMA SteppingSent ==
    ASSUME TypeOK, ScriptInv, out = <<>>
    PROVE  sent # <<>>
  BY DEF ScriptInv, TypeOK

LEMMA ScriptNext ==
    IndInv /\ SeqInv /\ ScriptInv /\ PendingInv /\ [Next]_vars => ScriptInv' /\ PendingInv'
<1> SUFFICES ASSUME IndInv, SeqInv, ScriptInv, PendingInv, [Next]_vars
             PROVE  ScriptInv' /\ PendingInv'
  OBVIOUS
<1> TypeOK /\ SecretsWhenNeeded /\ GateInv /\ CountInv
  BY DEF IndInv, SeqInv
<1>1. CASE EndingStep
  <2>1. PICK o \in Failures : Ends(o)
    BY <1>1, EndingSteps
  <2>2. QED
    BY <2>1, EndsScript, FailsPending DEF Failures
<1>2. CASE ProvideUntrusted
  <2>1. Ends("HostNotTrusted") /\ "HostNotTrusted" \in Outcome
    BY <1>2 DEF ProvideUntrusted, Ends, receiving, Outcome
  <2>2. Said(3)'
    BY <1>2, <2>1, SaidFrame DEF ProvideUntrusted, ScriptInv, Ends
  <2>3. PendingInv'
    BY <1>2, <2>2 DEF ProvideUntrusted, Finish, PendingInv
  <2>4. QED
    BY <2>1, <2>3, EndsScript
<1>3. CASE AdoptPending
  <2>1. Ends(pendingOutcome) /\ pendingOutcome \in {"Completed", "RekeyNotSupported"}
    BY <1>3 DEF AdoptPending, Ends, receiving, kexVars, Outcome, TypeOK
  <2>2. phase = "Service" /\ out = <<>> /\ Said(6) /\ newkeysSent /\ newkeysReceived
    BY <1>3 DEF AdoptPending, PendingInv, ScriptInv, SecretsWhenNeeded
  <2>3. Said(6)' /\ out' = <<>>
    BY <2>1, <2>2, SaidFrame DEF Ends
  <2>4. outcome' = pendingOutcome /\ pendingOutcome' = "None" /\ phase' = "Finished"
        /\ UNCHANGED <<newkeysSent, newkeysReceived, received>>
    BY <1>3 DEF AdoptPending, Finish, sending, receiving
  <2>5. PendingInv'
    BY <2>1, <2>2, <2>3, <2>4 DEF PendingInv
  <2>6. QED
    BY <2>1, <2>5, EndsScript DEF Outcome
<1>4. ASSUME NEW m \in Input, Feed(m) PROVE ScriptInv' /\ PendingInv'
  <2>1. UNCHANGED <<sent, out, pendingOutcome, phase, outcome, received, newkeysSent,
                    newkeysReceived>>
    BY <1>4 DEF Feed, sending
  <2>2. QED
    BY <2>1, ScriptFrame, SaidFrame DEF PendingInv
<1>5. CASE TakeOutput
  <2>1. UNCHANGED <<phase, pendingOutcome, outcome, received, newkeysSent, newkeysReceived>>
        /\ sent' = sent \o out /\ out' = <<>> /\ out # <<>>
    BY <1>5 DEF TakeOutput, sending, receiving
  <2>2. \A n \in 2..6 : Said(n) => Said(n)'
    BY <2>1, TakeSaid
  <2>3. sent' # <<>> /\ Len(out') = 0
    BY <2>1 DEF TypeOK
  <2>4. /\ 2 \in 2..6 /\ 3 \in 2..6 /\ 4 \in 2..6 /\ 5 \in 2..6 /\ 6 \in 2..6
    OBVIOUS
  <2>5. ScriptInv'
    BY <2>1, <2>2, <2>3, <2>4 DEF ScriptInv
  <2>6. PendingInv'
    BY <2>1, <2>2, <2>4 DEF PendingInv
  <2>7. QED
    BY <2>5, <2>6
<1>6. CASE PreludeLine
  <2>1. UNCHANGED <<sent, out, pendingOutcome, phase, outcome, received, newkeysSent,
                    newkeysReceived>>
    BY <1>6 DEF PreludeLine, sending
  <2>2. QED
    BY <2>1, ScriptFrame, SaidFrame DEF PendingInv
<1>7. CASE ServerIdentification
  <2>1. /\ UNCHANGED <<sent, out, pendingOutcome>> /\ out = <<>>
        /\ phase = "ServerIdentification" /\ phase' = "ServerKexInit"
        /\ outcome' = "None" /\ pendingOutcome' = "None"
    BY <1>7 DEF ServerIdentification, Stepping
  <2>2. QED
    BY <2>1, SteppingSent, ScriptFrame, PendingFrame
<1>8. CASE ProvideTrusted
  <2>1. /\ out = <<>> /\ Said(3) /\ out' = Append(out, "NEWKEYS") /\ UNCHANGED sent
        /\ phase' = "ServerNewKeys" /\ sent # <<>>
        /\ outcome' = "None" /\ pendingOutcome' = "None"
    BY <1>8, SteppingSent DEF ProvideTrusted, ScriptInv, PendingInv, SecretsWhenNeeded
  <2>2. Script[4] = "NEWKEYS"
    BY DEF Script
  <2>3. Said(4)' /\ Len(out') = 1
    BY <2>1, <2>2, SaySaid
  <2>4. QED
    BY <2>1, <2>3, PendingFrame DEF ScriptInv
<1>9. ASSUME NEW m \in Input, SkipUnprotected(m) \/ DiscardGuess(m)
      PROVE  ScriptInv' /\ PendingInv'
  <2>1. /\ UNCHANGED <<sent, out, pendingOutcome, phase>>
        /\ outcome' = "None" /\ pendingOutcome' = "None"
    BY <1>9 DEF SkipUnprotected, DiscardGuess, Unprotected, Consume, Stepping
  <2>2. QED
    BY <2>1, ScriptFrame, PendingFrame
<1>10. ASSUME NEW m \in Input, OnServerKexInit(m) PROVE ScriptInv' /\ PendingInv'
  <2>1. /\ out = <<>> /\ Said(2) /\ out' = Append(out, "KEX_ECDH_INIT") /\ UNCHANGED sent
        /\ phase' = "EcdhReply" /\ outcome' = "None" /\ pendingOutcome' = "None"
    BY <1>10 DEF OnServerKexInit, Unprotected, Consume, Stepping, ScriptInv
  <2>2. Script[3] = "KEX_ECDH_INIT"
    BY DEF Script
  <2>3. Said(3)' /\ Len(out') = 1 /\ sent # <<>>
    BY <2>1, <2>2, SaySaid, SteppingSent
  <2>4. QED
    BY <2>1, <2>3, PendingFrame DEF ScriptInv
<1>11. ASSUME NEW m \in Input, OnEcdhReply(m) PROVE ScriptInv' /\ PendingInv'
  <2>1. /\ UNCHANGED <<sent, out, pendingOutcome>> /\ out = <<>>
        /\ phase = "EcdhReply" /\ phase' = "TrustDecision"
        /\ outcome' = "None" /\ pendingOutcome' = "None"
    BY <1>11 DEF OnEcdhReply, Unprotected, Consume, Stepping
  <2>2. QED
    BY <2>1, ScriptFrame, PendingFrame
<1>12. ASSUME NEW m \in Input, OnServerNewKeys(m) PROVE ScriptInv' /\ PendingInv'
  <2>1. /\ out = <<>> /\ Said(4) /\ out' = Append(out, "SERVICE_REQUEST") /\ UNCHANGED sent
        /\ phase' = "Service" /\ outcome' = "None" /\ pendingOutcome' = "None"
    BY <1>12 DEF OnServerNewKeys, Unprotected, Consume, Stepping, ScriptInv
  <2>2. Script[5] = "SERVICE_REQUEST"
    BY DEF Script
  <2>3. Said(5)' /\ Len(out') = 1 /\ sent # <<>>
    BY <2>1, <2>2, SaySaid, SteppingSent
  <2>4. QED
    BY <2>1, <2>3, PendingFrame DEF ScriptInv
<1>13. ASSUME NEW m \in Input, SkipProtected(m) PROVE ScriptInv' /\ PendingInv'
  <2>1. /\ UNCHANGED <<sent, out, pendingOutcome, phase>>
        /\ outcome' = "None" /\ pendingOutcome' = "None"
    BY <1>13 DEF SkipProtected, Protected, Stepping
  <2>2. QED
    BY <2>1, ScriptFrame, PendingFrame
<1>14. ASSUME NEW m \in Input, OnServiceAccept(m) \/ OnRekey(m)
       PROVE  ScriptInv' /\ PendingInv'
  <2>1. /\ out = <<>> /\ Said(5) /\ out' = Append(out, "DISCONNECT") /\ UNCHANGED sent
        /\ phase = "Service" /\ phase' = "Service" /\ outcome' = "None"
        /\ received' = Append(received, m.kind)
    BY <1>14 DEF OnServiceAccept, OnRekey, SendDisconnect, Protected, Stepping, ScriptInv
  <2>2. \/ pendingOutcome' = "Completed" /\ m.kind = "SERVICE_ACCEPT"
        \/ pendingOutcome' = "RekeyNotSupported"
    BY <1>14 DEF OnServiceAccept, OnRekey
  <2>3. Script[6] = "DISCONNECT"
    BY DEF Script
  <2>4. Said(6)' /\ Len(out') = 1 /\ sent # <<>>
    BY <2>1, <2>3, SaySaid, SteppingSent
  <2>5. pendingOutcome' = "Completed" => Last(received') = "SERVICE_ACCEPT"
    BY <2>1, <2>2 DEF Last, TypeOK
  <2>6. QED
    BY <2>1, <2>2, <2>4, <2>5 DEF ScriptInv, PendingInv
<1>15. CASE UNCHANGED vars
  <2>1. UNCHANGED <<sent, out, pendingOutcome, phase, outcome, received, newkeysSent,
                    newkeysReceived>>
    BY <1>15 DEF vars
  <2>2. QED
    BY <2>1, ScriptFrame, SaidFrame DEF PendingInv
<1>16. QED
  BY <1>1, <1>2, <1>3, <1>4, <1>5, <1>6, <1>7, <1>8, <1>9, <1>10, <1>11, <1>12, <1>13, <1>14,
     <1>15 DEF Next, Step, HostCall, KexStep, ServiceStep, EndingStep

\* The element-wise form of the script is the one OutputContract states.
LEMMA SaidScript ==
    ASSUME TypeOK, NEW n \in 2..6, Said(n)
    PROVE  sent \o out = SubSeq(Script, 1, n) /\ Len(Script) = 6 /\ Script \in Seq(Sendable)
<1>1. Len(Script) = 6 /\ Script \in Seq(Sendable)
  BY DEF Script, Sendable
<1>2. Len(sent) \in Nat /\ Len(out) \in Nat /\ Len(sent) + Len(out) = n
  BY DEF TypeOK, Said
<1>3. /\ sent \o out \in Seq(Sendable) /\ Len(sent \o out) = n
      /\ \A i \in 1..n :
            (sent \o out)[i] = IF i <= Len(sent) THEN sent[i] ELSE out[i - Len(sent)]
  BY <1>2 DEF TypeOK
<1>4. /\ SubSeq(Script, 1, n) \in Seq(Sendable) /\ Len(SubSeq(Script, 1, n)) = n
      /\ \A i \in 1..n : SubSeq(Script, 1, n)[i] = Script[i]
  <2>1. 1 \in 1..(Len(Script) + 1) /\ n \in 0..Len(Script) /\ 1 <= n + 1
    BY <1>1
  <2>2. Len(SubSeq(Script, 1, n)) = n
    BY <1>1, <2>1
  <2>3. \A i \in 1..n : SubSeq(Script, 1, n)[i] = Script[i]
    BY <1>1, <2>1
  <2>4. SubSeq(Script, 1, n) \in Seq(Sendable)
    <3>1. 1 \in Int /\ n \in Int
      OBVIOUS
    <3>2. \A i \in 1..6 : Script[i] \in Sendable
      BY DEF Script, Sendable
    <3>3. \A i \in 1..n : Script[i] \in Sendable
      BY <3>2
    <3>4. QED
      BY <3>1, <3>3, SubSeqProperties, Zenon
  <2>5. QED
    BY <2>2, <2>3, <2>4
<1>5. \A i \in 1..n : (sent \o out)[i] = Script[i]
  <2>1. TAKE i \in 1..n
  <2>2. CASE i <= Len(sent)
    BY <1>2, <1>3, <2>2 DEF Said
  <2>3. CASE i > Len(sent)
    <3>1. i - Len(sent) \in 1..Len(out) /\ Len(sent) + (i - Len(sent)) = i
      BY <1>2, <2>3
    <3>2. QED
      BY <1>2, <1>3, <2>3, <3>1 DEF Said
  <2>4. QED
    BY <1>2, <2>2, <2>3
<1>6. sent \o out = SubSeq(Script, 1, n)
  BY <1>3, <1>4, <1>5
<1>7. QED
  BY <1>1, <1>6

LEMMA ScriptFromInv ==
    ASSUME IndInv, ScriptInv, PendingInv
    PROVE  ScriptFollowed
<1> TypeOK /\ GateInv
  BY DEF IndInv
<1>1. PICK n \in 2..6 : Said(n)
  BY SaidSome
<1>2. sent \o out = SubSeq(Script, 1, n) /\ Len(Script) = 6 /\ Script \in Seq(Sendable)
  BY <1>1, SaidScript
<1>3. IsPrefix(sent \o out, Script)
  <2>1. Len(sent \o out) = n /\ sent \o out \in Seq(Sendable)
    BY <1>1 DEF Said, TypeOK
  <2>2. SubSeq(sent \o out, 1, Len(sent \o out)) = sent \o out
    BY <2>1
  <2>3. QED
    BY <1>2, <2>1, <2>2 DEF IsPrefix
<1>4. OutputContract
  BY <1>3 DEF OutputContract, ScriptInv
<1>5. ASSUME outcome \in {"Completed", "RekeyNotSupported"} PROVE sent = Script /\ out = <<>>
  <2>1. out = <<>> /\ Said(6)
    BY <1>5 DEF PendingInv
  <2>2. sent \o out = SubSeq(Script, 1, 6)
    BY <2>1, SaidScript
  <2>3. sent \o out = sent
    BY <2>1 DEF TypeOK
  <2>4. SubSeq(Script, 1, 6) = Script
    BY <1>2
  <2>5. QED
    BY <2>1, <2>2, <2>3, <2>4
<1>6. outcome = "HostNotTrusted" => sent \o out = SubSeq(Script, 1, 3)
  BY SaidScript DEF PendingInv
<1>7. OutcomeMeans
  BY <1>5, <1>6 DEF OutcomeMeans, PendingInv, GateInv
<1>8. QED
  BY <1>4, <1>7 DEF ScriptFollowed

----------------------------------------------------------------------------
(* StrictTranscript is inductive together with TranscriptInv.              *)

\* The transcript of the key exchange, as StrictTranscript asks for it.
StrictKex(kex, wrong) ==
    \/ kex = <<"KEXINIT", "KEX_ECDH_REPLY", "NEWKEYS">>
    \/ wrong /\ \E guess \in Guesses : kex = <<"KEXINIT", guess, "KEX_ECDH_REPLY", "NEWKEYS">>

LEMMA TranscriptDef ==
    StrictTranscript <=>
        (strict /\ newkeysReceived => StrictKex(SubSeq(received, 1, preKexPackets), guessWrong))
  BY DEF StrictTranscript, StrictKex, Guesses

\* A packet more does not change what came first.
LEMMA PrefixStays ==
    ASSUME NEW S, NEW s \in Seq(S), NEW x \in S, NEW n \in Nat, n <= Len(s)
    PROVE  SubSeq(Append(s, x), 1, n) = SubSeq(s, 1, n) /\ n <= Len(Append(s, x))
<1>1. /\ 1 \in Int /\ n \in Int /\ \A i \in 1..n : s[i] \in S /\ Append(s, x)[i] = s[i]
      /\ Len(Append(s, x)) = Len(s) + 1
  OBVIOUS
<1>2. \A i \in 1..n : Append(s, x)[i] \in S
  BY <1>1
<1>3. SubSeq(Append(s, x), 1, n) \in Seq(S) /\ SubSeq(s, 1, n) \in Seq(S)
  BY <1>1, <1>2, SubSeqProperties, Zenon
<1>4. /\ Len(SubSeq(Append(s, x), 1, n)) = n /\ Len(SubSeq(s, 1, n)) = n
      /\ \A i \in 1..n : SubSeq(Append(s, x), 1, n)[i] = Append(s, x)[i]
      /\ \A i \in 1..n : SubSeq(s, 1, n)[i] = s[i]
  BY <1>1
<1>5. SubSeq(Append(s, x), 1, n) = SubSeq(s, 1, n)
  BY <1>1, <1>3, <1>4
<1>6. QED
  BY <1>1, <1>5

\* Appending to a short sequence that is written out.
LEMMA AppendIs ==
    ASSUME NEW S, NEW s \in Seq(S), NEW t \in Seq(S), NEW x \in S, Len(t) = Len(s) + 1,
           \A i \in 1..Len(s) : t[i] = s[i], t[Len(s) + 1] = x
    PROVE  Append(s, x) = t
<1>1. Append(s, x) \in Seq(S) /\ Len(Append(s, x)) = Len(t)
  OBVIOUS
<1>2. \A i \in 1..Len(t) : Append(s, x)[i] = t[i]
  BY AppendProperties
<1>3. QED
  BY <1>1, <1>2, SeqEqual
LEMMA Append2 ==
    ASSUME NEW a, NEW b
    PROVE  Append(<<a>>, b) = <<a, b>>
<1> DEFINE S == {a, b}
           s == <<a>>
           t == <<a, b>>
<1>1. s \in Seq(S) /\ t \in Seq(S) /\ Len(s) = 1 /\ Len(t) = 2
  OBVIOUS
<1>2. b \in S /\ (\A i \in 1..1 : t[i] = s[i]) /\ t[2] = b
  OBVIOUS
<1> HIDE DEF S, s, t
<1>3. Len(t) = Len(s) + 1 /\ (\A i \in 1..Len(s) : t[i] = s[i]) /\ t[Len(s) + 1] = b
  BY <1>1, <1>2
<1>4. Append(s, b) = t
  BY <1>1, <1>2, <1>3, AppendIs, ZenonT(30)
<1>5. QED
  BY <1>4 DEF s, t

LEMMA Append3 ==
    ASSUME NEW a, NEW b, NEW c
    PROVE  Append(<<a, b>>, c) = <<a, b, c>>
<1> DEFINE S == {a, b, c}
           s == <<a, b>>
           t == <<a, b, c>>
<1>1. s \in Seq(S) /\ t \in Seq(S) /\ Len(s) = 2 /\ Len(t) = 3
  OBVIOUS
<1>2. c \in S /\ (\A i \in 1..2 : t[i] = s[i]) /\ t[3] = c
  OBVIOUS
<1> HIDE DEF S, s, t
<1>3. Len(t) = Len(s) + 1 /\ (\A i \in 1..Len(s) : t[i] = s[i]) /\ t[Len(s) + 1] = c
  BY <1>1, <1>2
<1>4. Append(s, c) = t
  BY <1>1, <1>2, <1>3, AppendIs, ZenonT(30)
<1>5. QED
  BY <1>4 DEF s, t

LEMMA Append4 ==
    ASSUME NEW a, NEW b, NEW c, NEW d
    PROVE  Append(<<a, b, c>>, d) = <<a, b, c, d>>
<1> DEFINE S == {a, b, c, d}
           s == <<a, b, c>>
           t == <<a, b, c, d>>
<1>1. s \in Seq(S) /\ t \in Seq(S) /\ Len(s) = 3 /\ Len(t) = 4
  OBVIOUS
<1>2. d \in S /\ (\A i \in 1..3 : t[i] = s[i]) /\ t[4] = d
  OBVIOUS
<1> HIDE DEF S, s, t
<1>3. Len(t) = Len(s) + 1 /\ (\A i \in 1..Len(s) : t[i] = s[i]) /\ t[Len(s) + 1] = d
  BY <1>1, <1>2
<1>4. Append(s, d) = t
  BY <1>1, <1>2, <1>3, AppendIs, Zenon
<1>5. QED
  BY <1>4 DEF s, t

LEMMA EndsTranscript ==
    ASSUME IndInv, TranscriptInv, NEW o \in Outcome, Ends(o)
    PROVE  TranscriptInv'
<1>1. CASE ~newkeysReceived
  BY <1>1 DEF TranscriptInv, StrictTranscript, Ends, Finish
<1>2. CASE newkeysReceived
  <2>1. UNCHANGED <<strict, guessWrong, preKexPackets, newkeysReceived, newkeysSent>>
    BY <1>2 DEF TranscriptInv, Ends, sending
  <2>2. /\ preKexPackets <= Len(received')
        /\ SubSeq(received', 1, preKexPackets) = SubSeq(received, 1, preKexPackets)
    <3>1. CASE received' = received
      BY <1>2, <3>1 DEF TranscriptInv
    <3>2. ASSUME NEW m \in Input, received' = Append(received, m.kind)
          PROVE  <2>2!1 /\ <2>2!2
      <4>1. /\ received \in Seq({x.kind : x \in Input}) /\ preKexPackets \in Nat
            /\ preKexPackets <= Len(received) /\ m.kind \in {x.kind : x \in Input}
        BY <1>2, HandshakeConfig DEF TranscriptInv, IndInv, TypeOK
      <4>2. QED
        BY <3>2, <4>1, PrefixStays
    <3>3. QED
      BY <1>2, <3>1, <3>2 DEF Ends
  <2>3. StrictTranscript'
    BY <2>1, <2>2, TranscriptDef DEF StrictTranscript, TranscriptInv
  <2>4. phase' = "Finished"
    BY DEF Ends, Finish
  <2>5. QED
    BY <1>2, <2>1, <2>2, <2>3, <2>4 DEF TranscriptInv
<1>3. QED
  BY <1>1, <1>2 DEF IndInv, TypeOK

LEMMA TranscriptFrame ==
    ASSUME TranscriptInv,
           UNCHANGED <<strict, guessWrong, guessDiscarded, preKexPackets, newkeysSent,
                       newkeysReceived, received>>,
           \/ phase' = phase
           \/ phase = "ServerIdentification" /\ phase' = "ServerKexInit"
           \/ phase = "TrustDecision" /\ phase' = "ServerNewKeys"
    PROVE  TranscriptInv'
<1>1. StrictTranscript'
  BY DEF StrictTranscript, TranscriptInv
<1>2. Replied' <=> Replied
  BY DEF Replied
<1>3. QED
  BY <1>1, <1>2 DEF TranscriptInv

\* What a packet of the key exchange does to the transcript.
LEMMA ConsumedKind ==
    ASSUME IndInv, CountInv, TranscriptInv, NEW m \in Input, Consume(m)
    PROVE  /\ received' = Append(received, m.kind) /\ preKexPackets' = preKexPackets + 1
           /\ Len(received) = preKexPackets /\ Len(received') = preKexPackets'
           /\ ~newkeysReceived /\ outcome = "None"
<1>1. phase \in KexPhases /\ ~newkeysReceived /\ outcome = "None"
  BY UnprotectedPhase
<1>2. Len(received) = preKexPackets
  BY <1>1 DEF KexPhases, TranscriptInv
<1>3. received' = Append(received, m.kind) /\ preKexPackets' = preKexPackets + 1
  BY DEF Consume
<1>4. QED
  BY <1>1, <1>2, <1>3 DEF IndInv, TypeOK

\* Under strict KEX a skippable message is refused once KEXINIT is there.
LEMMA NoSkipWhenStrict ==
    ASSUME NEW m, strict, phase # "ServerKexInit", Skippable(m)
    PROVE  UnprotectedFailure(m) # "None"
<1>1. ~Discardable(m) /\ m.kind \in {"IGNORE_DEBUG", "UNIMPLEMENTED"}
  BY DEF Skippable, Discardable, MethodSpecific
<1>2. KexMessageFailure(m) = StrictIf(Unless(m, "None"))
  BY <1>1 DEF KexMessageFailure, MethodSpecific, Skippable
<1>3. QED
  BY <1>2 DEF UnprotectedFailure, StrictIf

\* A strict KEXINIT is accepted only as the first packet.
LEMMA StrictIsFirst ==
    ASSUME NEW m, phase = "ServerKexInit", m.kind = "KEXINIT", MarksStrict(m),
           UnprotectedFailure(m) = "None"
    PROVE  preKexPackets = 0
<1>1. KexInitFailure(m) = "None" /\ m.content # "noMatch"
  BY DEF UnprotectedFailure, MarksStrict
<1>2. SUFFICES ASSUME preKexPackets # 0 PROVE KexInitFailure(m) = "StrictKexViolation"
  BY <1>1
<1>3. QED
  BY <1>1, <1>2 DEF KexInitFailure, MarksStrict, Skippable

LEMMA TranscriptNext ==
    IndInv /\ SeqInv /\ ScriptInv /\ PendingInv /\ TranscriptInv /\ [Next]_vars => TranscriptInv'
<1> SUFFICES ASSUME IndInv, SeqInv, PendingInv, TranscriptInv, [Next]_vars
             PROVE  TranscriptInv'
  OBVIOUS
<1> TypeOK /\ SecretsWhenNeeded /\ GateInv /\ CountInv
  BY DEF IndInv, SeqInv
<1>1. CASE EndingStep
  <2>1. PICK o \in Failures : Ends(o)
    BY <1>1, EndingSteps
  <2>2. QED
    BY <2>1, EndsTranscript DEF Failures
<1>2. CASE ProvideUntrusted
  <2>1. Ends("HostNotTrusted") /\ "HostNotTrusted" \in Outcome
    BY <1>2 DEF ProvideUntrusted, Ends, receiving, Outcome
  <2>2. QED
    BY <2>1, EndsTranscript
<1>3. CASE AdoptPending
  <2>1. Ends(pendingOutcome) /\ pendingOutcome \in Outcome
    BY <1>3 DEF AdoptPending, Ends, receiving, kexVars, Outcome, TypeOK
  <2>2. QED
    BY <2>1, EndsTranscript
<1>4. ASSUME NEW m \in Input, Feed(m) PROVE TranscriptInv'
  BY <1>4, TranscriptFrame DEF Feed, kexVars, sending
<1>5. CASE TakeOutput
  BY <1>5, TranscriptFrame DEF TakeOutput, kexVars, sending, receiving
<1>6. CASE PreludeLine
  BY <1>6, TranscriptFrame DEF PreludeLine, kexVars, sending
<1>7. CASE ServerIdentification
  BY <1>7, TranscriptFrame DEF ServerIdentification, Stepping, kexVars, sending
<1>8. CASE ProvideTrusted
  <2>1. ~newkeysReceived
    BY <1>8 DEF ProvideTrusted, CountInv
  <2>2. /\ phase = "TrustDecision" /\ phase' = "ServerNewKeys"
        /\ UNCHANGED <<strict, guessWrong, guessDiscarded, preKexPackets, newkeysReceived,
                       received>>
    BY <1>8 DEF ProvideTrusted, receiving
  <2>3. Replied' <=> Replied
    BY <2>2 DEF Replied
  <2>4. QED
    BY <2>1, <2>2, <2>3 DEF TranscriptInv, StrictTranscript
<1>9. ASSUME NEW m \in Input, SkipUnprotected(m) PROVE TranscriptInv'
  <2>1. /\ Consume(m)
        /\ UNCHANGED <<phase, strict, guessWrong, guessDiscarded, newkeysReceived, newkeysSent>>
    BY <1>9 DEF SkipUnprotected, Unprotected, kexVars, sending
  <2>2. ~strict
    <3>1. CASE phase = "ServerKexInit"
      BY <3>1 DEF TranscriptInv
    <3>2. CASE phase # "ServerKexInit"
      BY <1>9, <3>2, NoSkipWhenStrict DEF SkipUnprotected
    <3>3. QED
      BY <3>1, <3>2
  <2>3. QED
    BY <2>1, <2>2, ConsumedKind DEF TranscriptInv, StrictTranscript
<1>10. ASSUME NEW m \in Input, OnServerKexInit(m) PROVE TranscriptInv'
  <2>1. /\ Consume(m) /\ UNCHANGED <<newkeysReceived, guessDiscarded>> /\ phase' = "EcdhReply"
        /\ phase = "ServerKexInit" /\ m.kind = "KEXINIT" /\ strict' = MarksStrict(m)
    BY <1>10 DEF OnServerKexInit, Unprotected
  <2>2. /\ received' = Append(received, m.kind) /\ Len(received) = preKexPackets
        /\ Len(received') = preKexPackets' /\ ~newkeysReceived
    BY <2>1, ConsumedKind
  <2>3. strict' => received' = <<"KEXINIT">>
    <3>1. SUFFICES ASSUME MarksStrict(m) PROVE received' = <<"KEXINIT">>
      BY <2>1
    <3>2. preKexPackets = 0
      BY <1>10, <2>1, <3>1, StrictIsFirst DEF OnServerKexInit
    <3>3. received = <<>>
      BY <2>2, <3>2 DEF TypeOK
    <3>4. QED
      BY <2>1, <2>2, <3>3
  <2>4. ~guessDiscarded'
    BY <2>1 DEF TranscriptInv
  <2>5. QED
    BY <2>1, <2>2, <2>3, <2>4 DEF TranscriptInv, StrictTranscript
<1>11. ASSUME NEW m \in Input, DiscardGuess(m) PROVE TranscriptInv'
  <2>1. /\ Consume(m) /\ UNCHANGED <<newkeysReceived, strict, guessWrong, phase>>
        /\ phase = "EcdhReply" /\ m.kind \in Guesses /\ guessDiscarded' /\ guessWrong
        /\ ~guessDiscarded
    BY <1>11 DEF DiscardGuess, Unprotected, Discardable, MethodSpecific, Guesses
  <2>2. /\ received' = Append(received, m.kind) /\ Len(received) = preKexPackets
        /\ Len(received') = preKexPackets' /\ ~newkeysReceived
    BY <2>1, ConsumedKind
  <2>3. strict => received' = <<"KEXINIT", m.kind>>
    <3>1. strict => received = <<"KEXINIT">>
      BY <2>1 DEF TranscriptInv
    <3>2. QED
      BY <2>2, <3>1, Append2, Append3, Append4
  <2>4. QED
    BY <2>1, <2>2, <2>3 DEF TranscriptInv, StrictTranscript
<1>12. ASSUME NEW m \in Input, OnEcdhReply(m) PROVE TranscriptInv'
  <2>1. /\ Consume(m) /\ UNCHANGED <<newkeysReceived, strict, guessWrong>>
        /\ phase = "EcdhReply" /\ m.kind = "KEX_ECDH_REPLY" /\ phase' = "TrustDecision"
    BY <1>12 DEF OnEcdhReply, Unprotected
  <2>2. /\ received' = Append(received, m.kind) /\ Len(received) = preKexPackets
        /\ Len(received') = preKexPackets' /\ ~newkeysReceived
    BY <2>1, ConsumedKind
  <2>3. strict => Replied'
    <3>1. SUFFICES ASSUME strict PROVE Replied'
      OBVIOUS
    <3>2. CASE received = <<"KEXINIT">>
      <4>1. received' = <<"KEXINIT", "KEX_ECDH_REPLY">>
        BY <2>1, <2>2, <3>2, Append2, Append3, Append4
      <4>2. QED
        BY <4>1 DEF Replied
    <3>3. ASSUME NEW guess \in Guesses, guessWrong, received = <<"KEXINIT", guess>>
          PROVE  Replied'
      <4>1. received' = <<"KEXINIT", guess, "KEX_ECDH_REPLY">>
        BY <2>1, <2>2, <3>3, Append2, Append3, Append4
      <4>2. QED
        BY <2>1, <3>3, <4>1 DEF Replied
    <3>4. QED
      BY <2>1, <3>1, <3>2, <3>3 DEF TranscriptInv
  <2>4. QED
    BY <2>1, <2>2, <2>3 DEF TranscriptInv, StrictTranscript
<1>13. ASSUME NEW m \in Input, OnServerNewKeys(m) PROVE TranscriptInv'
  <2>1. /\ Consume(m) /\ UNCHANGED <<strict, guessWrong, newkeysSent>> /\ newkeysReceived'
        /\ phase = "ServerNewKeys" /\ m.kind = "NEWKEYS" /\ phase' = "Service"
    BY <1>13 DEF OnServerNewKeys, Unprotected, kexVars
  <2>2. /\ received' = Append(received, "NEWKEYS") /\ Len(received) = preKexPackets
        /\ Len(received') = preKexPackets' /\ received' \in Seq({x.kind : x \in Input})
    BY <2>1, ConsumedKind, UnprotectedType
  <2>3. newkeysSent'
    BY <2>1 DEF GateInv
  <2>4. SubSeq(received', 1, preKexPackets') = received'
    BY <2>2
  <2>5. ASSUME strict PROVE StrictKex(received', guessWrong')
    <3>1. CASE received = <<"KEXINIT", "KEX_ECDH_REPLY">>
      <4>1. received' = <<"KEXINIT", "KEX_ECDH_REPLY", "NEWKEYS">>
        BY <2>2, <3>1, Append2, Append3, Append4
      <4>2. QED
        BY <4>1 DEF StrictKex
    <3>2. ASSUME NEW guess \in Guesses, guessWrong,
                 received = <<"KEXINIT", guess, "KEX_ECDH_REPLY">>
          PROVE  StrictKex(received', guessWrong')
      <4>1. received' = <<"KEXINIT", guess, "KEX_ECDH_REPLY", "NEWKEYS">>
        BY <2>2, <3>2, Append2, Append3, Append4
      <4>2. QED
        BY <2>1, <3>2, <4>1 DEF StrictKex
    <3>3. Replied
      BY <2>1, <2>5 DEF TranscriptInv
    <3>4. QED
      BY <3>1, <3>2, <3>3 DEF Replied
  <2>6. StrictTranscript'
    BY <2>1, <2>4, <2>5 DEF StrictTranscript, StrictKex, Guesses
  <2>7. QED
    BY <2>1, <2>2, <2>3, <2>6 DEF TranscriptInv, TypeOK
<1>14. ASSUME NEW m \in Input, SkipProtected(m) \/ OnServiceAccept(m) \/ OnRekey(m)
       PROVE  TranscriptInv'
  <2>1. /\ Protected(m) /\ phase = "Service"
        /\ UNCHANGED <<phase, strict, guessWrong, newkeysReceived, newkeysSent, preKexPackets>>
    BY <1>14 DEF SkipProtected, OnServiceAccept, OnRekey, SendDisconnect, Protected, Stepping,
       kexVars, sending
  <2>2. newkeysReceived /\ newkeysSent
    BY <2>1 DEF SecretsWhenNeeded
  <2>3. /\ received \in Seq({x.kind : x \in Input}) /\ preKexPackets \in Nat
        /\ preKexPackets <= Len(received) /\ m.kind \in {x.kind : x \in Input}
    BY <2>2, HandshakeConfig DEF TranscriptInv, TypeOK
  <2>4. /\ preKexPackets <= Len(received')
        /\ SubSeq(received', 1, preKexPackets) = SubSeq(received, 1, preKexPackets)
    BY <2>1, <2>3, PrefixStays DEF Protected
  <2>5. StrictTranscript'
    BY <2>1, <2>4 DEF StrictTranscript, TranscriptInv
  <2>6. QED
    BY <2>1, <2>2, <2>4, <2>5 DEF TranscriptInv
<1>15. CASE UNCHANGED vars
  BY <1>15, TranscriptFrame DEF vars
<1>16. QED
  BY <1>1, <1>2, <1>3, <1>4, <1>5, <1>6, <1>7, <1>8, <1>9, <1>10, <1>11, <1>12, <1>13, <1>14,
     <1>15 DEF Next, Step, HostCall, KexStep, ServiceStep, EndingStep

----------------------------------------------------------------------------
LEMMA InitRun == Init => RunInv
<1> SUFFICES ASSUME Init PROVE RunInv
  OBVIOUS
<1>1. SeqInv
  BY HandshakeConfig DEF Init, SeqInv, CountInv, SequenceNumbers
<1>2. ScriptInv
  <2>1. sent = <<>> /\ out = <<"IDENT", "KEXINIT">> /\ phase = "ServerIdentification"
    BY DEF Init
  <2>2. Said(2)
    BY <2>1 DEF Said, Script
  <2>3. QED
    BY <2>1, <2>2 DEF ScriptInv
<1>3. PendingInv
  BY DEF Init, PendingInv
<1>4. TranscriptInv
  BY DEF Init, TranscriptInv, StrictTranscript
<1>5. QED
  BY <1>1, <1>2, <1>3, <1>4 DEF RunInv

\* The invariants of the sequence numbers, the script and the transcript are
\* inductive on top of IndInv.
THEOREM RunInvariance == Spec => [](IndInv /\ RunInv)
<1>1. Init => IndInv /\ RunInv
  BY InitType, InitGate, InitRun DEF IndInv
<1>2. IndInv /\ RunInv /\ [Next]_vars => (IndInv /\ RunInv)'
  BY TypeNext, GateNext, SeqNext, ScriptNext, TranscriptNext DEF IndInv, RunInv
<1>3. QED
  BY <1>1, <1>2, PTL DEF Spec

\* Both directions count their packets without a gap or a repetition modulo
\* 2^32 and strict KEX restarts each at its own NEWKEYS, for every server,
\* every limit and every modulus.
THEOREM SequenceCorrect == Spec => []SequenceNumbers
<1>1. IndInv /\ RunInv => SequenceNumbers
  BY DEF RunInv, SeqInv
<1>2. QED
  BY <1>1, RunInvariance, PTL

\* The client speaks from its script, in order and without repetition, and
\* an outcome says truly how far it got.
THEOREM ScriptCorrect == Spec => []ScriptFollowed
<1>1. IndInv /\ RunInv => ScriptFollowed
  BY ScriptFromInv DEF RunInv
<1>2. QED
  BY <1>1, RunInvariance, PTL

\* Under strict KEX nothing but the key exchange comes before the server's
\* NEWKEYS, however many packets the budget would allow.
THEOREM TranscriptCorrect == Spec => []StrictTranscript
<1>1. IndInv /\ RunInv => StrictTranscript
  BY DEF RunInv, TranscriptInv
<1>2. QED
  BY <1>1, RunInvariance, PTL

----------------------------------------------------------------------------
(* The driver: every step of it is a step of the state machine.            *)

LEMMA RunStep == [RunNext]_runVars => [Next]_vars
<1> SUFFICES ASSUME [RunNext]_runVars PROVE [Next]_vars
  OBVIOUS
<1>1. CASE UNCHANGED runVars
  BY <1>1 DEF runVars
<1>2. CASE RunNext
  BY <1>2 DEF RunNext, Drive, StepOn, Finished, WriteAll, WriteFails, Decide, Read, ReadEof,
     ReadFails, ReadTimesOut, Expire, Next, HostCall
<1>3. QED
  BY <1>1, <1>2

\* What is proved of the state machine under any host holds under the driver.
THEOREM DrivenInvariance == RunSpec => [](IndInv /\ RunInv)
<1>1. RunSpec => Spec
  <2>1. RunInit => Init
    BY DEF RunInit
  <2>2. QED
    BY <2>1, RunStep, PTL DEF RunSpec, Spec
<1>2. QED
  BY <1>1, RunInvariance, PTL

----------------------------------------------------------------------------
(* The refinement mapping.                                                 *)

\* What the client has said, as the model records it.
LEMMA MessagesKept ==
    ASSUME TypeOK, sent' = sent \o out, out' = <<>>
    PROVE  Tail(sent' \o out') = Tail(sent \o out)
  BY DEF TypeOK

\* The next message is queued while the queue is empty.
LEMMA MessageSaid ==
    ASSUME TypeOK, out = <<>>, sent # <<>>, NEW x \in Sendable, out' = Append(out, x),
           UNCHANGED sent
    PROVE  Tail(sent' \o out') = Append(Tail(sent \o out), x)
<1>1. sent \o out = sent /\ sent' \o out' = Append(sent, x)
  BY DEF TypeOK
<1>2. Tail(Append(sent, x)) = Append(Tail(sent), x)
  BY DEF TypeOK
<1>3. QED
  BY <1>1, <1>2

LEMMA FinishMapped ==
    ASSUME NEW o, Finish(o)
    PROVE  Reference!Exact(o)
  BY DEF Finish, Reference!Exact

LEMMA InitMapped == RunInit => Reference!Init
<1> SUFFICES ASSUME RunInit PROVE Reference!Init
  OBVIOUS
<1>1. Tail(sent \o out) = <<"KEXINIT">>
  BY DEF RunInit, Init
<1>2. QED
  BY <1>1 DEF RunInit, Init, Reference!Init

\* No step of the driver changes what the model sees.
MapUnchanged ==
    UNCHANGED <<phase, pendingOutcome, outcome, strict, guessWrong, guessDiscarded,
                signatureValid, trust, newkeysReceived, preKexPackets, protectedReceived,
                protectedSent>>
    /\ Tail(sent' \o out') = Tail(sent \o out)

LEMMA StutterMapped ==
    ASSUME MapUnchanged
    PROVE  UNCHANGED Reference!vars
  BY DEF MapUnchanged, Reference!vars, Reference!found, Reference!counts

\* A unit of input that is handled while the handshake runs.
LEMMA SteppingInput ==
    ASSUME TypeOK, NEW phases, Stepping(phases)
    PROVE  /\ Head(inbox) \in Input /\ phase \in phases
           /\ outcome = "None" /\ pendingOutcome = "None" /\ out = <<>>
  BY DEF Stepping, TypeOK

\* Nothing the model records of the exchange or of the output.
LEMMA QuietMapped ==
    ASSUME UNCHANGED <<kexVars, newkeysReceived, sent, out>>
    PROVE  Reference!Quiet
  BY DEF kexVars, Reference!Quiet, Reference!found

----------------------------------------------------------------------------
(* One lemma per handler.                                                  *)

LEMMA IdentificationMapped ==
    ASSUME IndInv, RunInv, PreludeLine \/ ServerIdentification \/ IdentificationError
    PROVE  Reference!Next \/ UNCHANGED Reference!vars
<1> TypeOK
  BY DEF IndInv
<1>1. CASE PreludeLine
  BY <1>1, StutterMapped DEF PreludeLine, MapUnchanged, kexVars, sending
<1>2. CASE ServerIdentification
  <2>1. Reference!Identified(Head(inbox))
    BY <1>2, QuietMapped DEF ServerIdentification, Stepping, Malformed, sending,
       Reference!Identified, Reference!Broken, Reference!counts
  <2>2. QED
    BY <1>2, <2>1, SteppingInput DEF ServerIdentification, Reference!Next, Reference!Item
<1>3. CASE IdentificationError
  <2>1. Reference!Exact("ProtocolError") /\ Reference!Quiet
    BY <1>3, FinishMapped, QuietMapped DEF IdentificationError, Reject
  <2>2. Reference!Identified(Head(inbox))
    BY <1>3, <2>1 DEF IdentificationError, Reject, Stepping, Malformed, sending,
       Reference!Identified, Reference!Broken, Reference!counts
  <2>3. QED
    BY <1>3, <2>2, SteppingInput DEF IdentificationError, Reference!Next, Reference!Item
<1>4. QED
  BY <1>1, <1>2, <1>3

LEMMA LimitsMapped ==
    ASSUME IndInv, RunInv, FramingError \/ PreKexLimit \/ TagMismatch \/ ProtectedLimit
    PROVE  Reference!Next
<1> TypeOK
  BY DEF IndInv
<1>1. CASE FramingError
  <2>1. Reference!Exact("ProtocolError") /\ Reference!Quiet
    BY <1>1, FinishMapped, QuietMapped DEF FramingError, Reject
  <2>2. Reference!BadFrame(Head(inbox))
    BY <1>1, <2>1 DEF FramingError, Reject, Stepping, KexPhases, sending,
       Reference!BadFrame, Reference!counts
  <2>3. QED
    BY <1>1, <2>2, SteppingInput DEF FramingError, Reference!Next, Reference!Item
<1>2. CASE PreKexLimit
  <2>1. Reference!Exact("Limit") /\ Reference!Quiet
    BY <1>2, FinishMapped, QuietMapped DEF PreKexLimit, Reject
  <2>2. Reference!Limited
    BY <1>2, <2>1 DEF PreKexLimit, Reject, Stepping, KexPhases, sending,
       Reference!Limited, Reference!counts
  <2>3. QED
    BY <2>2 DEF Reference!Next
<1>3. CASE TagMismatch
  <2>1. PICK o \in {"TagMismatch", "ProtocolError"} : Reject(o)
    BY <1>3 DEF TagMismatch
  <2>2. Reference!Exact(o) /\ Reference!Quiet
    BY <1>3, <2>1, FinishMapped, QuietMapped DEF TagMismatch, Reject
  <2>3. Reference!Tampered(Head(inbox))
    BY <1>3, <2>1, <2>2 DEF TagMismatch, Reject, Stepping, sending, Reference!Tampered,
       Reference!counts
  <2>4. QED
    BY <1>3, <2>3, SteppingInput DEF TagMismatch, Reference!Next, Reference!Item
<1>4. CASE ProtectedLimit
  <2>1. Reference!Exact("Limit") /\ Reference!Quiet
    BY <1>4, FinishMapped, QuietMapped DEF ProtectedLimit, Reject
  <2>2. Reference!Limited
    BY <1>4, <2>1 DEF ProtectedLimit, Reject, Stepping, sending, Reference!Limited,
       Reference!counts
  <2>3. QED
    BY <2>2 DEF Reference!Next
<1>5. QED
  BY <1>1, <1>2, <1>3, <1>4

\* The host's decision.
LEMMA DecisionMapped ==
    ASSUME IndInv, RunInv, ProvideTrusted \/ ProvideUntrusted
    PROVE  Reference!Next
<1> TypeOK /\ ScriptInv /\ PendingInv
  BY DEF IndInv, RunInv
<1>1. phase = "TrustDecision" /\ pendingOutcome = "None"
  BY DEF ProvideTrusted, ProvideUntrusted, PendingInv
<1>2. CASE ProvideTrusted
  <2>1. out = <<>> /\ sent # <<>>
    BY <1>1, SteppingSent DEF ScriptInv
  <2>2. Tail(sent' \o out') = Append(Tail(sent \o out), "NEWKEYS")
    BY <1>2, <2>1, MessageSaid DEF ProvideTrusted, Sendable
  <2>3. Reference!Decided("Trusted")
    BY <1>1, <1>2, <2>2 DEF ProvideTrusted, receiving, Reference!Decided, Reference!counts
  <2>4. QED
    BY <2>3 DEF Reference!Next
<1>3. CASE ProvideUntrusted
  <2>1. Reference!Exact("HostNotTrusted")
    BY <1>3, FinishMapped DEF ProvideUntrusted
  <2>2. Reference!Decided("Untrusted")
    BY <1>1, <1>3, <2>1 DEF ProvideUntrusted, receiving, sending, Reference!Decided,
       Reference!counts
  <2>3. QED
    BY <2>2 DEF Reference!Next
<1>4. QED
  BY <1>2, <1>3

\* The end of the stream.
LEMMA EndMapped ==
    ASSUME IndInv, InputEnded, pendingOutcome = "None"
    PROVE  Reference!Next
<1>1. Reference!Exact("Eof") /\ Reference!Quiet /\ phase # "Finished"
  BY FinishMapped, QuietMapped DEF InputEnded, receiving, IndInv, SecretsWhenNeeded
<1>2. Reference!StreamEnds
  BY <1>1 DEF InputEnded, sending, receiving, Reference!StreamEnds, Reference!counts
<1>3. QED
  BY <1>2 DEF Reference!Next

----------------------------------------------------------------------------
(* Unprotected packets.                                                    *)

\* Every packet consumed before the keys are in use is one the model counts.
LEMMA ConsumeMapped ==
    ASSUME NEW m, Consume(m), UNCHANGED protectedSent
    PROVE  Reference!Counted(m)
  BY DEF Consume, Reference!Counted

\* Under strict KEX so few packets precede NEWKEYS that the server's sequence
\* number cannot wrap before it: the check in bump_sequence never fires.
LEMMA NoWrap ==
    ASSUME IndInv, RunInv, SequenceMod > 4, NEW m \in Input, Consume(m)
    PROVE  ~WrapFatal
<1> SUFFICES ASSUME strict PROVE recvSeq # SequenceMod - 1
  BY DEF WrapFatal
<1> TypeOK /\ CountInv /\ TranscriptInv /\ SequenceNumbers
  BY DEF IndInv, RunInv, SeqInv
<1>1. /\ phase \in {"EcdhReply", "ServerNewKeys"} /\ ~newkeysReceived
      /\ Len(received) = preKexPackets /\ outcome = "None" /\ protectedReceived = 0
  BY UnprotectedPhase, ConsumedKind DEF KexPhases, TranscriptInv, CountInv
<1>2. Len(received) <= 3
  BY <1>1 DEF TranscriptInv, Replied
<1>3. recvSeq = preKexPackets % SequenceMod
  BY <1>1 DEF SequenceNumbers, TypeOK
<1>4. preKexPackets \in Nat /\ preKexPackets <= 3
  BY <1>1, <1>2 DEF TypeOK
<1>5. QED
  BY <1>3, <1>4, HandshakeConfig

\* A packet refused before the server's KEXINIT, or that KEXINIT refused.
LEMMA RejectKexInitMapped ==
    ASSUME IndInv, RunInv, NEW m \in Input, RejectUnprotected(m), phase = "ServerKexInit"
    PROVE  Reference!Item(m)
<1> DEFINE o == UnprotectedFailure(m)
<1>1. /\ Consume(m) /\ Reference!Exact(o) /\ o = KexInitFailure(m) /\ o # "None"
      /\ pendingOutcome = "None" /\ UNCHANGED <<sent, out>>
      /\ UNCHANGED <<newkeysReceived, protectedSent, guessDiscarded, trust>>
  BY FinishMapped DEF RejectUnprotected, Unprotected, Reject, sending, Consume, Stepping,
     UnprotectedFailure
<1>2. Reference!Counted(m)
  BY <1>1, ConsumeMapped
<1>3. o # "SignatureInvalid" /\ UNCHANGED signatureValid
  <2>1. o # "SignatureInvalid"
    BY <1>1 DEF KexInitFailure, Unless
  <2>2. QED
    BY <2>1 DEF RejectUnprotected
<1>4. ~strict /\ ~guessWrong /\ guessWrong \in BOOLEAN
  BY DEF RunInv, TranscriptInv, IndInv, TypeOK
<1> HIDE DEF o
<1>5. CASE m.kind = "KEXINIT" /\ m.content = "noMatch"
  <2>1. o = "NegotiationFailed"
    BY <1>1, <1>5 DEF KexInitFailure, Skippable, MarksStrict
  <2>2. strict' \in BOOLEAN /\ guessWrong' = guessWrong
    BY <1>4, <1>5 DEF RejectUnprotected, RecordMarkers, MarksWrongGuess
  <2>3. Reference!NegotiationFails(m)
    BY <1>1, <1>2, <1>3, <1>5, <2>1, <2>2 DEF Reference!NegotiationFails
  <2>4. QED
    BY <2>3 DEF Reference!Item
<1>6. CASE m.kind = "KEXINIT" /\ m.content \notin {"noMatch", "malformed"}
  <2>1. /\ MarksStrict(m) /\ preKexPackets # 0 /\ o = "StrictKexViolation"
    BY <1>1, <1>6 DEF KexInitFailure, Unless, Malformed, MarksStrict, Skippable
  <2>2. strict' = TRUE /\ guessWrong' = MarksWrongGuess(m)
    BY <1>4, <1>6, <2>1 DEF RejectUnprotected, RecordMarkers, MarksWrongGuess
  <2>3. preKexPackets > 0
    BY <2>1 DEF IndInv, TypeOK
  <2>4. Reference!ServerKexInit(m)
    BY <1>1, <1>2, <1>3, <1>6, <2>1, <2>2, <2>3
       DEF Reference!ServerKexInit, MarksStrict, MarksWrongGuess
  <2>5. QED
    BY <2>4 DEF Reference!Item
<1>7. CASE m.kind # "KEXINIT" \/ m.content = "malformed"
  <2>1. UNCHANGED <<strict, guessWrong>>
    BY <1>4, <1>7 DEF RejectUnprotected, RecordMarkers, MarksStrict, MarksWrongGuess
  <2>2. Reference!Quiet
    BY <1>1, <1>3, <2>1, QuietMapped DEF kexVars
  <2>3. \/ m.kind = "EMPTY" /\ o = "ProtocolError"
        \/ /\ m.content = "malformed" /\ o = "ProtocolError"
           /\ m.kind \in {"IGNORE_DEBUG", "UNIMPLEMENTED", "KEXINIT", "DISCONNECT"}
        \/ m.kind = "DISCONNECT" /\ m.content # "malformed" /\ o = "ServerDisconnected"
        \/ /\ m.kind \notin {"IGNORE_DEBUG", "UNIMPLEMENTED", "EMPTY", "KEXINIT", "DISCONNECT"}
           /\ o = "UnexpectedMessage"
    BY <1>1, <1>7 DEF KexInitFailure, Unless, Malformed, MarksStrict, Skippable
  <2>4. Reference!PreKexInit(m)
    BY <1>1, <1>2, <2>2, <2>3
       DEF Reference!PreKexInit, Reference!Broken, Reference!Number, Reference!Transport
  <2>5. QED
    BY <2>4 DEF Reference!Item
<1>8. QED
  BY <1>5, <1>6, <1>7

\* A packet refused after it.
LEMMA RejectKexMapped ==
    ASSUME IndInv, RunInv, NEW m \in Input, RejectUnprotected(m), phase # "ServerKexInit"
    PROVE  Reference!Item(m)
<1> DEFINE o == UnprotectedFailure(m)
<1>1. /\ Consume(m) /\ Reference!Exact(o) /\ o = KexMessageFailure(m) /\ o # "None"
      /\ pendingOutcome = "None" /\ phase \in {"EcdhReply", "ServerNewKeys"}
      /\ UNCHANGED <<sent, out, newkeysReceived, protectedSent, strict, guessWrong,
                     guessDiscarded, trust>>
      /\ signatureValid' = IF o = "SignatureInvalid" THEN "false" ELSE signatureValid
  BY FinishMapped DEF RejectUnprotected, Unprotected, Reject, sending, Consume, Stepping,
     UnprotectedFailure, KexPhases
<1>2. Reference!KexItem(m)
  BY <1>1, ConsumeMapped DEF Reference!KexItem
<1> HIDE DEF o
<1>3. ~Discardable(m) /\ ~Reference!WrongGuess(m)
  BY <1>1 DEF KexMessageFailure, Discardable, MethodSpecific, Reference!WrongGuess,
     Reference!Number, Reference!KexMethod
<1>4. CASE m.kind = "KEX_ECDH_REPLY" /\ phase = "EcdhReply"
  <2>1. \/ m.content = "malformed" /\ o = "ProtocolError"
        \/ m.content = "badSignature" /\ o = "SignatureInvalid"
    BY <1>1, <1>3, <1>4 DEF KexMessageFailure, Unless, Malformed
  <2>2. Reference!Reply(m)
    BY <1>1, <1>2, <1>3, <1>4, <2>1 DEF Reference!Reply, Reference!Broken
  <2>3. QED
    BY <2>2 DEF Reference!Item
<1>5. CASE ~(m.kind = "KEX_ECDH_REPLY" /\ phase = "EcdhReply")
  <2>1. o # "SignatureInvalid" /\ UNCHANGED signatureValid
    <3>1. o # "SignatureInvalid"
      BY <1>1, <1>3, <1>5 DEF KexMessageFailure, Unless, StrictIf
    <3>2. QED
      BY <1>1, <3>1
  <2>2. Reference!Quiet
    BY <1>1, <2>1, QuietMapped DEF kexVars
  <2>3. \/ m.kind = "EMPTY" /\ Reference!Exact("ProtocolError")
        \/ /\ m.content = "malformed" /\ Reference!DecodedFirst(m)
           /\ Reference!Exact("ProtocolError")
        \/ /\ m.kind = "DISCONNECT" /\ m.content # "malformed" /\ ~strict
           /\ Reference!Exact("ServerDisconnected")
        \/ /\ m.content = "malformed" /\ ~Reference!DecodedFirst(m) /\ ~Reference!Awaited(m)
           /\ Reference!Exact(Reference!KexPhaseRule(m))
        \/ /\ m.content # "malformed" /\ ~Reference!Awaited(m) /\ m.kind # "EMPTY"
           /\ m.kind \in {"IGNORE_DEBUG", "UNIMPLEMENTED", "DISCONNECT"} => strict
           /\ Reference!Exact(Reference!KexPhaseRule(m))
    BY <1>1, <1>3, <1>5 DEF KexMessageFailure, Unless, StrictIf, Malformed, Skippable,
       MethodSpecific, Reference!DecodedFirst, Reference!Awaited, Reference!KexPhaseRule,
       Reference!Number, Reference!Transport, Reference!KexMethod
  <2>4. Reference!Refused(m)
    BY <1>2, <1>3, <2>2, <2>3 DEF Reference!Refused, Reference!Broken, Reference!Number,
       Reference!Transport
  <2>5. QED
    BY <2>4 DEF Reference!Item
<1>6. QED
  BY <1>4, <1>5

LEMMA SkipMapped ==
    ASSUME IndInv, RunInv, NEW m \in Input, SkipUnprotected(m)
    PROVE  Reference!Item(m)
<1>1. /\ Consume(m) /\ phase \in KexPhases /\ pendingOutcome = "None"
      /\ UNCHANGED <<phase, pendingOutcome, outcome, protectedSent>>
      /\ UnprotectedFailure(m) = "None" /\ m.kind \in {"IGNORE_DEBUG", "UNIMPLEMENTED"}
  BY DEF SkipUnprotected, Unprotected, Consume, Stepping, sending, Skippable
<1>2. Reference!Counted(m) /\ Reference!Quiet
  BY <1>1, ConsumeMapped, QuietMapped DEF SkipUnprotected
<1>3. CASE phase = "ServerKexInit"
  <2>1. m.content # "malformed"
    BY <1>1, <1>3 DEF UnprotectedFailure, KexInitFailure, Unless, Malformed, Skippable
  <2>2. Reference!PreKexInit(m)
    BY <1>1, <1>2, <1>3, <2>1 DEF Reference!PreKexInit, Reference!Number,
       Reference!Transport, Reference!Broken
  <2>3. QED
    BY <2>2 DEF Reference!Item
<1>4. CASE phase # "ServerKexInit"
  <2>1. ~strict
    BY <1>1, <1>4, NoSkipWhenStrict DEF Skippable
  <2>2. KexMessageFailure(m) = Unless(m, "None")
    BY <1>1, <2>1 DEF KexMessageFailure, StrictIf, Skippable, Discardable, MethodSpecific
  <2>3. m.content # "malformed"
    BY <1>1, <1>4, <2>2 DEF UnprotectedFailure, Unless, Malformed
  <2>4. Reference!Skipped(m)
    BY <1>1, <1>2, <1>4, <2>1, <2>3 DEF KexPhases, Reference!Skipped, Reference!KexItem,
       Reference!Number, Reference!Transport, Reference!Broken
  <2>5. QED
    BY <2>4 DEF Reference!Item
<1>5. QED
  BY <1>3, <1>4

LEMMA KexInitMapped ==
    ASSUME IndInv, RunInv, NEW m \in Input, OnServerKexInit(m)
    PROVE  Reference!Item(m)
<1> TypeOK /\ ScriptInv
  BY DEF IndInv, RunInv
<1>1. /\ Consume(m) /\ phase = "ServerKexInit" /\ pendingOutcome = "None" /\ out = <<>>
      /\ phase' = "EcdhReply" /\ m.kind = "KEXINIT" /\ UnprotectedFailure(m) = "None"
      /\ strict' = MarksStrict(m) /\ guessWrong' = MarksWrongGuess(m)
      /\ UNCHANGED <<pendingOutcome, outcome, guessDiscarded, signatureValid, trust,
                     newkeysReceived, protectedSent>>
  BY DEF OnServerKexInit, Unprotected, Consume, Stepping
<1>2. Reference!Counted(m)
  BY <1>1, ConsumeMapped
<1>3. Tail(sent' \o out') = Append(Tail(sent \o out), "KEX_ECDH_INIT")
  BY <1>1, SteppingSent, MessageSaid DEF OnServerKexInit, Sendable
<1>4. m.content \notin {"malformed", "noMatch"}
  BY <1>1 DEF UnprotectedFailure, KexInitFailure, Unless, Malformed, MarksStrict, Skippable
<1>5. ~(strict' /\ preKexPackets > 0)
  <2>1. strict' => preKexPackets = 0
    BY <1>1, StrictIsFirst
  <2>2. QED
    BY <2>1
<1>6. Reference!ServerKexInit(m)
  BY <1>1, <1>2, <1>3, <1>4, <1>5
     DEF Reference!ServerKexInit, MarksStrict, MarksWrongGuess
<1>7. QED
  BY <1>6 DEF Reference!Item

LEMMA GuessMapped ==
    ASSUME IndInv, RunInv, NEW m \in Input, DiscardGuess(m)
    PROVE  Reference!Item(m)
<1>1. /\ Consume(m) /\ phase = "EcdhReply" /\ pendingOutcome = "None" /\ Discardable(m)
      /\ guessDiscarded' = TRUE
      /\ UNCHANGED <<phase, pendingOutcome, outcome, strict, guessWrong, signatureValid,
                     trust, newkeysReceived, protectedSent, sent, out>>
  BY DEF DiscardGuess, Unprotected, Consume, Stepping, Discardable, sending
<1>2. Reference!Counted(m)
  BY <1>1, ConsumeMapped
<1>3. Reference!WrongGuess(m)
  BY <1>1 DEF Discardable, MethodSpecific, Reference!WrongGuess, Reference!Number,
     Reference!KexMethod
<1>4. Reference!Discarded(m)
  BY <1>1, <1>2, <1>3 DEF Reference!Discarded, Reference!KexItem
<1>5. QED
  BY <1>4 DEF Reference!Item

LEMMA ReplyMapped ==
    ASSUME IndInv, RunInv, NEW m \in Input, OnEcdhReply(m)
    PROVE  Reference!Item(m)
<1>1. /\ Consume(m) /\ phase = "EcdhReply" /\ pendingOutcome = "None" /\ ~Discardable(m)
      /\ m.kind = "KEX_ECDH_REPLY" /\ m.content = "good"
      /\ phase' = "TrustDecision" /\ signatureValid' = "true"
      /\ UNCHANGED <<pendingOutcome, outcome, strict, guessWrong, guessDiscarded, trust,
                     newkeysReceived, protectedSent, sent, out>>
  BY DEF OnEcdhReply, Unprotected, Consume, Stepping, sending
<1>2. Reference!Counted(m)
  BY <1>1, ConsumeMapped
<1>3. ~Reference!WrongGuess(m)
  BY <1>1 DEF Discardable, MethodSpecific, Reference!WrongGuess, Reference!Number,
     Reference!KexMethod
<1>4. Reference!Reply(m)
  BY <1>1, <1>2, <1>3 DEF Reference!Reply, Reference!KexItem, Reference!Broken
<1>5. QED
  BY <1>4 DEF Reference!Item

LEMMA NewKeysMapped ==
    ASSUME IndInv, RunInv, NEW m \in Input, OnServerNewKeys(m)
    PROVE  Reference!Item(m)
<1> TypeOK /\ ScriptInv
  BY DEF IndInv, RunInv
<1>1. /\ Consume(m) /\ phase = "ServerNewKeys" /\ pendingOutcome = "None" /\ out = <<>>
      /\ m.kind = "NEWKEYS" /\ m.content # "malformed" /\ m.form = "plain"
      /\ phase' = "Service" /\ newkeysReceived' = TRUE /\ protectedSent' = protectedSent + 1
      /\ preKexPackets < MaxPreKexPackets /\ preKexPackets' = preKexPackets + 1
      /\ UNCHANGED <<pendingOutcome, outcome, kexVars, protectedReceived>>
  BY DEF OnServerNewKeys, Unprotected, Consume, Stepping, Malformed
<1>2. Tail(sent' \o out') = Append(Tail(sent \o out), "SERVICE_REQUEST")
  BY <1>1, SteppingSent, MessageSaid DEF OnServerNewKeys, Sendable
<1>3. Reference!NewKeys(m)
  BY <1>1, <1>2 DEF Reference!NewKeys, Reference!Broken, kexVars
<1>4. QED
  BY <1>3 DEF Reference!Item

----------------------------------------------------------------------------
(* Protected packets.                                                      *)

LEMMA AcceptContent ==
    ASSUME NEW m \in Input, m.kind = "SERVICE_ACCEPT"
    PROVE  m.content \in {"malformed", "mismatch", "good"}
<1>1. m \notin Lines
  BY DEF Lines
<1>2. PICK b \in Bodies : m.kind = b.kind /\ m.content = b.content
  BY <1>1 DEF Input, Packet
<1>3. QED
  BY <1>2 DEF Bodies, KexInits

LEMMA ProtectedMapped ==
    ASSUME IndInv, RunInv, NEW m \in Input, ServiceStep(m)
    PROVE  Reference!Item(m)
<1> TypeOK /\ ScriptInv
  BY DEF IndInv, RunInv
<1>1. /\ phase = "Service" /\ m.form = "sealed" /\ pendingOutcome = "None" /\ out = <<>>
      /\ protectedReceived' = protectedReceived + 1 /\ UNCHANGED <<kexVars, preKexPackets>>
      /\ UNCHANGED newkeysReceived /\ outcome = "None"
  BY DEF ServiceStep, RejectProtected, SkipProtected, OnServiceAccept, OnRekey, Protected,
     Stepping, Reject
<1> DEFINE e == Reference!Expected(m, protectedReceived = 0)
<1>2. CASE RejectProtected(m)
  <2>1. /\ Reference!Exact(ProtectedFailure(m)) /\ ProtectedFailure(m) # "None"
        /\ UNCHANGED <<sent, out, protectedSent>>
    BY <1>2, FinishMapped DEF RejectProtected, Reject, sending
  <2>2. e = ProtectedFailure(m) /\ e \notin {"Skipped", "Completed", "RekeyNotSupported"}
    BY <2>1 DEF ProtectedFailure, Unless, Malformed, Reference!Expected, Reference!Broken,
       Reference!Number
  <2> HIDE DEF e
  <2>3. Reference!Prot(m)
    BY <1>1, <2>1, <2>2 DEF Reference!Prot, Reference!found, kexVars, e
  <2>4. QED
    BY <2>3 DEF Reference!Item
<1>3. CASE SkipProtected(m)
  <2>1. /\ ProtectedFailure(m) = "None" /\ m.kind \in {"EXT_INFO", "IGNORE_DEBUG"}
        /\ UNCHANGED <<phase, pendingOutcome, outcome, sent, out, protectedSent>>
    BY <1>3 DEF SkipProtected, sending
  <2>2. e = "Skipped"
    BY <2>1 DEF ProtectedFailure, Unless, Malformed, Reference!Expected, Reference!Broken,
       Reference!Number
  <2> HIDE DEF e
  <2>3. Reference!Prot(m)
    BY <1>1, <2>1, <2>2 DEF Reference!Prot, Reference!found, kexVars, e
  <2>4. QED
    BY <2>3 DEF Reference!Item
<1>4. CASE OnServiceAccept(m) \/ OnRekey(m)
  <2>1. /\ SendDisconnect /\ UNCHANGED sent /\ pendingOutcome' # "None"
        /\ protectedSent' = protectedSent + 1
    BY <1>4 DEF OnServiceAccept, OnRekey, SendDisconnect
  <2>2. Tail(sent' \o out') = Append(Tail(sent \o out), "DISCONNECT")
    BY <1>1, <2>1, SteppingSent, MessageSaid DEF SendDisconnect, Sendable
  <2>3. e = pendingOutcome' /\ e \in {"Completed", "RekeyNotSupported"}
    <3>1. CASE OnRekey(m)
      BY <3>1 DEF OnRekey, Reference!Expected, Reference!Broken, Reference!Number
    <3>2. CASE OnServiceAccept(m)
      <4>1. m.kind = "SERVICE_ACCEPT" /\ m.content = "good" /\ pendingOutcome' = "Completed"
        <5>1. /\ m.kind = "SERVICE_ACCEPT" /\ ProtectedFailure(m) = "None"
              /\ pendingOutcome' = "Completed"
          BY <3>2 DEF OnServiceAccept
        <5>2. m.content \notin {"mismatch", "malformed"}
          BY <5>1 DEF ProtectedFailure, Unless, Malformed
        <5>3. QED
          BY <5>1, <5>2, AcceptContent
      <4>2. QED
        BY <4>1 DEF Reference!Expected, Reference!Broken, Reference!Number
    <3>3. QED
      BY <1>4, <3>1, <3>2
  <2> HIDE DEF e
  <2>4. Reference!Exact(e)
    BY <2>1, <2>3 DEF Reference!Exact
  <2>5. Reference!Prot(m)
    BY <1>1, <2>1, <2>2, <2>3, <2>4 DEF Reference!Prot, Reference!found, kexVars, e
  <2>6. QED
    BY <2>5 DEF Reference!Item
<1>5. QED
  BY <1>2, <1>3, <1>4 DEF ServiceStep

----------------------------------------------------------------------------
\* Every step of the driver is a step of the model or a stutter.
LEMMA StepMapped ==
    ASSUME IndInv, RunInv, SequenceMod > 4, [RunNext]_runVars
    PROVE  [Reference!Next]_(Reference!vars)
<1> TypeOK /\ ScriptInv /\ PendingInv
  BY DEF IndInv, RunInv
<1>1. CASE UNCHANGED vars
  BY <1>1, StutterMapped DEF vars, MapUnchanged
<1>2. CASE TakeOutput
  BY <1>2, StutterMapped, MessagesKept DEF TakeOutput, MapUnchanged, kexVars, sending,
     receiving
<1>3. ASSUME NEW m \in Input, Feed(m) PROVE UNCHANGED Reference!vars
  BY <1>3, StutterMapped DEF Feed, MapUnchanged, kexVars, sending
<1>4. CASE AdoptPending
  <2>1. /\ outcome' = pendingOutcome /\ phase' = "Finished" /\ pendingOutcome' = "None"
        /\ pendingOutcome # "None"
        /\ UNCHANGED <<strict, guessWrong, guessDiscarded, signatureValid, trust,
                       newkeysReceived, preKexPackets, protectedReceived, protectedSent,
                       sent, out>>
    BY <1>4 DEF AdoptPending, Finish, kexVars, sending, receiving
  <2>2. UNCHANGED Reference!vars
    BY <2>1 DEF Reference!vars, Reference!found, Reference!counts
  <2>3. QED
    BY <2>2
<1>5. CASE InputEnded /\ NeedMore
  BY <1>5, EndMapped DEF NeedMore
<1>6. CASE ProvideTrusted \/ ProvideUntrusted
  BY <1>6, DecisionMapped
<1>7. CASE PreludeLine \/ ServerIdentification \/ IdentificationError
  BY <1>7, IdentificationMapped
<1>8. CASE FramingError \/ PreKexLimit \/ TagMismatch \/ ProtectedLimit
  BY <1>8, LimitsMapped
<1>9. ASSUME NEW m \in Input, KexStep(m) PROVE Reference!Next
  <2>1. ~SequenceWrapped(m)
    BY NoWrap DEF SequenceWrapped
  <2>2. Reference!Item(m)
    BY <1>9, <2>1, RejectKexInitMapped, RejectKexMapped, SkipMapped, KexInitMapped,
       GuessMapped, ReplyMapped, NewKeysMapped DEF KexStep
  <2>3. QED
    BY <2>2 DEF Reference!Next
<1>10. ASSUME NEW m \in Input, ServiceStep(m) PROVE Reference!Next
  BY <1>10, ProtectedMapped DEF Reference!Next
<1>11. QED
  BY <1>1, <1>2, <1>3, <1>4, <1>5, <1>6, <1>7, <1>8, <1>9, <1>10
     DEF RunNext, Drive, StepOn, Step, Finished, WriteAll, WriteFails, Decide, Read, ReadEof,
     ReadFails, ReadTimesOut, Expire, runVars

\* run_handshake_on with ClientHandshake implements the model of the fuzz
\* target: the messages sent, the packets counted, the findings and the
\* outcome are the model's, for every server and every limit.  The modulus of
\* the sequence numbers (2^32 in the code) must exceed the four packets that
\* a strict server may send before its number restarts.
THEOREM FollowsModelCorrect ==
    ASSUME SequenceMod > 4
    PROVE  RunSpec => FollowsModel
<1>1. RunInit => Reference!Init
  BY InitMapped
<1>2. IndInv /\ RunInv /\ [RunNext]_runVars => [Reference!Next]_(Reference!vars)
  BY StepMapped
<1>3. QED
  BY <1>1, <1>2, DrivenInvariance, PTL DEF RunSpec, FollowsModel, Reference!Spec


----------------------------------------------------------------------------
(***************************************************************************)
(* The protected packets that carry everything after NEWKEYS (Gcm), for    *)
(* every block size, padding rule, counter width, payload and behaviour of *)
(* the stream: no nonce is used twice, what is delivered is a prefix of    *)
(* what was sealed, and what seal makes open accepts.                      *)
(***************************************************************************)

Counters == 0 .. CounterMax

AeadDirection == [counter : Counters, packets : Nat]

\* Every variable has its type.
GcmTypeOK ==
    /\ start \in Counters
    /\ sender \in AeadDirection
    /\ receiver \in AeadDirection
    /\ sealed \in Seq(ProtectedPacket)
    /\ wire \in Seq(ProtectedPacket)
    /\ arrived \in Int
    /\ delivered \in Seq(Nat)
    /\ failed \in OpenErrors \cup {"no"}
    /\ faults \in Nat

\* The sealing counter has moved one step per packet and never wrapped.
SenderCounts == sender.counter = start + Len(sealed)

WellFramed(p) ==
    /\ p.length % BlockSize = 0
    /\ p.length >= MinPacketLength
    /\ PaddingOk(p)

\* Each sealed packet carries its own position and the counter of its turn.
SealedInTurn ==
    \A i \in 1 .. Len(sealed) :
        /\ sealed[i].id = i
        /\ sealed[i].nonce = start + i - 1
        /\ sealed[i].nonce # CounterMax
        /\ sealed[i].ours => WellFramed(sealed[i])

\* What the stream carries unaltered is a packet that was sealed.
IntactWasSealed ==
    \A k \in 1 .. Len(wire) :
        wire[k].intact => /\ wire[k].id \in 1 .. Len(sealed)
                          /\ wire[k] = sealed[wire[k].id]

\* The opening counter is that of the next packet to be delivered.
ReceiverFollows ==
    failed = "no" => receiver.counter = start + Len(delivered)

FailureKept == failed # "no" => wire # <<>>

GcmInv ==
    /\ GcmTypeOK
    /\ SenderCounts
    /\ SealedInTurn
    /\ IntactWasSealed
    /\ ReceiverFollows
    /\ FailureKept
    /\ DeliveredInOrder
    /\ HonestFraming

-----------------------------------------------------------------------------
(* Arithmetic of the framing                                               *)

LEMMA ModOfMultiple ==
    ASSUME NEW b \in Nat \ {0}, NEW k \in Nat
    PROVE  (b * k) % b = 0
  OBVIOUS

LEMMA DivisionFacts ==
    ASSUME NEW a \in Nat, NEW b \in Nat \ {0}
    PROVE  /\ a \div b \in Nat /\ a % b \in Nat /\ a % b < b
           /\ a = (b * (a \div b)) + (a % b)
  OBVIOUS

LEMMA NextMultiples ==
    ASSUME NEW b \in Nat, NEW k \in Nat
    PROVE  /\ b * k \in Nat
           /\ b * (k + 1) = (b * k) + b
           /\ b * (k + 2) = (b * k) + b + b
  OBVIOUS

\* The padding seal chooses aligns the packet and is never below the minimum.
LEMMA PaddingAligns ==
    ASSUME NEW payload \in Nat
    PROVE  /\ Padding(payload) \in Nat
           /\ Padding(payload) >= MinPadding
           /\ PacketLength(payload) \in Nat
           /\ PacketLength(payload) % BlockSize = 0
           /\ PacketLength(payload) >= BlockSize
           /\ Padding(payload) + 1 <= PacketLength(payload)
  <1> DEFINE u == Unpadded(payload)
             q == u \div BlockSize
             r == u % BlockSize
  <1>1. u \in Nat /\ u >= 1 /\ BlockSize \in Nat /\ BlockSize > 0
    BY GcmConstants DEF Unpadded
  <1> HIDE DEF u
  <1>2. q \in Nat /\ r \in Nat /\ r < BlockSize /\ u = (BlockSize * q) + r
    BY <1>1, DivisionFacts
  <1> HIDE DEF q, r
  <1>3. /\ BlockSize * (q + 1) = (BlockSize * q) + BlockSize
        /\ BlockSize * (q + 2) = (BlockSize * q) + BlockSize + BlockSize
        /\ BlockSize * q \in Nat
    BY <1>1, <1>2, NextMultiples
  <1>4. /\ (BlockSize * (q + 1)) % BlockSize = 0
        /\ (BlockSize * (q + 2)) % BlockSize = 0
    <2>1. q + 1 \in Nat /\ q + 2 \in Nat /\ BlockSize \in Nat \ {0}
      BY <1>1, <1>2
    <2> QED
      BY <2>1, ModOfMultiple
  <1>5. CASE BlockSize - r < MinPadding
    <2>1. Padding(payload) = BlockSize - r + BlockSize
      BY <1>5 DEF Padding, r, u
    <2>2. PacketLength(payload) = BlockSize * (q + 2)
      BY <2>1, <1>1, <1>2, <1>3 DEF PacketLength, u
    <2> QED
      BY <2>1, <2>2, <1>1, <1>2, <1>3, <1>4, GcmConstants, FramingConstants
         DEF PacketLength, u
  <1>6. CASE ~(BlockSize - r < MinPadding)
    <2>1. Padding(payload) = BlockSize - r
      BY <1>6 DEF Padding, r, u
    <2>2. PacketLength(payload) = BlockSize * (q + 1)
      BY <2>1, <1>1, <1>2, <1>3 DEF PacketLength, u
    <2> QED
      BY <2>1, <2>2, <1>1, <1>2, <1>3, <1>4, <1>6, GcmConstants,
         FramingConstants DEF PacketLength, u
  <1> QED
    BY <1>5, <1>6

-----------------------------------------------------------------------------
(* The stream                                                              *)

LEMMA RemoveAtElements ==
    ASSUME NEW S, NEW s \in Seq(S), NEW i \in 1 .. Len(s)
    PROVE  /\ RemoveAt(s, i) \in Seq(S)
           /\ \A k \in 1 .. Len(RemoveAt(s, i)) :
                 \E j \in 1 .. Len(s) : RemoveAt(s, i)[k] = s[j]
  <1> DEFINE a == SubSeq(s, 1, i - 1)
             b == SubSeq(s, i + 1, Len(s))
  <1>1. /\ a \in Seq(S) /\ Len(a) = i - 1
        /\ \A k \in 1 .. Len(a) : a[k] = s[k]
    OBVIOUS
  <1>2. /\ b \in Seq(S) /\ Len(b) = Len(s) - i
        /\ \A k \in 1 .. Len(b) : b[k] = s[i + k]
    OBVIOUS
  <1>3. RemoveAt(s, i) = a \o b
    BY DEF RemoveAt
  <1> HIDE DEF a, b
  <1>4. /\ a \o b \in Seq(S) /\ Len(a \o b) = Len(s) - 1
        /\ \A k \in 1 .. Len(a \o b) :
              (a \o b)[k] = IF k <= Len(a) THEN a[k] ELSE b[k - Len(a)]
    <2>1. /\ a \o b \in Seq(S) /\ Len(a \o b) = Len(a) + Len(b)
          /\ \A k \in 1 .. Len(a) + Len(b) :
                (a \o b)[k] = IF k <= Len(a) THEN a[k] ELSE b[k - Len(a)]
      BY <1>1, <1>2, ConcatProperties
    <2> QED
      BY <2>1, <1>1, <1>2
  <1>5. ASSUME NEW k \in 1 .. Len(a \o b)
        PROVE  \E j \in 1 .. Len(s) : (a \o b)[k] = s[j]
    <2>1. CASE k <= Len(a)
      BY <2>1, <1>1, <1>4
    <2>2. CASE ~(k <= Len(a))
      <3>1. k - Len(a) \in 1 .. Len(b) /\ k + 1 \in 1 .. Len(s)
        BY <2>2, <1>1, <1>2, <1>4
      <3>2. (a \o b)[k] = s[k + 1]
        BY <3>1, <2>2, <1>1, <1>2, <1>4
      <3> QED
        BY <3>1, <3>2
    <2> QED
      BY <2>1, <2>2
  <1> QED
    BY <1>3, <1>4, <1>5

-----------------------------------------------------------------------------
(* The inductive invariant                                                 *)

LEMMA InitInv == GcmInit => GcmInv
  BY GcmConstants
     DEF GcmInit, GcmInitAt, GcmInv, GcmTypeOK, Counters, AeadDirection,
         Direction, SenderCounts, SealedInTurn, IntactWasSealed,
         ReceiverFollows, FailureKept, DeliveredInOrder, HonestFraming

LEMMA ModSmall ==
    ASSUME NEW a \in Nat, NEW b \in Nat \ {0}, a < b
    PROVE  a % b = a
  OBVIOUS

\* A guarded increment of the counter does not wrap.
LEMMA AdvanceCounts ==
    ASSUME NEW dir \in AeadDirection, CounterAvailable(dir)
    PROVE  Advance(dir) \in AeadDirection /\ Advance(dir).counter = dir.counter + 1
  <1>1. /\ dir.counter + 1 \in Nat /\ CounterMax + 1 \in Nat \ {0}
        /\ dir.counter + 1 < CounterMax + 1 /\ dir.packets + 1 \in Nat
        /\ dir.counter + 1 \in Counters
    BY GcmConstants DEF AeadDirection, Counters, CounterAvailable
  <1>2. (dir.counter + 1) % (CounterMax + 1) = dir.counter + 1
    BY <1>1, ModSmall
  <1> QED
    BY <1>1, <1>2 DEF Advance, AeadDirection

\* Sealing one more packet in turn, framed well if it is the code's own.
LEMMA SealedAsKeepsInv ==
    ASSUME GcmInv, NEW p \in ProtectedPacket, SealedAs(p), CounterAvailable(sender),
           p.id = Len(sealed) + 1, p.nonce = sender.counter, p.intact,
           p.ours => WellFramed(p)
    PROVE  GcmInv'
  <1> USE DEF SealedAs
  <1>1. sender' \in AeadDirection /\ sender'.counter = sender.counter + 1
    BY AdvanceCounts DEF GcmInv, GcmTypeOK
  <1>2. /\ sealed' \in Seq(ProtectedPacket) /\ Len(sealed') = Len(sealed) + 1
        /\ \A i \in 1 .. Len(sealed) : sealed'[i] = sealed[i]
        /\ sealed'[Len(sealed) + 1] = p
        /\ Len(sealed) \in Nat
    BY DEF GcmInv, GcmTypeOK
  <1>3. /\ wire' \in Seq(ProtectedPacket) /\ Len(wire') = Len(wire) + 1
        /\ \A k \in 1 .. Len(wire) : wire'[k] = wire[k]
        /\ wire'[Len(wire) + 1] = p
        /\ Len(wire) \in Nat /\ wire' # <<>>
        /\ wire # <<>> => Head(wire') = Head(wire)
    <2>1. wire \in Seq(ProtectedPacket) /\ wire' = Append(wire, p)
      BY DEF GcmInv, GcmTypeOK
    <2>2. /\ wire' \in Seq(ProtectedPacket) /\ Len(wire') = Len(wire) + 1
          /\ \A k \in 1 .. Len(wire) : wire'[k] = wire[k]
          /\ wire'[Len(wire) + 1] = p /\ Len(wire) \in Nat
      BY <2>1
    <2>3. wire' # <<>>
      BY <2>2
    <2>4. wire # <<>> => 1 \in 1 .. Len(wire) /\ Head(wire) = wire[1]
      BY <2>1
    <2>5. Head(wire') = wire'[1]
      BY <2>2, <2>3
    <2> QED
      BY <2>2, <2>3, <2>4, <2>5
  <1>4. GcmTypeOK'
    BY <1>1, <1>2, <1>3 DEF GcmInv, GcmTypeOK
  <1>5. SenderCounts'
    BY <1>1, <1>2 DEF GcmInv, GcmTypeOK, Counters, SenderCounts
  <1>6. SealedInTurn'
    <2>1. /\ p.nonce = start + (Len(sealed) + 1) - 1 /\ p.nonce # CounterMax
      BY <1>2 DEF GcmInv, GcmTypeOK, Counters, SenderCounts, CounterAvailable
    <2>2. ASSUME NEW i \in 1 .. Len(sealed)
          PROVE  /\ sealed'[i].id = i /\ sealed'[i].nonce = start + i - 1
                 /\ sealed'[i].nonce # CounterMax
                 /\ sealed'[i].ours => WellFramed(sealed'[i])
      BY <1>2 DEF GcmInv, SealedInTurn
    <2>3. \A i \in 1 .. Len(sealed') :
             i \in 1 .. Len(sealed) \/ i = Len(sealed) + 1
      BY <1>2
    <2> QED
      BY <1>2, <2>1, <2>2, <2>3 DEF SealedInTurn, WellFramed, PaddingOk
  <1>7. IntactWasSealed'
    <2>1. ASSUME NEW k \in 1 .. Len(wire), wire'[k].intact
          PROVE  /\ wire'[k].id \in 1 .. Len(sealed')
                 /\ wire'[k] = sealed'[wire'[k].id]
      BY <2>1, <1>2, <1>3 DEF GcmInv, IntactWasSealed
    <2>2. \A k \in 1 .. Len(wire') :
             k \in 1 .. Len(wire) \/ k = Len(wire) + 1
      BY <1>3
    <2> QED
      BY <1>2, <1>3, <2>1, <2>2 DEF IntactWasSealed
  <1>8. ReceiverFollows' /\ FailureKept'
    BY <1>3 DEF GcmInv, ReceiverFollows, FailureKept
  <1>9. DeliveredInOrder'
    BY <1>2 DEF GcmInv, GcmTypeOK, DeliveredInOrder
  <1>10. HonestFraming'
    BY <1>3 DEF GcmInv, HonestFraming, FailureKept, front
  <1> QED
    BY <1>4, <1>5, <1>6, <1>7, <1>8, <1>9, <1>10 DEF GcmInv

LEMMA SealKeepsInv ==
    ASSUME GcmInv, NEW payload \in PayloadLens, Seal(payload)
    PROVE  GcmInv'
  <1> DEFINE p == Framed(payload, PacketLength(payload), Padding(payload), TRUE)
  <1>1. payload \in Nat
    BY GcmConstants
  <1>2. /\ Padding(payload) \in Nat /\ PacketLength(payload) \in Nat
        /\ LengthLen + PacketLength(payload) + TagLen \in Nat
    BY <1>1, PaddingAligns, GcmConstants
  <1>3. Len(sealed) + 1 \in Nat /\ sender.counter \in Nat
    BY GcmConstants DEF GcmInv, GcmTypeOK, AeadDirection, Counters
  <1>4. p \in ProtectedPacket
    BY <1>1, <1>2, <1>3 DEF Framed, ProtectedPacket
  <1>5. WellFramed(p)
    BY <1>1, PaddingAligns, FramingConstants DEF Framed, WellFramed, PaddingOk
  <1>6. p.id = Len(sealed) + 1 /\ p.nonce = sender.counter /\ p.intact
    BY DEF Framed
  <1> QED
    BY <1>4, <1>5, <1>6, SealedAsKeepsInv DEF Seal

LEMMA SealElsewhereKeepsInv ==
    ASSUME GcmInv, NEW payload \in PayloadLens, NEW padding \in OtherPaddings,
           SealElsewhere(payload, padding)
    PROVE  GcmInv'
  <1> DEFINE p == Framed(payload, payload + 1 + padding, padding, FALSE)
  <1>1. payload \in Nat /\ padding \in Nat /\ payload + 1 + padding \in Nat
    BY GcmConstants
  <1>2. LengthLen + (payload + 1 + padding) + TagLen \in Nat
    BY <1>1, GcmConstants
  <1>3. Len(sealed) + 1 \in Nat /\ sender.counter \in Nat
    BY GcmConstants DEF GcmInv, GcmTypeOK, AeadDirection, Counters
  <1>4. p \in ProtectedPacket
    BY <1>1, <1>2, <1>3 DEF Framed, ProtectedPacket
  <1>6. /\ p.id = Len(sealed) + 1 /\ p.nonce = sender.counter /\ p.intact
        /\ ~p.ours
    BY DEF Framed
  <1> QED
    BY <1>4, <1>6, SealedAsKeepsInv DEF SealElsewhere

LEMMA FeedKeepsInv ==
    ASSUME GcmInv, Arrive
    PROVE  GcmInv'
  <1>1. arrived' \in Int
    BY DEF Arrive, GcmInv, GcmTypeOK
  <1> QED
    BY <1>1
       DEF Arrive, GcmInv, GcmTypeOK, SenderCounts, SealedInTurn, WellFramed,
           PaddingOk, IntactWasSealed, ReceiverFollows, FailureKept,
           DeliveredInOrder, HonestFraming, front

\* A change of the stream that puts nothing unaltered there that was not sealed.
LEMMA AltersKeepsInv ==
    ASSUME GcmInv, Alters, wire' \in Seq(ProtectedPacket),
           \A k \in 1 .. Len(wire') :
              wire'[k].intact => /\ wire'[k].id \in 1 .. Len(sealed)
                                 /\ wire'[k] = sealed[wire'[k].id]
    PROVE  GcmInv'
  <1> USE DEF Alters
  <1>1. GcmTypeOK'
    BY DEF GcmInv, GcmTypeOK
  <1>2. SenderCounts' /\ ReceiverFollows' /\ DeliveredInOrder'
    BY DEF GcmInv, SenderCounts, ReceiverFollows, DeliveredInOrder
  <1>3. SealedInTurn'
    BY DEF GcmInv, SealedInTurn, WellFramed, PaddingOk
  <1>4. IntactWasSealed'
    BY DEF IntactWasSealed
  <1>5. FailureKept' /\ HonestFraming'
    BY DEF FailureKept, HonestFraming
  <1> QED
    BY <1>1, <1>2, <1>3, <1>4, <1>5 DEF GcmInv

LEMMA AlterBodyKeepsInv ==
    ASSUME GcmInv, NEW i \in 1 .. Len(wire), AlterBody(i)
    PROVE  GcmInv'
  <1> DEFINE p == [wire[i] EXCEPT !.intact = FALSE]
  <1>1. wire \in Seq(ProtectedPacket) /\ wire[i] \in ProtectedPacket
    BY DEF GcmInv, GcmTypeOK
  <1>2. p \in ProtectedPacket /\ ~p.intact
    BY <1>1 DEF ProtectedPacket
  <1>3. wire' = [wire EXCEPT ![i] = p]
    BY <1>1 DEF AlterBody
  <1> HIDE DEF p
  <1>4. /\ wire' \in Seq(ProtectedPacket) /\ Len(wire') = Len(wire)
        /\ ~wire'[i].intact
        /\ \A k \in 1 .. Len(wire) : k # i => wire'[k] = wire[k]
    BY <1>1, <1>2, <1>3
  <1> QED
    BY <1>4, AltersKeepsInv DEF AlterBody, GcmInv, IntactWasSealed

LEMMA AlterLengthKeepsInv ==
    ASSUME GcmInv, NEW i \in 1 .. Len(wire), NEW length \in AlteredLengths,
           AlterLength(i, length)
    PROVE  GcmInv'
  <1> DEFINE p == [wire[i] EXCEPT !.intact = FALSE, !.length = length]
  <1>1. wire \in Seq(ProtectedPacket) /\ wire[i] \in ProtectedPacket /\ length \in Int
    BY GcmConstants DEF GcmInv, GcmTypeOK
  <1>2. p \in ProtectedPacket /\ ~p.intact
    BY <1>1 DEF ProtectedPacket
  <1>3. wire' = [wire EXCEPT ![i] = p]
    BY <1>1 DEF AlterLength, ProtectedPacket
  <1> HIDE DEF p
  <1>4. /\ wire' \in Seq(ProtectedPacket) /\ Len(wire') = Len(wire)
        /\ ~wire'[i].intact
        /\ \A k \in 1 .. Len(wire) : k # i => wire'[k] = wire[k]
    BY <1>1, <1>2, <1>3
  <1> QED
    BY <1>4, AltersKeepsInv DEF AlterLength, GcmInv, IntactWasSealed

LEMMA LoseKeepsInv ==
    ASSUME GcmInv, NEW i \in 1 .. Len(wire), Lose(i)
    PROVE  GcmInv'
  <1>1. wire \in Seq(ProtectedPacket) /\ wire' = RemoveAt(wire, i) /\ Alters
    BY DEF GcmInv, GcmTypeOK, Lose
  <1>2. /\ wire' \in Seq(ProtectedPacket)
        /\ \A k \in 1 .. Len(wire') : \E j \in 1 .. Len(wire) : wire'[k] = wire[j]
    BY <1>1, RemoveAtElements
  <1> QED
    BY <1>1, <1>2, AltersKeepsInv DEF GcmInv, IntactWasSealed

LEMMA RepeatKeepsInv ==
    ASSUME GcmInv, NEW i \in 1 .. Len(sealed), Repeat(i)
    PROVE  GcmInv'
  <1>1. /\ wire \in Seq(ProtectedPacket) /\ sealed[i] \in ProtectedPacket /\ Alters
        /\ wire' = Append(wire, sealed[i])
    BY DEF GcmInv, GcmTypeOK, Repeat
  <1>2. /\ wire' \in Seq(ProtectedPacket) /\ Len(wire) \in Nat
        /\ Len(wire') = Len(wire) + 1
        /\ \A k \in 1 .. Len(wire) : wire'[k] = wire[k]
        /\ wire'[Len(wire) + 1] = sealed[i]
    BY <1>1
  <1>3. sealed[i].id = i
    BY DEF GcmInv, SealedInTurn
  <1>4. \A k \in 1 .. Len(wire') :
           k \in 1 .. Len(wire) \/ k = Len(wire) + 1
    BY <1>2
  <1> QED
    BY <1>1, <1>2, <1>3, <1>4, AltersKeepsInv DEF GcmInv, IntactWasSealed

-----------------------------------------------------------------------------
(* Opening                                                                 *)

\* What is known of an unaltered front packet.
LEMMA FrontFacts ==
    ASSUME GcmInv, wire # <<>>
    PROVE  /\ front \in ProtectedPacket
           /\ front.intact =>
                 /\ front.id \in 1 .. Len(sealed)
                 /\ front.nonce = start + front.id - 1
                 /\ front.nonce # CounterMax
                 /\ front.ours => WellFramed(front)
  <1>1. front \in ProtectedPacket /\ front = wire[1] /\ 1 \in 1 .. Len(wire)
    BY DEF GcmInv, GcmTypeOK, front
  <1> QED
    BY <1>1 DEF GcmInv, IntactWasSealed, SealedInTurn

\* The next packet in turn, made by seal, passes every check but the cap.
LEMMA NextInTurnAccepted ==
    ASSUME GcmInv, LengthRead, front.ours, front.intact,
           front.id = Len(delivered) + 1
    PROVE  /\ LengthError \in {"no", "TooLarge"}
           /\ LengthError = "TooLarge" => front.length > MaxPacketLength
           /\ CounterAvailable(receiver) /\ Verifies(front) /\ PaddingOk(front)
  <1>1. /\ front \in ProtectedPacket /\ front.nonce = start + front.id - 1
        /\ front.nonce # CounterMax /\ WellFramed(front)
        /\ receiver.counter = start + Len(delivered)
        /\ start \in Nat /\ Len(delivered) \in Nat
    BY FrontFacts DEF LengthRead, GcmInv, GcmTypeOK, Counters, ReceiverFollows
  <1>2. front.nonce = receiver.counter
    BY <1>1
  <1>3. LengthError \in {"no", "TooLarge"}
    <2>1. front.length \in Int /\ ~(front.length < MinPacketLength)
      BY <1>1, GcmConstants DEF WellFramed, ProtectedPacket
    <2> QED
      BY <1>1, <2>1 DEF LengthError, WellFramed
  <1>4. LengthError = "TooLarge" => front.length > MaxPacketLength
    BY <1>1 DEF LengthError, WellFramed
  <1> QED
    BY <1>1, <1>2, <1>3, <1>4 DEF CounterAvailable, Verifies, WellFramed

\* A refusal keeps everything but the error and the receiving counter.
LEMMA OpenRefusedKeepsInv ==
    ASSUME GcmInv, NEW error \in OpenErrors, OpenRefused(error), LengthRead,
           receiver' \in AeadDirection,
           (front.ours /\ front.intact /\ front.id = Len(delivered) + 1)
              => error = "TooLarge" /\ front.length > MaxPacketLength
    PROVE  GcmInv'
  <1> USE DEF OpenRefused
  <1>0. failed' # "no" /\ front' = front
    BY DEF OpenErrors, front
  <1>1. GcmTypeOK'
    BY DEF GcmInv, GcmTypeOK
  <1>2. SenderCounts' /\ ReceiverFollows' /\ DeliveredInOrder' /\ FailureKept'
    BY <1>0 DEF GcmInv, SenderCounts, ReceiverFollows, DeliveredInOrder,
                FailureKept, LengthRead
  <1>3. SealedInTurn' /\ IntactWasSealed'
    BY DEF GcmInv, SealedInTurn, WellFramed, PaddingOk, IntactWasSealed
  <1>4. HonestFraming'
    BY <1>0 DEF HonestFraming
  <1> QED
    BY <1>1, <1>2, <1>3, <1>4 DEF GcmInv

LEMMA OpenPacketKeepsInv ==
    ASSUME GcmInv, OpenPacket
    PROVE  GcmInv'
  <1> USE DEF OpenPacket, Expose
  <1>1. /\ failed = "no" /\ wire # <<>> /\ front.intact
        /\ front.nonce = receiver.counter
    BY DEF LengthRead, Verifies
  <1>2. /\ front \in ProtectedPacket /\ front.id \in 1 .. Len(sealed)
        /\ front.nonce = start + front.id - 1
    BY <1>1, FrontFacts
  <1>3. /\ start \in Int /\ Len(delivered) \in Nat /\ Len(sealed) \in Nat
        /\ receiver.counter = start + Len(delivered)
    BY <1>1 DEF GcmInv, GcmTypeOK, Counters, ReceiverFollows
  <1>4. front.id = Len(delivered) + 1
    <2>1. front.id \in Int
      BY ONLY <1>2, <1>3
    <2>2. start + front.id - 1 = start + Len(delivered)
      BY ONLY <1>1, <1>2, <1>3
    <2> QED
      BY ONLY <2>1, <2>2, <1>3
  <1>5. /\ delivered' \in Seq(Nat) /\ Len(delivered') = Len(delivered) + 1
        /\ \A i \in 1 .. Len(delivered) : delivered'[i] = delivered[i]
        /\ delivered'[Len(delivered) + 1] = front.id
    BY <1>2, <1>4, <1>3 DEF GcmInv, GcmTypeOK
  <1>6. /\ wire' \in Seq(ProtectedPacket) /\ Len(wire') = Len(wire) - 1
        /\ \A k \in 1 .. Len(wire') : wire'[k] = wire[k + 1]
        /\ Len(wire) \in Nat
    BY <1>1 DEF GcmInv, GcmTypeOK
  <1>7. receiver' \in AeadDirection /\ receiver'.counter = receiver.counter + 1
    BY AdvanceCounts DEF GcmInv, GcmTypeOK
  <1>8. GcmTypeOK'
    <2>1. arrived' \in Int
      BY <1>2, GcmConstants DEF GcmInv, GcmTypeOK, ProtectedPacket, TotalLen
    <2> QED
      BY <1>5, <1>6, <1>7, <2>1 DEF GcmInv, GcmTypeOK
  <1>9. SenderCounts' /\ SealedInTurn'
    BY DEF GcmInv, SenderCounts, SealedInTurn, WellFramed, PaddingOk
  <1>10. IntactWasSealed'
    <2>1. \A k \in 1 .. Len(wire') : k + 1 \in 1 .. Len(wire)
      BY <1>6
    <2> QED
      BY <1>6, <2>1 DEF GcmInv, IntactWasSealed
  <1>11. ReceiverFollows'
    BY <1>3, <1>5, <1>7 DEF ReceiverFollows
  <1>12. FailureKept' /\ HonestFraming'
    BY <1>1 DEF FailureKept, HonestFraming
  <1>13. DeliveredInOrder'
    <2>1. Len(delivered') <= Len(sealed')
      BY <1>2, <1>3, <1>4, <1>5
    <2>2. \A i \in 1 .. Len(delivered') :
             i \in 1 .. Len(delivered) \/ i = Len(delivered) + 1
      BY <1>3, <1>5
    <2> QED
      BY <1>4, <1>5, <2>1, <2>2 DEF GcmInv, DeliveredInOrder
  <1> QED
    BY <1>8, <1>9, <1>10, <1>11, <1>12, <1>13 DEF GcmInv

LEMMA OpenKeepsInv ==
    ASSUME GcmInv, Open
    PROVE  GcmInv'
  <1>1. receiver \in AeadDirection
    BY DEF GcmInv, GcmTypeOK
  <1>2. CASE OpenBadLength
    <2>1. LengthError \in OpenErrors
      BY <1>2 DEF OpenBadLength, LengthError, OpenErrors
    <2> QED
      BY <1>1, <1>2, <2>1, NextInTurnAccepted, OpenRefusedKeepsInv
         DEF OpenBadLength
  <1>3. CASE OpenExhausted
    BY <1>1, <1>3, NextInTurnAccepted, OpenRefusedKeepsInv
       DEF OpenExhausted, OpenErrors
  <1>4. CASE OpenTagMismatch
    BY <1>1, <1>4, NextInTurnAccepted, OpenRefusedKeepsInv
       DEF OpenTagMismatch, OpenErrors
  <1>5. CASE OpenBadPadding
    <2>1. receiver' \in AeadDirection
      BY <1>1, <1>5, AdvanceCounts DEF OpenBadPadding
    <2> QED
      BY <1>5, <2>1, NextInTurnAccepted, OpenRefusedKeepsInv
         DEF OpenBadPadding, OpenErrors
  <1>6. CASE OpenPacket
    BY <1>6, OpenPacketKeepsInv
  <1> QED
    BY <1>2, <1>3, <1>4, <1>5, <1>6 DEF Open

LEMMA StutterKeepsInv ==
    ASSUME GcmInv, UNCHANGED gcmVars
    PROVE  GcmInv'
  BY DEF gcmVars, GcmInv, GcmTypeOK, SenderCounts, SealedInTurn, WellFramed,
         PaddingOk, IntactWasSealed, ReceiverFollows, FailureKept,
         DeliveredInOrder, HonestFraming, front

LEMMA NextKeepsInv ==
    ASSUME GcmInv, [GcmNext]_gcmVars
    PROVE  GcmInv'
  <1>1. CASE \E payload \in PayloadLens : Seal(payload)
    BY <1>1, SealKeepsInv
  <1>2. CASE \E payload \in PayloadLens, padding \in OtherPaddings :
               SealElsewhere(payload, padding)
    BY <1>2, SealElsewhereKeepsInv
  <1>3. CASE Arrive
    BY <1>3, FeedKeepsInv
  <1>4. CASE \E i \in 1 .. Len(wire) : AlterBody(i)
    BY <1>4, AlterBodyKeepsInv
  <1>5. CASE \E i \in 1 .. Len(wire), length \in AlteredLengths :
               AlterLength(i, length)
    BY <1>5, AlterLengthKeepsInv
  <1>6. CASE \E i \in 1 .. Len(wire) : Lose(i)
    BY <1>6, LoseKeepsInv
  <1>7. CASE \E i \in 1 .. Len(sealed) : Repeat(i)
    BY <1>7, RepeatKeepsInv
  <1>8. CASE Open
    BY <1>8, OpenKeepsInv
  <1>9. CASE UNCHANGED gcmVars
    BY <1>9, StutterKeepsInv
  <1> QED
    BY <1>1, <1>2, <1>3, <1>4, <1>5, <1>6, <1>7, <1>8, <1>9 DEF GcmNext

-----------------------------------------------------------------------------
(* Theorems                                                                *)

\* The inductive invariant holds in every reachable state.
THEOREM GcmInvariant == GcmSpec => []GcmInv
  <1>1. GcmInit => GcmInv
    BY InitInv
  <1>2. GcmInv /\ [GcmNext]_gcmVars => GcmInv'
    BY NextKeepsInv
  <1> QED
    BY <1>1, <1>2, PTL DEF GcmSpec

\* seal never uses a nonce twice, for every counter width and starting IV.
THEOREM NoncesUnique == GcmSpec => []NonceNeverReused
  <1>1. GcmInv => NonceNeverReused
    <2> SUFFICES ASSUME GcmInv, NEW i \in 1 .. Len(sealed), NEW j \in 1 .. Len(sealed),
                        sealed[i].nonce = sealed[j].nonce
                 PROVE  i = j
      BY Zenon DEF NonceNeverReused
    <2>1. sealed[i].nonce = start + i - 1 /\ sealed[j].nonce = start + j - 1
      BY DEF GcmInv, SealedInTurn
    <2>2. start + i - 1 = start + j - 1
      BY ONLY <2>1, sealed[i].nonce = sealed[j].nonce
    <2>3. start \in Int /\ i \in Int /\ j \in Int
      BY GcmConstants DEF GcmInv, GcmTypeOK, Counters
    <2> QED
      BY ONLY <2>2, <2>3
  <1> QED
    BY <1>1, GcmInvariant, PTL

\* open exposes exactly the first packets sealed, in order, over any stream.
THEOREM DeliveryInOrder == GcmSpec => []DeliveredInOrder
  <1>1. GcmInv => DeliveredInOrder
    BY DEF GcmInv
  <1> QED
    BY <1>1, GcmInvariant, PTL

\* open accepts what seal frames, for every block size and minimum padding.
THEOREM FramingAgrees == GcmSpec => []HonestFraming
  <1>1. GcmInv => HonestFraming
    BY DEF GcmInv
  <1> QED
    BY <1>1, GcmInvariant, PTL

----------------------------------------------------------------------------
(* Negotiation: the selection against the reference model.                 *)

\* A nonempty set of positions has a first, and Min is it.
LEMMA MinIs ==
    ASSUME NEW T \in SUBSET Nat, T # {}
    PROVE  Min(T) \in T /\ \A y \in T : Min(T) <= y
<1> DEFINE R == OpToRel(<, Nat)
<1>1. IsWellFoundedOn(R, Nat) /\ T \subseteq Nat
  BY NatLessThanWellFounded
<1>2. \A x, y \in Nat : <<y, x>> \in R <=> y < x
  BY DEF OpToRel
<1> HIDE DEF R
<1>3. PICK x \in T : \A y \in T : ~(<<y, x>> \in R)
  BY <1>1, WFMin, Zenon
<1>4. \A y \in T : x <= y
  <2> TAKE y \in T
  <2>1. x \in Nat /\ y \in Nat /\ ~(y < x)
    BY <1>1, <1>2, <1>3
  <2>2. QED
    BY <2>1
<1>5. QED
  BY <1>4, Zenon DEF Min

\* What a name list is, whatever the bounds.
IsList(list) == \E n \in Nat : DOMAIN list = 1..n

LEMMA ListsAre ==
    ASSUME NEW names, NEW max \in Nat, NEW list \in Lists(names, max)
    PROVE  IsList(list) /\ list = [i \in DOMAIN list |-> list[i]]
<1>1. PICK n \in 0..max : list \in [1..n -> names]
  BY DEF Lists
<1>2. QED
  BY <1>1 DEF IsList

\* find: none of the names is listed, or the answer is the first that is.
LEMMA FirstInMeaning ==
    ASSUME NEW list, IsList(list), NEW names
    PROVE  \/ FirstIn(list, names) = <<>> /\ \A i \in DOMAIN list : list[i] \notin names
           \/ \E i \in DOMAIN list :
                 /\ FirstIn(list, names) = <<list[i]>> /\ list[i] \in names
                 /\ \A j \in 1..(i - 1) : list[j] \notin names
<1> DEFINE at == {i \in DOMAIN list : list[i] \in names}
<1>1. PICK n \in Nat : DOMAIN list = 1..n
  BY DEF IsList
<1>2. CASE at = {}
  BY <1>2 DEF FirstIn
<1>3. CASE at # {}
  <2>1. at \in SUBSET Nat
    BY <1>1
  <2>2. Min(at) \in at /\ \A y \in at : Min(at) <= y
    BY <1>3, <2>1, MinIs
  <2>3. FirstIn(list, names) = <<list[Min(at)]>>
    BY <1>3 DEF FirstIn
  <2> DEFINE i == Min(at)
  <2>4. i \in DOMAIN list /\ list[i] \in names /\ FirstIn(list, names) = <<list[i]>>
    BY <2>2, <2>3
  <2>5. \A y \in DOMAIN list : list[y] \in names => i <= y
    BY <2>2
  <2> HIDE DEF i
  <2>6. \A j \in 1..(i - 1) : j \in DOMAIN list /\ ~(i <= j)
    BY <1>1, <2>4
  <2>7. QED
    BY <2>4, <2>5, <2>6
<1>4. QED
  BY <1>2, <1>3

\* The selection of one list is the reference's.
Chosen(field, one, other, answer) ==
    \/ answer = <<>> /\ NothingCommon(field, one, other)
    \/ /\ ~NothingCommon(field, one, other)
       /\ \E i \in DOMAIN one :
             /\ answer = <<one[i]>> /\ IsFirstCommon(field, one, other, one[i])
             /\ Eligible(field, one[i])

LEMMA Listed ==
    ASSUME NEW list, NEW name
    PROVE  ListedIn(list, name) <=> name \in ToSet(list)
BY DEF ListedIn, ToSet

LEMMA FirstCommonChosen ==
    ASSUME NEW one, IsList(one), NEW other, NEW field, field # "kex"
    PROVE  Chosen(field, one, other, FirstCommon(one, other))
<1>1. \A name : Eligible(field, name)
  BY DEF Eligible
<1>2. \A name : ListedIn(other, name) <=> name \in ToSet(other)
  BY Listed
<1>3. QED
  BY <1>1, <1>2, FirstInMeaning DEF Chosen, FirstCommon, NothingCommon, IsFirstCommon

LEMMA MarkersAgree ==
    ASSUME NEW name
    PROVE  Eligible("kex", name) <=> IsMethod(name)
BY Zenon DEF Eligible, RefIsMarker, IsMethod, Markers, StrictMarkers, MARKERS

LEMMA KexChosen ==
    ASSUME NEW one, NEW other, IsList(one.kex)
    PROVE  Chosen("kex", one.kex, other.kex,
                  FirstIn(one.kex, Methods(one) \cap Methods(other)))
<1> DEFINE names == Methods(one) \cap Methods(other)
<1>1. \A i \in DOMAIN one.kex :
         one.kex[i] \in names <=>
            Eligible("kex", one.kex[i]) /\ ListedIn(other.kex, one.kex[i])
  <2> TAKE i \in DOMAIN one.kex
  <2>1. one.kex[i] \in ToSet(one.kex)
    BY DEF ToSet
  <2>2. ListedIn(other.kex, one.kex[i]) <=> one.kex[i] \in ToSet(other.kex)
    BY Listed
  <2>3. Eligible("kex", one.kex[i]) <=> IsMethod(one.kex[i])
    BY MarkersAgree
  <2>4. QED
    BY <2>1, <2>2, <2>3, Zenon DEF Methods
<1> HIDE DEF names
<1>2. PICK n \in Nat : DOMAIN one.kex = 1..n
  BY DEF IsList
<1>3. \A i \in DOMAIN one.kex : \A j \in 1..(i - 1) : j \in DOMAIN one.kex
  BY <1>2
<1>4. QED
  BY <1>1, <1>3, FirstInMeaning DEF Chosen, NothingCommon, IsFirstCommon, names

\* What this client proposes: one method and markers, schemes it verifies,
\* the one cipher, no compression.
LEMMA ClientLists ==
    ASSUME NEW c \in ClientProposals
    PROVE  /\ IsList(c.kex) /\ \A i \in DOMAIN c.kex : IsMethod(c.kex[i]) => c.kex[i] = Curve25519
           /\ IsList(c.hostKey) /\ \A i \in DOMAIN c.hostKey : c.hostKey[i] \in Schemes
           /\ c.cipherC2S = <<Aes128Gcm>> /\ c.cipherS2C = <<Aes128Gcm>>
           /\ c.compressionC2S = <<None>> /\ c.compressionS2C = <<None>>
<1>1. PICK extInfo \in BOOLEAN, offers \in BOOLEAN,
          keys0 \in HostKeyAlgorithms(Lists(HostKeyNames, MaxNames)) :
          c = ClientProposal(extInfo, offers, keys0)
  BY DEF ClientProposals
<1>2. /\ c.hostKey = keys0
      /\ c.cipherC2S = <<Aes128Gcm>> /\ c.cipherS2C = <<Aes128Gcm>>
      /\ c.compressionC2S = <<None>> /\ c.compressionS2C = <<None>>
      /\ c.kex = <<Curve25519>>
                 \o (IF extInfo THEN <<"ext-info-c">> ELSE <<>>)
                 \o (IF offers THEN <<"kex-strict-c-v00@openssh.com", "kex-strict-c">> ELSE <<>>)
  BY <1>1 DEF ClientProposal
<1>3. keys0 \in Lists(HostKeyNames, MaxNames) /\ \A i \in DOMAIN keys0 : keys0[i] \in Schemes
  BY DEF HostKeyAlgorithms, ToSet
<1>4. IsList(c.hostKey) /\ \A i \in DOMAIN c.hostKey : c.hostKey[i] \in Schemes
  BY <1>2, <1>3, ListsAre, NegotiationConstants
<1>5. /\ "ext-info-c" \in Markers /\ "kex-strict-c" \in Markers
      /\ "kex-strict-c-v00@openssh.com" \in Markers
  BY Zenon DEF Markers, StrictMarkers
<1> DEFINE Names == {Curve25519} \cup Markers
           exts == IF extInfo THEN <<"ext-info-c">> ELSE <<>>
           strs == IF offers THEN <<"kex-strict-c-v00@openssh.com", "kex-strict-c">> ELSE <<>>
<1>6. exts \in Seq(Names) /\ strs \in Seq(Names) /\ <<Curve25519>> \in Seq(Names)
  <2>1. \A S : \A x, y \in S : <<>> \in Seq(S) /\ <<x>> \in Seq(S) /\ <<x, y>> \in Seq(S)
    OBVIOUS
  <2>2. QED
    BY <1>5, <2>1, Zenon
<1>7. c.kex = (<<Curve25519>> \o exts) \o strs
  BY <1>2
<1> HIDE DEF exts, strs, Names
<1>8. c.kex \in Seq(Names)
  BY <1>6, <1>7, ConcatProperties
<1>9. IsList(c.kex) /\ \A i \in DOMAIN c.kex : c.kex[i] \in Names
  <2>1. Len(c.kex) \in Nat /\ DOMAIN c.kex = 1..Len(c.kex) /\ \A i \in 1..Len(c.kex) : c.kex[i] \in Names
    BY <1>8
  <2>2. QED
    BY <2>1 DEF IsList
<1>10. \A i \in DOMAIN c.kex : IsMethod(c.kex[i]) => c.kex[i] = Curve25519
  BY <1>9 DEF Names, IsMethod
<1>11. QED
  BY <1>2, <1>4, <1>9, <1>10

\* The selection, list by list, is the reference's; with this client there
\* is one name each list can give, or one of the schemes.
Selected(c, s, sel) ==
    /\ Chosen("kex", c.kex, s.kex, sel.kex)
    /\ sel.kex # <<>> => sel.kex = <<Curve25519>>
    /\ Chosen("hostKey", c.hostKey, s.hostKey, sel.hostKey)
    /\ sel.hostKey # <<>> => \E k \in Schemes : sel.hostKey = <<k>>
    /\ Chosen("cipherC2S", c.cipherC2S, s.cipherC2S, sel.cipherC2S)
    /\ sel.cipherC2S # <<>> => sel.cipherC2S = <<Aes128Gcm>>
    /\ Chosen("cipherS2C", c.cipherS2C, s.cipherS2C, sel.cipherS2C)
    /\ sel.cipherS2C # <<>> => sel.cipherS2C = <<Aes128Gcm>>
    /\ Chosen("compressionC2S", c.compressionC2S, s.compressionC2S, sel.compressionC2S)
    /\ sel.compressionC2S # <<>> => sel.compressionC2S = <<None>>
    /\ Chosen("compressionS2C", c.compressionS2C, s.compressionS2C, sel.compressionS2C)
    /\ sel.compressionS2C # <<>> => sel.compressionS2C = <<None>>

LEMMA Single ==
    ASSUME NEW name, NEW other, NEW field, NEW answer,
           Chosen(field, <<name>>, other, answer), answer # <<>>
    PROVE  answer = <<name>>
BY DEF Chosen

LEMMA SelectionSelected ==
    ASSUME NEW c \in ClientProposals, NEW s
    PROVE  Selected(c, s, Selection(c, s))
<1> DEFINE sel == Selection(c, s)
<1>1. /\ sel.kex = FirstIn(c.kex, Methods(c) \cap Methods(s))
      /\ sel.hostKey = FirstCommon(c.hostKey, s.hostKey)
      /\ sel.cipherC2S = FirstCommon(c.cipherC2S, s.cipherC2S)
      /\ sel.cipherS2C = FirstCommon(c.cipherS2C, s.cipherS2C)
      /\ sel.compressionC2S = FirstCommon(c.compressionC2S, s.compressionC2S)
      /\ sel.compressionS2C = FirstCommon(c.compressionS2C, s.compressionS2C)
  BY DEF Selection
<1> HIDE DEF sel
<1>2. Chosen("kex", c.kex, s.kex, sel.kex)
  BY <1>1, ClientLists, KexChosen
<1>3. sel.kex # <<>> => sel.kex = <<Curve25519>>
  BY <1>2, ClientLists, MarkersAgree DEF Chosen
<1>4. Chosen("hostKey", c.hostKey, s.hostKey, sel.hostKey)
  BY <1>1, ClientLists, FirstCommonChosen
<1>5. sel.hostKey # <<>> => \E k \in Schemes : sel.hostKey = <<k>>
  BY <1>4, ClientLists DEF Chosen
<1>6. IsList(<<Aes128Gcm>>) /\ IsList(<<None>>)
  BY DEF IsList
<1>7. /\ Chosen("cipherC2S", c.cipherC2S, s.cipherC2S, sel.cipherC2S)
      /\ Chosen("cipherS2C", c.cipherS2C, s.cipherS2C, sel.cipherS2C)
  BY <1>1, <1>6, ClientLists, FirstCommonChosen
<1>8. /\ Chosen("compressionC2S", c.compressionC2S, s.compressionC2S, sel.compressionC2S)
      /\ Chosen("compressionS2C", c.compressionS2C, s.compressionS2C, sel.compressionS2C)
  BY <1>1, <1>6, ClientLists, FirstCommonChosen
<1>9. /\ sel.cipherC2S # <<>> => sel.cipherC2S = <<Aes128Gcm>>
      /\ sel.cipherS2C # <<>> => sel.cipherS2C = <<Aes128Gcm>>
      /\ sel.compressionC2S # <<>> => sel.compressionC2S = <<None>>
      /\ sel.compressionS2C # <<>> => sel.compressionS2C = <<None>>
  BY <1>7, <1>8, ClientLists, Single
<1>10. QED
  BY <1>2, <1>3, <1>4, <1>5, <1>7, <1>8, <1>9 DEF Selected, sel

\* The error is that of the first list without a common name; a cipher this
\* client lists needs no MAC.
LEMMA ErrorOfFirst ==
    ASSUME NEW c, NEW s, NEW sel, Selected(c, s, sel)
    PROVE  \/ /\ NegotiationError(sel) = "ok"
              /\ sel.kex # <<>> /\ sel.hostKey # <<>> /\ sel.cipherC2S # <<>> /\ sel.cipherS2C # <<>>
              /\ sel.compressionC2S # <<>> /\ sel.compressionS2C # <<>>
           \/ NegotiationError(sel) = "NoCommonKex" /\ sel.kex = <<>>
           \/ NegotiationError(sel) = "NoCommonHostKey" /\ sel.kex # <<>> /\ sel.hostKey = <<>>
           \/ /\ NegotiationError(sel) = "NoCommonCipherC2S"
              /\ sel.kex # <<>> /\ sel.hostKey # <<>> /\ sel.cipherC2S = <<>>
           \/ /\ NegotiationError(sel) = "NoCommonCipherS2C"
              /\ sel.kex # <<>> /\ sel.hostKey # <<>> /\ sel.cipherC2S # <<>> /\ sel.cipherS2C = <<>>
           \/ /\ NegotiationError(sel) = "NoCommonCompressionC2S"
              /\ sel.kex # <<>> /\ sel.hostKey # <<>> /\ sel.cipherC2S # <<>> /\ sel.cipherS2C # <<>>
              /\ sel.compressionC2S = <<>>
           \/ /\ NegotiationError(sel) = "NoCommonCompressionS2C"
              /\ sel.kex # <<>> /\ sel.hostKey # <<>> /\ sel.cipherC2S # <<>> /\ sel.cipherS2C # <<>>
              /\ sel.compressionC2S # <<>> /\ sel.compressionS2C = <<>>
<1> DEFINE macC2S == MacFor(sel.cipherC2S)
           macS2C == MacFor(sel.cipherS2C)
           found == <<sel.kex, sel.hostKey, sel.cipherC2S, sel.cipherS2C, macC2S, macS2C,
                      sel.compressionC2S, sel.compressionS2C>>
           errors == <<"NoCommonKex", "NoCommonHostKey",
                       "NoCommonCipherC2S", "NoCommonCipherS2C",
                       "NoMacImplementedC2S", "NoMacImplementedS2C",
                       "NoCommonCompressionC2S", "NoCommonCompressionS2C">>
           failing == {i \in DOMAIN found : found[i] = <<>>}
<1>1. NegotiationError(sel) = IF failing = {} THEN "ok" ELSE errors[Min(failing)]
  BY DEF NegotiationError
<1>2. /\ sel.cipherC2S # <<>> => macC2S # <<>>
      /\ sel.cipherS2C # <<>> => macS2C # <<>>
  <2>1. /\ sel.cipherC2S # <<>> => sel.cipherC2S = <<Aes128Gcm>>
        /\ sel.cipherS2C # <<>> => sel.cipherS2C = <<Aes128Gcm>>
    BY DEF Selected
  <2>2. \A k \in ToSet(<<Aes128Gcm>>) : IsAead(k)
    BY DEF ToSet, IsAead
  <2>3. <<"implicit">> # <<>>
    OBVIOUS
  <2>4. QED
    BY <2>1, <2>2, <2>3 DEF MacFor
<1> HIDE DEF macC2S, macS2C
<1>3. DOMAIN found = 1..8
  OBVIOUS
<1>4. CASE failing = {}
  <2>1. \A i \in 1..8 : found[i] # <<>>
    BY <1>3, <1>4
  <2>2. QED
    BY <1>1, <1>4, <2>1
<1>5. CASE failing # {}
  <2>1. failing \in SUBSET Nat
    BY <1>3
  <2>2. Min(failing) \in failing /\ \A y \in failing : Min(failing) <= y
    BY <1>5, <2>1, MinIs
  <2> DEFINE m == Min(failing)
  <2>3. /\ m \in 1..8 /\ found[m] = <<>> /\ \A j \in 1..8 : j < m => found[j] # <<>>
        /\ NegotiationError(sel) = errors[m]
    <3>1. NegotiationError(sel) = errors[m]
      BY <1>1, <1>5
    <3>2. \A i : i \in failing <=> i \in 1..8 /\ found[i] = <<>>
      BY <1>3
    <3> HIDE DEF found, failing, errors
    <3>3. m \in 1..8 /\ found[m] = <<>>
      BY <2>2, <3>2
    <3>4. \A j \in 1..8 : j < m => found[j] # <<>>
      BY <2>2, <3>2, <3>3
    <3>5. QED
      BY <3>1, <3>3, <3>4
  <2> HIDE DEF m
  <2>4. m = 1 \/ m = 2 \/ m = 3 \/ m = 4 \/ m = 5 \/ m = 6 \/ m = 7 \/ m = 8
    BY <2>3
  <2>5. CASE m = 1
    BY <2>3, <2>5
  <2>6. CASE m = 2
    BY <2>3, <2>6
  <2>7. CASE m = 3
    BY <2>3, <2>7
  <2>8. CASE m = 4
    BY <2>3, <2>8
  <2>9. CASE m = 5 \/ m = 6
    BY <2>3, <2>9, <1>2
  <2>10. CASE m = 7
    BY <2>3, <2>10
  <2>11. CASE m = 8
    BY <2>3, <2>11
  <2>12. QED
    BY <2>4, <2>5, <2>6, <2>7, <2>8, <2>9, <2>10, <2>11
<1>6. QED
  BY <1>4, <1>5

LEMMA ChosenNone ==
    ASSUME NEW field, NEW one, NEW other, NEW answer, Chosen(field, one, other, answer)
    PROVE  /\ answer = <<>> <=> NothingCommon(field, one, other)
           /\ \A name : answer = <<name>> => IsFirstCommon(field, one, other, name)
BY DEF Chosen

\* The names the implemented profile is made of, for each list.
LEMMA VerdictAgrees ==
    ASSUME NEW c, NEW s, NEW sel, Selected(c, s, sel)
    PROVE  \/ /\ NegotiationOutcome(sel) = "ok"
              /\ \A i \in DOMAIN Negotiated :
                    \E name \in {"curve25519-sha256", "aes128-gcm@openssh.com", "none",
                             "ssh-ed25519", "ecdsa-sha2-nistp256",
                             "rsa-sha2-512", "rsa-sha2-256"} :
                        /\ sel[Negotiated[i]] = <<name>>
                        /\ IsFirstCommon(Negotiated[i], c[Negotiated[i]], s[Negotiated[i]], name)
           \/ \E i \in DOMAIN Negotiated :
                 NegotiationOutcome(sel) = NoCommon[i] /\ FirstFailure(c, s, i)
<1> DEFINE Known == {"curve25519-sha256", "aes128-gcm@openssh.com", "none",
                     "ssh-ed25519", "ecdsa-sha2-nistp256",
                     "rsa-sha2-512", "rsa-sha2-256"}
           Empty(f) == NothingCommon(f, c[f], s[f])
<1>1. /\ Curve25519 \in Known /\ Aes128Gcm \in Known /\ None \in Known
      /\ \A k \in Schemes : k \in Known
  BY Zenon DEF Curve25519, Aes128Gcm, None, Schemes
<1> HIDE DEF Known
<1>2. /\ sel.kex = <<>> <=> Empty("kex")
      /\ sel.hostKey = <<>> <=> Empty("hostKey")
      /\ sel.cipherC2S = <<>> <=> Empty("cipherC2S")
      /\ sel.cipherS2C = <<>> <=> Empty("cipherS2C")
      /\ sel.compressionC2S = <<>> <=> Empty("compressionC2S")
      /\ sel.compressionS2C = <<>> <=> Empty("compressionS2C")
  BY ChosenNone DEF Selected
<1> HIDE DEF Empty
<1>3. DOMAIN Negotiated = 1..6
  BY DEF Negotiated
<1>4. \A i \in 1..6 : FirstFailure(c, s, i) <=>
          Empty(Negotiated[i]) /\ \A j \in 1..(i - 1) : ~Empty(Negotiated[j])
  BY DEF FirstFailure, Empty
<1>5. CASE NegotiationError(sel) = "ok" /\
           /\ sel.kex # <<>> /\ sel.hostKey # <<>> /\ sel.cipherC2S # <<>> /\ sel.cipherS2C # <<>>
           /\ sel.compressionC2S # <<>> /\ sel.compressionS2C # <<>>
  <2>1. PICK k \in Schemes : sel.hostKey = <<k>>
    BY <1>5 DEF Selected
  <2>2. /\ sel.kex = <<Curve25519>> /\ sel.cipherC2S = <<Aes128Gcm>> /\ sel.cipherS2C = <<Aes128Gcm>>
        /\ sel.compressionC2S = <<None>> /\ sel.compressionS2C = <<None>>
    BY <1>5 DEF Selected
  <2>3. CheckProfile(sel)
    BY <2>1, <2>2 DEF CheckProfile, IsAead
  <2>4. NegotiationOutcome(sel) = "ok"
    BY <1>5, <2>3 DEF NegotiationOutcome
  <2>5. /\ IsFirstCommon("kex", c.kex, s.kex, Curve25519)
        /\ IsFirstCommon("hostKey", c.hostKey, s.hostKey, k)
        /\ IsFirstCommon("cipherC2S", c.cipherC2S, s.cipherC2S, Aes128Gcm)
        /\ IsFirstCommon("cipherS2C", c.cipherS2C, s.cipherS2C, Aes128Gcm)
        /\ IsFirstCommon("compressionC2S", c.compressionC2S, s.compressionC2S, None)
        /\ IsFirstCommon("compressionS2C", c.compressionS2C, s.compressionS2C, None)
    BY <2>1, <2>2, ChosenNone DEF Selected
  <2> DEFINE Good(f) == \E name \in Known : sel[f] = <<name>> /\ IsFirstCommon(f, c[f], s[f], name)
  <2>6. Good("kex") /\ Good("hostKey") /\ Good("cipherC2S") /\ Good("cipherS2C")
        /\ Good("compressionC2S") /\ Good("compressionS2C")
    BY <1>1, <2>1, <2>2, <2>5
  <2> HIDE DEF Good
  <2>7. \A i \in 1..6 : Good(Negotiated[i])
    BY <2>6 DEF Negotiated
  <2>8. QED
    BY <1>3, <2>4, <2>7 DEF Good, Known
<1>6. ASSUME NegotiationError(sel) # "ok"
      PROVE  NegotiationOutcome(sel) = NegotiationError(sel)
  BY <1>6 DEF NegotiationOutcome
<1>7. CASE NegotiationError(sel) = "NoCommonKex" /\ sel.kex = <<>>
  <2>1. FirstFailure(c, s, 1) /\ NoCommon[1] = "NoCommonKex"
    BY <1>2, <1>4, <1>7 DEF Negotiated, NoCommon
  <2>2. QED
    BY <1>3, <1>6, <1>7, <2>1
<1>8. CASE NegotiationError(sel) = "NoCommonHostKey" /\ sel.kex # <<>> /\ sel.hostKey = <<>>
  <2>1. FirstFailure(c, s, 2) /\ NoCommon[2] = "NoCommonHostKey"
    BY <1>2, <1>4, <1>8 DEF Negotiated, NoCommon
  <2>2. QED
    BY <1>3, <1>6, <1>8, <2>1
<1>9. CASE /\ NegotiationError(sel) = "NoCommonCipherC2S"
           /\ sel.kex # <<>> /\ sel.hostKey # <<>> /\ sel.cipherC2S = <<>>
  <2>1. FirstFailure(c, s, 3) /\ NoCommon[3] = "NoCommonCipherC2S"
    BY <1>2, <1>4, <1>9 DEF Negotiated, NoCommon
  <2>2. QED
    BY <1>3, <1>6, <1>9, <2>1
<1>10. CASE /\ NegotiationError(sel) = "NoCommonCipherS2C"
            /\ sel.kex # <<>> /\ sel.hostKey # <<>> /\ sel.cipherC2S # <<>> /\ sel.cipherS2C = <<>>
  <2>1. FirstFailure(c, s, 4) /\ NoCommon[4] = "NoCommonCipherS2C"
    BY <1>2, <1>4, <1>10 DEF Negotiated, NoCommon
  <2>2. QED
    BY <1>3, <1>6, <1>10, <2>1
<1>11. CASE /\ NegotiationError(sel) = "NoCommonCompressionC2S"
            /\ sel.kex # <<>> /\ sel.hostKey # <<>> /\ sel.cipherC2S # <<>> /\ sel.cipherS2C # <<>>
            /\ sel.compressionC2S = <<>>
  <2>1. FirstFailure(c, s, 5) /\ NoCommon[5] = "NoCommonCompressionC2S"
    BY <1>2, <1>4, <1>11 DEF Negotiated, NoCommon
  <2>2. QED
    BY <1>3, <1>6, <1>11, <2>1
<1>12. CASE /\ NegotiationError(sel) = "NoCommonCompressionS2C"
            /\ sel.kex # <<>> /\ sel.hostKey # <<>> /\ sel.cipherC2S # <<>> /\ sel.cipherS2C # <<>>
            /\ sel.compressionC2S # <<>> /\ sel.compressionS2C = <<>>
  <2>1. FirstFailure(c, s, 6) /\ NoCommon[6] = "NoCommonCompressionS2C"
    BY <1>2, <1>4, <1>12 DEF Negotiated, NoCommon
  <2>2. QED
    BY <1>3, <1>6, <1>12, <2>1
<1>13. QED
  BY ErrorOfFirst, <1>5, <1>7, <1>8, <1>9, <1>10, <1>11, <1>12

\* Of a list, its first entry.
LEMMA FirstIsHead ==
    ASSUME NEW list, IsList(list)
    PROVE  \/ First(list) = <<>> /\ DOMAIN list = {}
           \/ 1 \in DOMAIN list /\ First(list) = <<list[1]>>
<1>1. PICK n \in Nat : DOMAIN list = 1..n
  BY DEF IsList
<1>2. \A i \in DOMAIN list : list[i] \in ToSet(list)
  BY DEF ToSet
<1>3. \/ First(list) = <<>> /\ \A i \in DOMAIN list : list[i] \notin ToSet(list)
      \/ \E i \in DOMAIN list :
            /\ First(list) = <<list[i]>>
            /\ \A j \in 1..(i - 1) : list[j] \notin ToSet(list)
  BY FirstInMeaning DEF First
<1>4. CASE First(list) = <<>> /\ \A i \in DOMAIN list : list[i] \notin ToSet(list)
  BY <1>2, <1>4
<1>5. ASSUME NEW i \in DOMAIN list, First(list) = <<list[i]>>,
             \A j \in 1..(i - 1) : list[j] \notin ToSet(list)
      PROVE  1 \in DOMAIN list /\ First(list) = <<list[1]>>
  <2>1. 1 \in DOMAIN list
    BY <1>1
  <2>2. i = 1
    BY <1>1, <1>2, <1>5, <2>1
  <2>3. QED
    BY <1>5, <2>1, <2>2
<1>6. QED
  BY <1>3, <1>4, <1>5

\* answer is the first eligible name of the list, as an Option.
FirstEligible(field, list, answer) ==
    \/ answer = <<>> /\ \A i \in DOMAIN list : ~Eligible(field, list[i])
    \/ \E i \in DOMAIN list : answer = <<list[i]>> /\ IsFirstMethod(field, list, list[i])

LEMMA FirstMethodEligible ==
    ASSUME NEW p, IsList(p.kex)
    PROVE  FirstEligible("kex", p.kex, FirstMethod(p))
<1>1. \A i \in DOMAIN p.kex : p.kex[i] \in Methods(p) <=> Eligible("kex", p.kex[i])
  BY MarkersAgree DEF Methods, ToSet
<1>2. PICK n \in Nat : DOMAIN p.kex = 1..n
  BY DEF IsList
<1>3. \A i \in DOMAIN p.kex : \A j \in 1..(i - 1) : j \in DOMAIN p.kex
  BY <1>2
<1>4. QED
  BY <1>1, <1>3, FirstInMeaning DEF FirstEligible, FirstMethod, IsFirstMethod

LEMMA FirstEntryEligible ==
    ASSUME NEW list, IsList(list)
    PROVE  FirstEligible("hostKey", list, First(list))
<1>1. \A name : Eligible("hostKey", name)
  BY DEF Eligible
<1>2. \A j : j \notin 1..(1 - 1)
  OBVIOUS
<1>3. QED
  BY <1>1, <1>2, FirstIsHead DEF FirstEligible, IsFirstMethod

\* There is at most one first eligible name.
LEMMA FirstEligibleUnique ==
    ASSUME NEW field, NEW list, IsList(list), NEW a, NEW b,
           IsFirstMethod(field, list, a), IsFirstMethod(field, list, b)
    PROVE  a = b
<1>1. PICK n \in Nat : DOMAIN list = 1..n
  BY DEF IsList
<1>2. PICK i \in 1..n : /\ list[i] = a /\ Eligible(field, a)
                        /\ \A j \in 1..(i - 1) : ~Eligible(field, list[j])
  BY <1>1 DEF IsFirstMethod
<1>3. PICK k \in 1..n : /\ list[k] = b /\ Eligible(field, b)
                        /\ \A j \in 1..(k - 1) : ~Eligible(field, list[j])
  BY <1>1 DEF IsFirstMethod
<1>4. ~(i < k) /\ ~(k < i)
  <2>1. i < k => i \in 1..(k - 1)
    OBVIOUS
  <2>2. k < i => k \in 1..(i - 1)
    OBVIOUS
  <2>3. QED
    BY <1>2, <1>3, <2>1, <2>2
<1>5. i = k
  BY <1>4
<1>6. QED
  BY <1>2, <1>3, <1>5

\* The two first choices are the same as Options exactly if the reference
\* finds them the same.
LEMMA SameFirstMeaning ==
    ASSUME NEW field, NEW one, NEW other, IsList(one), IsList(other), NEW a, NEW b,
           FirstEligible(field, one, a), FirstEligible(field, other, b)
    PROVE  SameFirst(field, one, other) <=> a = b
<1> DEFINE F(k) == IsFirstMethod(field, one, k)
           G(k) == IsFirstMethod(field, other, k)
           K == {one[i] : i \in DOMAIN one} \cup {other[i] : i \in DOMAIN other}
<1>1. SameFirst(field, one, other) <=> \A k \in K : F(k) <=> G(k)
  BY DEF SameFirst
<1>2. \A k : (F(k) => k \in K) /\ (G(k) => k \in K)
  BY DEF IsFirstMethod
<1>3. \A k : F(k) <=> a = <<k>>
  <2>1. CASE a = <<>> /\ \A i \in DOMAIN one : ~Eligible(field, one[i])
    BY <2>1 DEF IsFirstMethod
  <2>2. CASE \E i \in DOMAIN one : a = <<one[i]>> /\ IsFirstMethod(field, one, one[i])
    <3>1. PICK x : a = <<x>> /\ F(x)
      BY <2>2
    <3>2. \A k : F(k) => k = x
      BY <3>1, FirstEligibleUnique
    <3>3. \A k : a = <<k>> => k = x
      BY <3>1
    <3>4. QED
      BY <3>1, <3>2, <3>3
  <2>3. QED
    BY <2>1, <2>2 DEF FirstEligible
<1>4. \A k : G(k) <=> b = <<k>>
  <2>1. CASE b = <<>> /\ \A i \in DOMAIN other : ~Eligible(field, other[i])
    BY <2>1 DEF IsFirstMethod
  <2>2. CASE \E i \in DOMAIN other : b = <<other[i]>> /\ IsFirstMethod(field, other, other[i])
    <3>1. PICK x : b = <<x>> /\ G(x)
      BY <2>2
    <3>2. \A k : G(k) => k = x
      BY <3>1, FirstEligibleUnique
    <3>3. \A k : b = <<k>> => k = x
      BY <3>1
    <3>4. QED
      BY <3>1, <3>2, <3>3
  <2>3. QED
    BY <2>1, <2>2 DEF FirstEligible
<1>5. (a = <<>> \/ \E k : a = <<k>>) /\ (b = <<>> \/ \E k : b = <<k>>)
  BY DEF FirstEligible
<1> HIDE DEF F, G, K
<1>6. SameFirst(field, one, other) <=> \A k : a = <<k>> <=> b = <<k>>
  BY <1>1, <1>2, <1>3, <1>4
<1>7. QED
  BY <1>5, <1>6

LEMMA ServerLists ==
    ASSUME NEW s \in ServerProposals
    PROVE  IsList(s.kex) /\ IsList(s.hostKey) /\ s.follows \in BOOLEAN
<1>1. s.kex \in Lists(KexNames, MaxNames) /\ s.hostKey \in Lists(HostKeyNames, MaxNames)
      /\ s.follows \in BOOLEAN
  BY DEF ServerProposals
<1>2. QED
  BY <1>1, ListsAre, NegotiationConstants

\* Markers, extension negotiation and the judgement of the server's guess.
LEMMA FlagsAgree ==
    ASSUME NEW c \in ClientProposals, NEW s \in ServerProposals
    PROVE  /\ Selection(c, s).strictKex = RefStrict(c, s)
           /\ Selection(c, s).extInfo = ListedIn(s.kex, "ext-info-s")
           /\ Selection(c, s).guessWrong =
                 (s.follows /\ ~(/\ SameFirst("kex", c.kex, s.kex)
                                 /\ SameFirst("hostKey", c.hostKey, s.hostKey)))
<1>1. /\ Selection(c, s).strictKex = StrictKexAgreed(c, s)
      /\ Selection(c, s).extInfo = ("ext-info-s" \in ToSet(s.kex))
      /\ Selection(c, s).guessWrong = ServerGuessWrong(c, s)
  BY DEF Selection
<1>2. StrictKexAgreed(c, s) = RefStrict(c, s)
  <2>1. RefStrict(c, s) <=>
           \/ /\ ListedIn(c.kex, "kex-strict-c-v00@openssh.com")
              /\ ListedIn(s.kex, "kex-strict-s-v00@openssh.com")
           \/ ListedIn(c.kex, "kex-strict-c") /\ ListedIn(s.kex, "kex-strict-s")
    BY DEF RefStrict
  <2>2. \A list, name : ListedIn(list, name) <=> name \in ToSet(list)
    BY Listed
  <2>3. RefStrict(c, s) \in BOOLEAN /\ StrictKexAgreed(c, s) \in BOOLEAN
    BY Zenon DEF RefStrict, StrictKexAgreed
  <2>4. QED
    BY <2>1, <2>2, <2>3, Zenon DEF StrictKexAgreed
<1>3. ("ext-info-s" \in ToSet(s.kex)) = ListedIn(s.kex, "ext-info-s")
  <2>1. ListedIn(s.kex, "ext-info-s") <=> "ext-info-s" \in ToSet(s.kex)
    BY Listed
  <2>2. ListedIn(s.kex, "ext-info-s") \in BOOLEAN
    BY Zenon DEF ListedIn
  <2>3. ("ext-info-s" \in ToSet(s.kex)) \in BOOLEAN
    OBVIOUS
  <2>4. QED
    BY <2>1, <2>2, <2>3, Zenon
<1>4. SameFirst("kex", c.kex, s.kex) <=> FirstMethod(c) = FirstMethod(s)
  BY ClientLists, ServerLists, FirstMethodEligible, SameFirstMeaning
<1>5. SameFirst("hostKey", c.hostKey, s.hostKey) <=> First(c.hostKey) = First(s.hostKey)
  BY ClientLists, ServerLists, FirstEntryEligible, SameFirstMeaning
<1>6. ServerGuessWrong(c, s) =
         (s.follows /\ ~(/\ SameFirst("kex", c.kex, s.kex)
                         /\ SameFirst("hostKey", c.hostKey, s.hostKey)))
  BY <1>4, <1>5, Zenon DEF ServerGuessWrong
<1>7. QED
  BY <1>1, <1>2, <1>3, <1>6, Zenon

\* What is proved of the state: the proposals are ones that can be made until
\* they are dropped, and the selection is the one they lead to.
NegotiationInv ==
    /\ verdict = "pending" => client \in ClientProposals /\ server \in ServerProposals
    /\ verdict \notin {"pending", "protected"} =>
          /\ client \in ClientProposals /\ server \in ServerProposals
          /\ selection = Selection(client, server)
          /\ verdict = NegotiationOutcome(selection)

LEMMA NegotiationStep ==
    ASSUME NegotiationInv, [NegotiationNext]_negotiationVars
    PROVE  NegotiationInv'
<1>1. CASE NegotiateProposals
  BY <1>1 DEF NegotiationInv, NegotiateProposals
<1>2. CASE ProposalsDone
  BY <1>2 DEF NegotiationInv, ProposalsDone
<1>3. CASE UNCHANGED negotiationVars
  BY <1>3 DEF NegotiationInv, negotiationVars
<1>4. QED
  BY <1>1, <1>2, <1>3 DEF NegotiationNext

LEMMA InvAsModelled == NegotiationInv => AsModelled
<1> SUFFICES ASSUME NegotiationInv, verdict \notin {"pending", "protected"}
    PROVE  AgreesWithModel(client, server, selection, verdict)
  BY DEF AsModelled
<1>1. /\ client \in ClientProposals /\ server \in ServerProposals
      /\ selection = Selection(client, server) /\ verdict = NegotiationOutcome(selection)
  BY DEF NegotiationInv
<1>2. Selected(client, server, selection)
  BY <1>1, SelectionSelected
<1>3. /\ selection.strictKex = RefStrict(client, server)
      /\ selection.extInfo = ListedIn(server.kex, "ext-info-s")
      /\ selection.guessWrong =
            (server.follows /\ ~(/\ SameFirst("kex", client.kex, server.kex)
                                 /\ SameFirst("hostKey", client.hostKey, server.hostKey)))
  BY <1>1, FlagsAgree
<1>4. QED
  BY <1>1, <1>2, <1>3, VerdictAgrees, Zenon DEF AgreesWithModel

LEMMA InvGuess == NegotiationInv => GuessedPacketUsable
<1> SUFFICES ASSUME NegotiationInv, verdict = "ok", server.follows, ~selection.guessWrong
    PROVE  /\ \E name \in ToSet(server.kex) :
                 /\ selection.kex = <<name>>
                 /\ IsFirstMethod("kex", server.kex, name)
           /\ server.hostKey # <<>> /\ selection.hostKey = <<server.hostKey[1]>>
  BY DEF GuessedPacketUsable
<1>1. /\ client \in ClientProposals /\ server \in ServerProposals
      /\ selection = Selection(client, server) /\ verdict = NegotiationOutcome(selection)
  BY DEF NegotiationInv
<1>2. Selected(client, server, selection)
  BY <1>1, SelectionSelected
<1>3. NegotiationError(selection) = "ok"
  BY <1>1 DEF NegotiationOutcome
<1>4. selection.kex # <<>> /\ selection.hostKey # <<>>
  BY <1>2, <1>3, ErrorOfFirst
<1>5. selection.guessWrong = ServerGuessWrong(client, server)
  BY <1>1 DEF Selection
<1>6. FirstMethod(client) = FirstMethod(server) /\ First(client.hostKey) = First(server.hostKey)
  BY <1>5, Zenon DEF ServerGuessWrong
<1>7. IsList(server.kex) /\ IsList(server.hostKey) /\ IsList(client.kex) /\ IsList(client.hostKey)
  BY <1>1, ClientLists, ServerLists
<1>8. FirstEligible("kex", client.kex, FirstMethod(client)) /\ FirstEligible("kex", server.kex, FirstMethod(server))
  BY <1>7, FirstMethodEligible
\* The client's first method is the only one it has, which was selected.
<1>9. FirstMethod(client) = selection.kex
  <2>1. selection.kex = <<Curve25519>>
    BY <1>2, <1>4 DEF Selected
  <2>2. PICK i \in DOMAIN client.kex : Eligible("kex", client.kex[i])
    BY <1>2, <1>4 DEF Selected, Chosen
  <2>3. PICK k \in DOMAIN client.kex :
            FirstMethod(client) = <<client.kex[k]>> /\ IsFirstMethod("kex", client.kex, client.kex[k])
    BY <1>8, <2>2 DEF FirstEligible
  <2>4. client.kex[k] = Curve25519
    BY <1>1, <2>3, ClientLists, MarkersAgree DEF IsFirstMethod
  <2>5. QED
    BY <2>1, <2>3, <2>4
<1>10. \E name \in ToSet(server.kex) :
          selection.kex = <<name>> /\ IsFirstMethod("kex", server.kex, name)
  BY <1>4, <1>6, <1>8, <1>9 DEF FirstEligible, ToSet
\* Both list the same host key first, so it is the first in common.
<1>11. 1 \in DOMAIN client.hostKey
  <2>1. DOMAIN client.hostKey # {}
    BY <1>2, <1>4 DEF Selected, Chosen
  <2>2. PICK n \in Nat : DOMAIN client.hostKey = 1..n
    BY <1>7 DEF IsList
  <2>3. QED
    BY <2>1, <2>2
<1>12. /\ First(client.hostKey) = <<client.hostKey[1]>> /\ 1 \in DOMAIN server.hostKey
       /\ First(server.hostKey) = <<server.hostKey[1]>>
  BY <1>6, <1>7, <1>11, FirstIsHead
<1>13. client.hostKey[1] = server.hostKey[1]
  <2>1. <<client.hostKey[1]>> = <<server.hostKey[1]>>
    BY <1>6, <1>12, Zenon
  <2>2. \A a, b : <<a>> = <<b>> => a = b
    OBVIOUS
  <2>3. QED
    BY <2>1, <2>2, Zenon
<1>14. PICK i \in DOMAIN client.hostKey :
          /\ selection.hostKey = <<client.hostKey[i]>>
          /\ IsFirstCommon("hostKey", client.hostKey, server.hostKey, client.hostKey[i])
  BY <1>2, <1>4 DEF Selected, Chosen
<1>15. PICK m \in DOMAIN client.hostKey :
          /\ client.hostKey[m] = client.hostKey[i]
          /\ \A j \in 1..(m - 1) : ~Eligible("hostKey", client.hostKey[j])
                                    \/ ~ListedIn(server.hostKey, client.hostKey[j])
  BY <1>14 DEF IsFirstCommon
<1>16. m = 1
  <2>1. Eligible("hostKey", client.hostKey[1]) /\ ListedIn(server.hostKey, client.hostKey[1])
    BY <1>12, <1>13 DEF Eligible, ListedIn
  <2>2. 1 \notin 1..(m - 1)
    BY <1>15, <2>1
  <2>3. m \in Nat \ {0}
    BY <1>7 DEF IsList
  <2>4. QED
    BY <2>2, <2>3
<1>17. selection.hostKey = <<server.hostKey[1]>> /\ server.hostKey # <<>>
  BY <1>12, <1>13, <1>14, <1>15, <1>16
<1>18. QED
  BY <1>10, <1>17

\* For every proposal of a server, of any names and lengths, and every
\* proposal this client can make: negotiate and check_profile answer what the
\* reference model of the fuzz target answers, selection, error and flags,
\* and a packet the server sent ahead is kept only if it was made for the
\* algorithms selected (negotiate, StrictKex::evaluate, first_common,
\* check_profile).
THEOREM NegotiationCorrect == NegotiationSpec => []NegotiationSound
<1>1. NegotiationInit => NegotiationInv
  BY DEF NegotiationInit, NegotiationInv
<1>2. NegotiationInv /\ [NegotiationNext]_negotiationVars => NegotiationInv'
  BY NegotiationStep
<1>3. NegotiationInv => NegotiationSound
  BY InvAsModelled, InvGuess DEF NegotiationSound
<1>4. QED
  BY <1>1, <1>2, <1>3, PTL DEF NegotiationSpec

=============================================================================
