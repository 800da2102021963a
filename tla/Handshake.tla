----------------------------- MODULE Handshake -----------------------------
(***************************************************************************)
(* ClientHandshake of tatami_ssh_tcp (handshake.rs): the portable client   *)
(* state machine for the SSH key exchange and the first service request.   *)
(*                                                                         *)
(* The host calls feed, take_output, provide_trust, input_ended and step   *)
(* in any order; HandshakeRun adds the order the blocking driver uses.     *)
(* step runs a loop; here each iteration is an action of its own, so the   *)
(* host may also call in between, which is more than it can do.            *)
(*                                                                         *)
(* The server is arbitrary.  A unit of input is one line or one packet:    *)
(* its form says which decoder accepts it, its kind is the message number, *)
(* and its content is how the message fares in the decoders and in the     *)
(* cryptography, which are not modelled.                                   *)
(***************************************************************************)
EXTENDS Integers, SequencesExt

CONSTANTS
    BufferCapacity,      \* InputBuffer capacity, in units of input
    MaxPreKexPackets,    \* HandshakeConfig::max_pre_kex_packets
    MaxProtectedPackets, \* HandshakeConfig::max_protected_packets
    SequenceMod          \* 2^32, where a packet sequence number wraps

\* The client itself sends three packets before the keys are in use, so with
\* SequenceMod > 3 its own sequence number cannot wrap before that.
ASSUME HandshakeConfig ==
    /\ BufferCapacity \in Nat
    /\ MaxPreKexPackets \in Nat
    /\ MaxProtectedPackets \in Nat
    /\ SequenceMod \in Nat /\ SequenceMod > 3

VARIABLES
    phase,
    inbox,             \* InputBuffer: fed and not yet consumed
    out,               \* serialized and not yet taken
    pendingOutcome,    \* outcome to adopt once out has been taken
    outcome,
    strict,            \* strict KEX is negotiated
    guessWrong,        \* the server's guess was wrong
    guessDiscarded,
    preKexPackets,
    ephemeral,         \* the ephemeral key pair is held
    keys,              \* the derived keys are held
    signatureValid,    \* Option<bool>
    trust,             \* Option<TrustDecision>
    newkeysSent,       \* from here on packets are sealed (send_aead)
    newkeysReceived,   \* from here on packets are opened (recv_aead)
    sendSeq, recvSeq,
    protectedSent, protectedReceived,
    sent,              \* history: the messages taken by the host
    received           \* history: the kinds of the packets consumed

kexVars == <<strict, guessWrong, guessDiscarded, signatureValid, trust>>
secrets == <<ephemeral, keys>>
sending == <<newkeysSent, sendSeq, protectedSent>>
receiving == <<inbox, preKexPackets, newkeysReceived, recvSeq,
               protectedReceived, received>>
vars == <<phase, inbox, out, pendingOutcome, outcome, strict, guessWrong,
          guessDiscarded, preKexPackets, ephemeral, keys, signatureValid,
          trust, newkeysSent, newkeysReceived, sendSeq, recvSeq,
          protectedSent, protectedReceived, sent, received>>

----------------------------------------------------------------------------
Phase == {"ServerIdentification", "ServerKexInit", "EcdhReply",
          "TrustDecision", "ServerNewKeys", "Service", "Finished"}

Outcome == {"Completed", "HostNotTrusted", "SignatureInvalid",
            "NegotiationFailed", "StrictKexViolation", "ServerDisconnected",
            "UnexpectedMessage", "ProtocolError", "TagMismatch", "Limit",
            "InputOverflow", "Eof", "RekeyNotSupported"}

\* What the server may send.  Content "malformed" fails to decode; a KEXINIT
\* names the markers it carries; a reply is good only if key, agreement and
\* signature are.
Lines == [form : {"line"}, kind : {"IDENT"}, content : {"good", "malformed"}]
         \cup [form : {"line"}, kind : {"PRELUDE"}, content : {"good"}]
KexInits == [kind : {"KEXINIT"},
             content : {"malformed", "noMatch", "good", "goodWrongGuess",
                        "strict", "strictWrongGuess"}]
Bodies == KexInits
    \cup [kind : {"KEX_ECDH_REPLY"}, content : {"malformed", "badSignature", "good"}]
    \cup [kind : {"SERVICE_ACCEPT"}, content : {"malformed", "mismatch", "good"}]
    \cup [kind : {"NEWKEYS", "IGNORE_DEBUG", "UNIMPLEMENTED", "DISCONNECT", "EXT_INFO"},
          content : {"malformed", "good"}]
    \cup [kind : {"OTHER_KEX", "OTHER", "EMPTY"}, content : {"good"}]
Packet(form, b) == [form |-> form, kind |-> b.kind, content |-> b.content]
Input == Lines \cup {Packet("plain", b) : b \in Bodies}
               \cup {Packet("sealed", b) : b \in Bodies}

Malformed(m) == m.content = "malformed"
MethodSpecific(m) == m.kind \in {"KEX_ECDH_REPLY", "OTHER_KEX"}
Skippable(m) == m.kind \in {"IGNORE_DEBUG", "UNIMPLEMENTED"}

Bumped(seq) == (seq + 1) % SequenceMod
InitialKexDone == newkeysSent /\ newkeysReceived

\* The derived keys outlive the handshake.
FaultyFinish(o) ==
    /\ phase' = "Finished"
    /\ pendingOutcome' = "None"
    /\ ephemeral' = FALSE
    /\ outcome' = o
    /\ UNCHANGED keys

\* finish: the outcome is set and the secrets are dropped.  Output that is
\* already queued stays.
Finish(o) ==
    /\ phase' = "Finished"
    /\ pendingOutcome' = "None"
    /\ ephemeral' = FALSE
    /\ keys' = FALSE
    /\ outcome' = o

----------------------------------------------------------------------------
(* Host calls.                                                             *)

Feed(m) ==
    /\ outcome = "None"
    /\ Len(inbox) < BufferCapacity
    /\ inbox' = Append(inbox, m)
    /\ UNCHANGED <<phase, out, pendingOutcome, outcome, kexVars, preKexPackets, secrets,
                   sending, newkeysReceived, recvSeq, protectedReceived, sent, received>>

FeedOverflow ==
    /\ outcome = "None"
    /\ Len(inbox) >= BufferCapacity
    /\ Finish("InputOverflow")
    /\ UNCHANGED <<out, kexVars, sending, receiving, sent>>

TakeOutput ==
    /\ out # <<>>
    /\ sent' = sent \o out
    /\ out' = <<>>
    /\ UNCHANGED <<phase, pendingOutcome, outcome, kexVars, secrets, sending, receiving>>

InputEnded ==
    /\ outcome = "None"
    /\ Finish("Eof")
    /\ UNCHANGED <<out, kexVars, sending, receiving, sent>>

ProvideUntrusted ==
    /\ phase = "TrustDecision"
    /\ trust' = "Untrusted"
    /\ Finish("HostNotTrusted")
    /\ UNCHANGED <<out, strict, guessWrong, guessDiscarded, signatureValid, sending,
                   receiving, sent>>

\* The phase is not checked.
FaultyProvideTrusted ==
    /\ outcome = "None"
    /\ trust' = "Trusted"
    /\ out' = Append(out, "NEWKEYS")
    /\ newkeysSent' = TRUE
    /\ sendSeq' = IF strict THEN 0 ELSE Bumped(sendSeq)
    /\ phase' = "ServerNewKeys"
    /\ UNCHANGED <<pendingOutcome, outcome, strict, guessWrong, guessDiscarded,
                   signatureValid, secrets, protectedSent, receiving, sent>>

\* The sequence number is not reset.
FaultyProvideTrustedSeq ==
    /\ phase = "TrustDecision"
    /\ trust' = "Trusted"
    /\ out' = Append(out, "NEWKEYS")
    /\ newkeysSent' = TRUE
    /\ sendSeq' = Bumped(sendSeq)
    /\ phase' = "ServerNewKeys"
    /\ UNCHANGED <<pendingOutcome, outcome, strict, guessWrong, guessDiscarded,
                   signatureValid, secrets, protectedSent, receiving, sent>>

\* provide_trust with Trusted: NEWKEYS is queued and the sending direction
\* switches at once.
ProvideTrusted ==
    /\ phase = "TrustDecision"
    /\ trust' = "Trusted"
    /\ out' = Append(out, "NEWKEYS")
    /\ newkeysSent' = TRUE
    /\ sendSeq' = IF strict THEN 0 ELSE Bumped(sendSeq)
    /\ phase' = "ServerNewKeys"
    /\ UNCHANGED <<pendingOutcome, outcome, strict, guessWrong, guessDiscarded,
                   signatureValid, secrets, protectedSent, receiving, sent>>

----------------------------------------------------------------------------
(* step.                                                                   *)

\* The pending outcome does not wait for the output.
FaultyAdoptPending ==
    /\ pendingOutcome # "None"
    /\ Finish(pendingOutcome)
    /\ UNCHANGED <<out, kexVars, sending, receiving, sent>>

AdoptPending ==
    /\ outcome = "None"
    /\ out = <<>>
    /\ pendingOutcome # "None"
    /\ Finish(pendingOutcome)
    /\ UNCHANGED <<out, kexVars, sending, receiving, sent>>

\* step reaches the phase's own code with a complete unit of input.
Stepping(phases) ==
    /\ outcome = "None"
    /\ out = <<>>
    /\ pendingOutcome = "None"
    /\ phase \in phases
    /\ inbox # <<>>

Reject(o) ==
    /\ Finish(o)
    /\ UNCHANGED <<out, sending, newkeysReceived, sent>>

----------------------------------------------------------------------------
(* step_identification.                                                    *)

PreludeLine ==
    /\ Stepping({"ServerIdentification"})
    /\ Head(inbox).kind = "PRELUDE"
    /\ inbox' = Tail(inbox)
    /\ UNCHANGED <<phase, out, pendingOutcome, outcome, kexVars, preKexPackets, secrets,
                   sending, newkeysReceived, recvSeq, protectedReceived, sent, received>>

ServerIdentification ==
    /\ Stepping({"ServerIdentification"})
    /\ Head(inbox).kind = "IDENT" /\ ~Malformed(Head(inbox))
    /\ inbox' = Tail(inbox)
    /\ phase' = "ServerKexInit"
    /\ UNCHANGED <<out, pendingOutcome, outcome, kexVars, preKexPackets, secrets,
                   sending, newkeysReceived, recvSeq, protectedReceived, sent, received>>

\* A malformed line, a packet, or a line beyond the identification limits.
IdentificationError ==
    /\ Stepping({"ServerIdentification"})
    /\ Head(inbox).kind = "IDENT" => Malformed(Head(inbox))
    /\ Reject("ProtocolError")
    /\ UNCHANGED <<kexVars, inbox, preKexPackets, recvSeq, protectedReceived, received>>

----------------------------------------------------------------------------
(* step_unprotected, handle_unprotected and handle_kex_message.            *)

KexPhases == {"ServerKexInit", "EcdhReply", "ServerNewKeys"}

FramingError ==
    /\ Stepping(KexPhases)
    /\ Head(inbox).form # "plain"
    /\ Reject("ProtocolError")
    /\ UNCHANGED <<kexVars, inbox, preKexPackets, recvSeq, protectedReceived, received>>

\* The packet or the byte budget is used up.  Bytes are not counted here, so
\* any packet may be the one that exceeds them.
PreKexLimit ==
    /\ Stepping(KexPhases)
    /\ Head(inbox).form = "plain"
    /\ Reject("Limit")
    /\ UNCHANGED <<kexVars, inbox, preKexPackets, recvSeq, protectedReceived, received>>

\* The packet at the head is accounted for and consumed, except recvSeq.
Consume(m) ==
    /\ Stepping(KexPhases)
    /\ m = Head(inbox)
    /\ m.form = "plain"
    /\ preKexPackets < MaxPreKexPackets
    /\ preKexPackets' = preKexPackets + 1
    /\ inbox' = Tail(inbox)
    /\ received' = Append(received, m.kind)
    /\ UNCHANGED protectedReceived

\* bump_sequence: wrapping under strict KEX before the exchange is complete.
WrapFatal == strict /\ ~InitialKexDone /\ recvSeq = SequenceMod - 1

SequenceWrapped(m) ==
    /\ Consume(m)
    /\ WrapFatal
    /\ Reject("StrictKexViolation")
    /\ UNCHANGED <<kexVars, recvSeq>>

Unprotected(m) ==
    /\ Consume(m)
    /\ ~WrapFatal

\* More than one packet is taken for the guess.
FaultyDiscardable(m) == MethodSpecific(m) /\ phase = "EcdhReply" /\ guessWrong

\* The server's wrongly guessed first packet.
Discardable(m) ==
    MethodSpecific(m) /\ phase = "EcdhReply" /\ guessWrong /\ ~guessDiscarded

StrictIf(o) == IF strict THEN "StrictKexViolation" ELSE o
Unless(m, o) == IF Malformed(m) THEN "ProtocolError" ELSE o

MarksStrict(m) == m.content \in {"strict", "strictWrongGuess"}
MarksWrongGuess(m) == m.content \in {"goodWrongGuess", "strictWrongGuess"}

\* A strict KEXINIT may come after other packets.
FaultyKexInitFailure(m) ==
    CASE m.kind = "KEXINIT" ->
            IF m.content = "noMatch" THEN "NegotiationFailed" ELSE Unless(m, "None")
      [] Skippable(m) -> Unless(m, "None")
      [] m.kind = "DISCONNECT" -> Unless(m, "ServerDisconnected")
      [] m.kind = "EMPTY" -> "ProtocolError"
      [] OTHER -> "UnexpectedMessage"

\* Why a packet is rejected in the phase ServerKexInit, "None" if it is not.
\* The first KEXINIT decides whether the exchange is strict, and a strict one
\* must have been the first packet: preKexPackets counts those before it.
KexInitFailure(m) ==
    CASE m.kind = "KEXINIT" ->
            IF m.content = "noMatch" THEN "NegotiationFailed"
            ELSE IF MarksStrict(m) /\ preKexPackets # 0
            THEN "StrictKexViolation"
            ELSE Unless(m, "None")
      [] Skippable(m) -> Unless(m, "None")
      [] m.kind = "DISCONNECT" -> Unless(m, "ServerDisconnected")
      [] m.kind = "EMPTY" -> "ProtocolError"
      [] OTHER -> "UnexpectedMessage"

\* The same for EcdhReply and ServerNewKeys: the match of handle_kex_message.
KexMessageFailure(m) ==
    IF Discardable(m) THEN "None"
    ELSE IF m.kind = "KEX_ECDH_REPLY" /\ phase = "EcdhReply"
    THEN IF m.content = "badSignature" THEN "SignatureInvalid" ELSE Unless(m, "None")
    ELSE CASE m.kind = "NEWKEYS" /\ phase = "ServerNewKeys" -> Unless(m, "None")
           [] m.kind = "NEWKEYS" /\ phase # "ServerNewKeys" -> StrictIf("UnexpectedMessage")
           [] m.kind = "KEXINIT" \/ MethodSpecific(m) -> StrictIf("UnexpectedMessage")
           [] Skippable(m) -> StrictIf(Unless(m, "None"))
           [] m.kind = "DISCONNECT" -> Unless(m, StrictIf("ServerDisconnected"))
           [] m.kind = "EMPTY" -> "ProtocolError"
           [] OTHER -> "UnexpectedMessage"

UnprotectedFailure(m) ==
    IF phase = "ServerKexInit" THEN KexInitFailure(m) ELSE KexMessageFailure(m)

\* What a failed negotiation or a strict violation by the KEXINIT itself
\* still records of it.
RecordMarkers(m) ==
    /\ strict' \in CASE m.content = "noMatch" -> BOOLEAN
                     [] MarksStrict(m) -> {TRUE}
                     [] OTHER -> {strict}
    /\ guessWrong' = (guessWrong \/ MarksWrongGuess(m))

RejectUnprotected(m) ==
    /\ Unprotected(m)
    /\ UnprotectedFailure(m) # "None"
    /\ Reject(UnprotectedFailure(m))
    /\ recvSeq' = Bumped(recvSeq)
    /\ IF phase = "ServerKexInit" /\ m.kind = "KEXINIT"
       THEN RecordMarkers(m)
       ELSE UNCHANGED <<strict, guessWrong>>
    /\ signatureValid' = IF UnprotectedFailure(m) = "SignatureInvalid"
                         THEN "false" ELSE signatureValid
    /\ UNCHANGED <<guessDiscarded, trust>>

SkipUnprotected(m) ==
    /\ Unprotected(m)
    /\ UnprotectedFailure(m) = "None"
    /\ Skippable(m)
    /\ recvSeq' = Bumped(recvSeq)
    /\ UNCHANGED <<phase, out, pendingOutcome, outcome, kexVars, secrets, sending,
                   newkeysReceived, sent>>

OnServerKexInit(m) ==
    /\ Unprotected(m)
    /\ phase = "ServerKexInit"
    /\ m.kind = "KEXINIT"
    /\ UnprotectedFailure(m) = "None"
    /\ recvSeq' = Bumped(recvSeq)
    /\ strict' = MarksStrict(m)
    /\ guessWrong' = MarksWrongGuess(m)
    /\ out' = Append(out, "KEX_ECDH_INIT")
    /\ sendSeq' = Bumped(sendSeq)
    /\ phase' = "EcdhReply"
    /\ UNCHANGED <<pendingOutcome, outcome, guessDiscarded, signatureValid, trust,
                   secrets, newkeysSent, protectedSent, newkeysReceived, sent>>

DiscardGuess(m) ==
    /\ Unprotected(m)
    /\ Discardable(m)
    /\ guessDiscarded' = TRUE
    /\ recvSeq' = Bumped(recvSeq)
    /\ UNCHANGED <<phase, out, pendingOutcome, outcome, strict, guessWrong,
                   signatureValid, trust, secrets, sending, newkeysReceived, sent>>

\* The exchange hash is signed by the host key: keys are derived, K dropped.
OnEcdhReply(m) ==
    /\ Unprotected(m)
    /\ phase = "EcdhReply"
    /\ ~Discardable(m)
    /\ m.kind = "KEX_ECDH_REPLY" /\ m.content = "good"
    /\ recvSeq' = Bumped(recvSeq)
    /\ ephemeral' = FALSE
    /\ keys' = TRUE
    /\ signatureValid' = "true"
    /\ phase' = "TrustDecision"
    /\ UNCHANGED <<out, pendingOutcome, outcome, strict, guessWrong, guessDiscarded,
                   trust, sending, newkeysReceived, sent>>

\* The receiving direction switches; the service is requested.
OnServerNewKeys(m) ==
    /\ Unprotected(m)
    /\ phase = "ServerNewKeys"
    /\ m.kind = "NEWKEYS" /\ ~Malformed(m)
    /\ newkeysReceived' = TRUE
    /\ keys' = FALSE
    /\ recvSeq' = IF strict THEN 0 ELSE Bumped(recvSeq)
    /\ phase' = "Service"
    /\ out' = Append(out, "SERVICE_REQUEST")
    /\ protectedSent' = protectedSent + 1
    /\ sendSeq' = Bumped(sendSeq)
    /\ UNCHANGED <<pendingOutcome, outcome, kexVars, ephemeral, newkeysSent, sent>>

----------------------------------------------------------------------------
(* step_protected and handle_protected.                                    *)

\* A packet that was not sealed with the server's key, or not in its turn.
TagMismatch ==
    /\ Stepping({"Service"})
    /\ Head(inbox).form # "sealed"
    /\ \E o \in {"TagMismatch", "ProtocolError"} : Reject(o)
    /\ UNCHANGED <<kexVars, inbox, preKexPackets, recvSeq, protectedReceived, received>>

ProtectedLimit ==
    /\ Stepping({"Service"})
    /\ Head(inbox).form = "sealed"
    /\ protectedReceived >= MaxProtectedPackets
    /\ inbox' = Tail(inbox)
    /\ Reject("Limit")
    /\ UNCHANGED <<kexVars, preKexPackets, recvSeq, protectedReceived, received>>

\* The packet at the head is opened, accounted for and consumed.
Protected(m) ==
    /\ Stepping({"Service"})
    /\ m = Head(inbox)
    /\ m.form = "sealed"
    /\ protectedReceived < MaxProtectedPackets
    /\ protectedReceived' = protectedReceived + 1
    /\ recvSeq' = Bumped(recvSeq)
    /\ inbox' = Tail(inbox)
    /\ received' = Append(received, m.kind)
    /\ UNCHANGED <<kexVars, preKexPackets>>

ProtectedFailure(m) ==
    CASE m.kind = "EXT_INFO" /\ protectedReceived = 0 -> Unless(m, "None")
      [] m.kind = "IGNORE_DEBUG" -> Unless(m, "None")
      [] m.kind = "SERVICE_ACCEPT" ->
            IF m.content = "mismatch" THEN "ProtocolError" ELSE Unless(m, "None")
      [] m.kind = "DISCONNECT" -> Unless(m, "ServerDisconnected")
      [] m.kind = "KEXINIT" -> "None"
      [] m.kind = "EMPTY" -> "ProtocolError"
      [] OTHER -> "UnexpectedMessage"

RejectProtected(m) ==
    /\ Protected(m)
    /\ ProtectedFailure(m) # "None"
    /\ Reject(ProtectedFailure(m))

\* IGNORE, DEBUG, or EXT_INFO as the first protected packet.
SkipProtected(m) ==
    /\ Protected(m)
    /\ ProtectedFailure(m) = "None"
    /\ m.kind \in {"EXT_INFO", "IGNORE_DEBUG"}
    /\ UNCHANGED <<phase, out, pendingOutcome, outcome, secrets, sending,
                   newkeysReceived, sent>>

SendDisconnect ==
    /\ out' = Append(out, "DISCONNECT")
    /\ protectedSent' = protectedSent + 1
    /\ sendSeq' = Bumped(sendSeq)
    /\ UNCHANGED newkeysSent

OnServiceAccept(m) ==
    /\ Protected(m)
    /\ m.kind = "SERVICE_ACCEPT"
    /\ ProtectedFailure(m) = "None"
    /\ SendDisconnect
    /\ pendingOutcome' = "Completed"
    /\ UNCHANGED <<phase, outcome, secrets, newkeysReceived, sent>>

\* A re-exchange request is refused.
OnRekey(m) ==
    /\ Protected(m)
    /\ m.kind = "KEXINIT"
    /\ SendDisconnect
    /\ pendingOutcome' = "RekeyNotSupported"
    /\ UNCHANGED <<phase, outcome, secrets, newkeysReceived, sent>>

----------------------------------------------------------------------------
\* build: the identification and KEXINIT are queued together.
Init ==
    /\ phase = "ServerIdentification"
    /\ inbox = <<>>
    /\ out = <<"IDENT", "KEXINIT">>
    /\ pendingOutcome = "None" /\ outcome = "None"
    /\ strict = FALSE /\ guessWrong = FALSE /\ guessDiscarded = FALSE
    /\ preKexPackets = 0
    /\ ephemeral = TRUE /\ keys = FALSE
    /\ signatureValid = "None" /\ trust = "None"
    /\ newkeysSent = FALSE /\ newkeysReceived = FALSE
    /\ sendSeq = 1 /\ recvSeq = 0
    /\ protectedSent = 0 /\ protectedReceived = 0
    /\ sent = <<>> /\ received = <<>>

KexStep(m) ==
    \/ SequenceWrapped(m) \/ RejectUnprotected(m) \/ SkipUnprotected(m)
    \/ OnServerKexInit(m) \/ DiscardGuess(m) \/ OnEcdhReply(m) \/ OnServerNewKeys(m)
ServiceStep(m) ==
    \/ RejectProtected(m) \/ SkipProtected(m) \/ OnServiceAccept(m) \/ OnRekey(m)
Step ==
    \/ AdoptPending
    \/ PreludeLine \/ ServerIdentification \/ IdentificationError
    \/ FramingError \/ PreKexLimit
    \/ \E m \in Input : KexStep(m)
    \/ TagMismatch \/ ProtectedLimit
    \/ \E m \in Input : ServiceStep(m)
HostCall ==
    \/ \E m \in Input : Feed(m)
    \/ FeedOverflow \/ TakeOutput \/ InputEnded \/ ProvideUntrusted \/ ProvideTrusted

Next == Step \/ HostCall

Spec == Init /\ [][Next]_vars

----------------------------------------------------------------------------
(* Properties.                                                             *)

Sendable == {"IDENT", "KEXINIT", "KEX_ECDH_INIT", "NEWKEYS", "SERVICE_REQUEST",
             "DISCONNECT"}

\* Types of the state machine's fields; the input buffer and the two packet
\* counters stay within their limits.
TypeOK ==
    /\ phase \in Phase
    /\ inbox \in Seq(Input) /\ Len(inbox) <= BufferCapacity
    /\ out \in Seq(Sendable) /\ sent \in Seq(Sendable)
    /\ received \in Seq({m.kind : m \in Input})
    /\ outcome \in Outcome \cup {"None"}
    /\ pendingOutcome \in {"None", "Completed", "RekeyNotSupported"}
    /\ strict \in BOOLEAN /\ guessWrong \in BOOLEAN /\ guessDiscarded \in BOOLEAN
    /\ ephemeral \in BOOLEAN /\ keys \in BOOLEAN
    /\ newkeysSent \in BOOLEAN /\ newkeysReceived \in BOOLEAN
    /\ preKexPackets \in 0..MaxPreKexPackets
    /\ signatureValid \in {"None", "true", "false"}
    /\ trust \in {"None", "Trusted", "Untrusted"}
    /\ sendSeq \in 0..(SequenceMod - 1) /\ recvSeq \in 0..(SequenceMod - 1)
    /\ protectedSent \in Nat
    /\ protectedReceived \in 0..MaxProtectedPackets

\* The message is in the output queue or was taken from it.
Queued(msg) == \/ \E i \in DOMAIN sent : sent[i] = msg
               \/ \E i \in DOMAIN out : out[i] = msg

\* "Nothing further is sent until provide_trust answers": neither NEWKEYS
\* nor anything after it leaves the client unless the host signature was
\* verified and the host was trusted, whatever the server sends and in
\* whatever order the host calls.
TrustGate ==
    newkeysSent \/ Queued("NEWKEYS") \/ Queued("SERVICE_REQUEST") \/ Queued("DISCONNECT")
        => signatureValid = "true" /\ trust = "Trusted"

\* The secrets are there when a handler expects them (its expect calls never
\* fail) and nowhere else: gone once the receiving direction has switched
\* and whenever the handshake is over.
SecretsWhenNeeded ==
    /\ keys <=> phase \in {"TrustDecision", "ServerNewKeys"}
    /\ ephemeral <=> phase \in {"ServerIdentification", "ServerKexInit", "EcdhReply"}
    /\ phase = "Service" => newkeysSent /\ newkeysReceived
    /\ phase = "Finished" <=> outcome # "None"

Script == <<"IDENT", "KEXINIT", "KEX_ECDH_INIT", "NEWKEYS", "SERVICE_REQUEST",
            "DISCONNECT">>

\* The output contract: whatever has been queued is a prefix of one script,
\* and at most one message set is queued at a time.
OutputContract ==
    /\ IsPrefix(sent \o out, Script)
    /\ Len(out) <= (IF sent = <<>> THEN 2 ELSE 1)

\* Strict KEX as it is meant: when the server's NEWKEYS has been accepted,
\* the packets received up to it were KEXINIT, at most one wrongly guessed
\* packet, KEX_ECDH_REPLY and NEWKEYS, and nothing else, from the first one
\* on.
StrictTranscript ==
    strict /\ newkeysReceived =>
        LET kex == SubSeq(received, 1, preKexPackets) IN
        \/ kex = <<"KEXINIT", "KEX_ECDH_REPLY", "NEWKEYS">>
        \/ /\ guessWrong
           /\ \E guess \in {"KEX_ECDH_REPLY", "OTHER_KEX"} :
                 kex = <<"KEXINIT", guess, "KEX_ECDH_REPLY", "NEWKEYS">>

\* Sequence numbers: under strict KEX both directions count from NEWKEYS,
\* otherwise from the first packet (the client sends three before its
\* NEWKEYS takes effect).
SequenceNumbers ==
    /\ newkeysSent => sendSeq = ((IF strict THEN 0 ELSE 3) + protectedSent) % SequenceMod
    /\ outcome = "None" =>
          recvSeq = ((IF strict /\ newkeysReceived THEN 0 ELSE preKexPackets)
                        + protectedReceived) % SequenceMod

\* What an outcome says did happen.  Completed: verified, trusted, both sides
\* switched, the service accepted by the holder of the keys.  Completed and
\* RekeyNotSupported: the whole script was taken by the host, DISCONNECT
\* included.  HostNotTrusted: NEWKEYS was neither sent nor queued.
OutcomeMeans ==
    /\ outcome = "Completed" =>
          /\ signatureValid = "true" /\ trust = "Trusted"
          /\ newkeysSent /\ newkeysReceived
          /\ Last(received) = "SERVICE_ACCEPT"
    /\ outcome \in {"Completed", "RekeyNotSupported"} => sent = Script /\ out = <<>>
    /\ outcome = "HostNotTrusted" => sent \o out = SubSeq(Script, 1, 3)

\* The client speaks from one script and its outcome says how far it got.
ScriptFollowed == OutputContract /\ OutcomeMeans
============================================================================
