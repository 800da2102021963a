--------------------------- MODULE HandshakeModel ---------------------------
(***************************************************************************)
(* What the client handshake must make of a server, whatever it sends: the *)
(* model of the project's fuzz target (fuzz/protocol/fuzz_targets/         *)
(* tcp_handshake.rs, struct Model).  It goes through what the server sends *)
(* item by item and keeps what the report must say at the end.  It has no  *)
(* buffer, no output to be taken, no secrets and no sequence numbers.      *)
(*                                                                         *)
(* The fuzz target fixes a scenario in advance; here each item is any that *)
(* a server may send (see Handshake).  The decision of the trust policy,   *)
(* which the model looks up while it handles the reply, is a step.         *)
(***************************************************************************)
EXTENDS Naturals, Sequences

CONSTANTS Input,             \* what a server may send
          MaxPreKexPackets   \* the packets allowed before the keys are in use

VARIABLES
    stage,                \* phase_at_end, "Finished" once there is an outcome
    outcome,
    strict, guessWrong, guessDiscarded,
    signatureValid, trust,
    newkeysReceived,
    unprotectedReceived, protectedReceived, protectedSent,
    clientMessages        \* what the client must have sent, in order

found == <<strict, guessWrong, guessDiscarded, signatureValid, trust, newkeysReceived>>
counts == <<unprotectedReceived, protectedReceived, protectedSent>>
vars == <<stage, outcome, found, counts, clientMessages>>

----------------------------------------------------------------------------
Broken(m) == m.content = "malformed"
Number(m, kinds) == m.kind \in kinds
Transport == {"IGNORE_DEBUG", "UNIMPLEMENTED"}
KexMethod == {"KEX_ECDH_REPLY", "OTHER_KEX"}

\* exact and strict of Model: the first outcome stays.
Exact(o) == outcome' = o /\ stage' = "Finished"
Quiet == UNCHANGED <<found, clientMessages>>

\* unprotected: one framed packet is counted.
Counted(m) ==
    /\ m.form = "plain"
    /\ unprotectedReceived < MaxPreKexPackets
    /\ unprotectedReceived' = unprotectedReceived + 1
    /\ UNCHANGED <<protectedReceived, protectedSent>>

\* A budget refuses a packet; bytes are not counted here.
Limited == stage # "Finished" /\ Exact("Limit") /\ Quiet /\ UNCHANGED counts

\* The stream ends without a terminal outcome.
StreamEnds == stage # "Finished" /\ Exact("Eof") /\ Quiet /\ UNCHANGED counts

----------------------------------------------------------------------------
(* Up to the server's KEXINIT.                                             *)

Identified(m) ==
    /\ stage = "ServerIdentification"
    /\ IF m.kind = "IDENT" /\ ~Broken(m)
       THEN stage' = "ServerKexInit" /\ UNCHANGED outcome
       ELSE Exact("ProtocolError")
    /\ Quiet /\ UNCHANGED counts

BadFrame(m) ==
    /\ stage \in {"ServerKexInit", "EcdhReply", "ServerNewKeys"}
    /\ m.form # "plain"
    /\ Exact("ProtocolError") /\ Quiet /\ UNCHANGED counts

\* Transport messages are accepted provisionally.
PreKexInit(m) ==
    /\ stage = "ServerKexInit" /\ Counted(m)
    /\ \/ m.kind = "EMPTY" /\ Exact("ProtocolError")
       \/ /\ Broken(m) /\ Number(m, Transport \cup {"KEXINIT", "DISCONNECT"})
          /\ Exact("ProtocolError")
       \/ Number(m, Transport) /\ ~Broken(m) /\ UNCHANGED <<stage, outcome>>
       \/ m.kind = "DISCONNECT" /\ ~Broken(m) /\ Exact("ServerDisconnected")
       \/ /\ ~Number(m, Transport \cup {"EMPTY", "KEXINIT", "DISCONNECT"})
          /\ Exact("UnexpectedMessage")
    /\ Quiet

\* The proposals have nothing in common; the markers are still evaluated.
NegotiationFails(m) ==
    /\ stage = "ServerKexInit" /\ Counted(m)
    /\ m.kind = "KEXINIT" /\ m.content = "noMatch"
    /\ Exact("NegotiationFailed")
    /\ strict' \in BOOLEAN
    /\ UNCHANGED <<guessWrong, guessDiscarded, signatureValid, trust, newkeysReceived,
                   clientMessages>>

\* A strict exchange must have begun with this packet.
ServerKexInit(m) ==
    /\ stage = "ServerKexInit" /\ Counted(m)
    /\ m.kind = "KEXINIT" /\ m.content \notin {"malformed", "noMatch"}
    /\ strict' = (m.content \in {"strict", "strictWrongGuess"})
    /\ guessWrong' = (m.content \in {"goodWrongGuess", "strictWrongGuess"})
    /\ IF strict' /\ unprotectedReceived > 0
       THEN Exact("StrictKexViolation") /\ UNCHANGED clientMessages
       ELSE /\ clientMessages' = Append(clientMessages, "KEX_ECDH_INIT")
            /\ stage' = "EcdhReply" /\ UNCHANGED outcome
    /\ UNCHANGED <<guessDiscarded, signatureValid, trust, newkeysReceived>>

----------------------------------------------------------------------------
(* Everything unprotected after KEXINIT.                                   *)

\* kex_phase_rule: a message that is neither the one awaited nor skipped.
KexPhaseRule(m) ==
    IF strict /\ Number(m, {"KEXINIT", "NEWKEYS", "DISCONNECT"} \cup KexMethod \cup Transport)
    THEN "StrictKexViolation" ELSE "UnexpectedMessage"

\* kex_phase_malformed: what is decoded before the strict rule applies.
DecodedFirst(m) ==
    \/ m.kind = "DISCONNECT"
    \/ Number(m, Transport) /\ ~strict
    \/ m.kind = "NEWKEYS" /\ stage = "ServerNewKeys"

Awaited(m) == \/ stage = "EcdhReply" /\ m.kind = "KEX_ECDH_REPLY"
              \/ stage = "ServerNewKeys" /\ m.kind = "NEWKEYS"

\* The wrongly guessed first packet, whatever it is, even the real reply.
WrongGuess(m) ==
    stage = "EcdhReply" /\ Number(m, KexMethod) /\ guessWrong /\ ~guessDiscarded

KexItem(m) == stage \in {"EcdhReply", "ServerNewKeys"} /\ Counted(m)

Discarded(m) ==
    /\ KexItem(m) /\ WrongGuess(m)
    /\ guessDiscarded' = TRUE
    /\ UNCHANGED <<stage, outcome, strict, guessWrong, signatureValid, trust,
                   newkeysReceived, clientMessages>>

Skipped(m) ==
    /\ KexItem(m)
    /\ Number(m, Transport) /\ ~Broken(m) /\ ~strict
    /\ UNCHANGED <<stage, outcome>> /\ Quiet

Refused(m) ==
    /\ KexItem(m) /\ ~WrongGuess(m)
    /\ \/ m.kind = "EMPTY" /\ Exact("ProtocolError")
       \/ Broken(m) /\ DecodedFirst(m) /\ Exact("ProtocolError")
       \/ m.kind = "DISCONNECT" /\ ~Broken(m) /\ ~strict /\ Exact("ServerDisconnected")
       \/ /\ Broken(m) /\ ~DecodedFirst(m) /\ ~Awaited(m)
          /\ Exact(KexPhaseRule(m))
       \/ /\ ~Broken(m) /\ ~Awaited(m) /\ m.kind # "EMPTY"
          /\ Number(m, Transport \cup {"DISCONNECT"}) => strict
          /\ Exact(KexPhaseRule(m))
    /\ Quiet

\* reply: decoding, agreement and signature.
Reply(m) ==
    /\ KexItem(m) /\ ~WrongGuess(m)
    /\ stage = "EcdhReply" /\ m.kind = "KEX_ECDH_REPLY"
    /\ CASE Broken(m) -> Exact("ProtocolError") /\ UNCHANGED signatureValid
         [] m.content = "badSignature" ->
               Exact("SignatureInvalid") /\ signatureValid' = "false"
         [] m.content = "good" ->
               /\ stage' = "TrustDecision" /\ signatureValid' = "true"
               /\ UNCHANGED outcome
    /\ UNCHANGED <<strict, guessWrong, guessDiscarded, trust, newkeysReceived,
                   clientMessages>>

Decided(decision) ==
    /\ stage = "TrustDecision"
    /\ trust' = decision
    /\ IF decision = "Trusted"
       THEN /\ clientMessages' = Append(clientMessages, "NEWKEYS")
            /\ stage' = "ServerNewKeys" /\ UNCHANGED outcome
       ELSE Exact("HostNotTrusted") /\ UNCHANGED clientMessages
    /\ UNCHANGED <<strict, guessWrong, guessDiscarded, signatureValid, newkeysReceived,
                   counts>>

\* protected_phase begins with the service request.
NewKeys(m) ==
    /\ stage = "ServerNewKeys" /\ m.kind = "NEWKEYS" /\ ~Broken(m)
    /\ m.form = "plain" /\ unprotectedReceived < MaxPreKexPackets
    /\ unprotectedReceived' = unprotectedReceived + 1
    /\ newkeysReceived' = TRUE
    /\ stage' = "Service"
    /\ clientMessages' = Append(clientMessages, "SERVICE_REQUEST")
    /\ protectedSent' = protectedSent + 1
    /\ UNCHANGED <<outcome, strict, guessWrong, guessDiscarded, signatureValid, trust,
                   protectedReceived>>

----------------------------------------------------------------------------
(* protected_phase.                                                        *)

\* BadLength and tampered packets are never counted.
Tampered(m) ==
    /\ stage = "Service" /\ m.form # "sealed"
    /\ \E o \in {"TagMismatch", "ProtocolError"} : Exact(o)
    /\ Quiet /\ UNCHANGED counts

\* What a protected packet leads to, "Skipped" if it is passed over.
Expected(m, first) ==
    IF m.kind = "EXT_INFO" /\ ~first THEN "UnexpectedMessage"
    ELSE IF \/ m.kind = "EMPTY"
            \/ /\ Broken(m)
               /\ Number(m, {"EXT_INFO", "IGNORE_DEBUG", "DISCONNECT", "SERVICE_ACCEPT"})
    THEN "ProtocolError"
    ELSE CASE Number(m, {"EXT_INFO", "IGNORE_DEBUG"}) -> "Skipped"
           [] m.kind = "SERVICE_ACCEPT" ->
                 IF m.content = "good" THEN "Completed" ELSE "ProtocolError"
           [] m.kind = "DISCONNECT" -> "ServerDisconnected"
           [] m.kind = "KEXINIT" -> "RekeyNotSupported"
           [] OTHER -> "UnexpectedMessage"

\* The client says good-bye when it got what it asked for, and when it is
\* asked for a new key exchange.
Prot(m) ==
    /\ stage = "Service" /\ m.form = "sealed"
    /\ protectedReceived' = protectedReceived + 1
    /\ LET o == Expected(m, protectedReceived = 0) IN
       /\ IF o = "Skipped" THEN UNCHANGED <<stage, outcome>> ELSE Exact(o)
       /\ IF o \in {"Completed", "RekeyNotSupported"}
          THEN /\ clientMessages' = Append(clientMessages, "DISCONNECT")
               /\ protectedSent' = protectedSent + 1
          ELSE UNCHANGED <<clientMessages, protectedSent>>
    /\ UNCHANGED <<found, unprotectedReceived>>

----------------------------------------------------------------------------
Init ==
    /\ stage = "ServerIdentification" /\ outcome = "None"
    /\ strict = FALSE /\ guessWrong = FALSE /\ guessDiscarded = FALSE
    /\ signatureValid = "None" /\ trust = "None" /\ newkeysReceived = FALSE
    /\ unprotectedReceived = 0 /\ protectedReceived = 0 /\ protectedSent = 0
    /\ clientMessages = <<"KEXINIT">>

Item(m) ==
    \/ Identified(m) \/ BadFrame(m) \/ PreKexInit(m) \/ NegotiationFails(m)
    \/ ServerKexInit(m) \/ Discarded(m) \/ Skipped(m) \/ Refused(m) \/ Reply(m)
    \/ NewKeys(m) \/ Tampered(m) \/ Prot(m)

Next ==
    \/ \E m \in Input : Item(m)
    \/ \E decision \in {"Trusted", "Untrusted"} : Decided(decision)
    \/ Limited \/ StreamEnds

Spec == Init /\ [][Next]_vars
=============================================================================
