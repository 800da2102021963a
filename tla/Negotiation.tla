---------------------------- MODULE Negotiation ----------------------------
(***************************************************************************)
(* The negotiation of one connection (handshake.rs, on the server's        *)
(* KEXINIT): this client's proposal meets whatever a server proposes, and  *)
(* the selection is adopted when it is usable.                             *)
(***************************************************************************)
EXTENDS Negotiate, NegotiateModel

CONSTANTS
    KexNames, HostKeyNames, CipherNames, CompressionNames,
    MaxNames,   \* bound on the length of a kex or host-key list
    MaxOthers   \* bound on the length of a server's other lists

ASSUME NegotiationConstants == MaxNames \in Nat /\ MaxOthers \in Nat

VARIABLES client, server, selection, verdict

negotiationVars == <<client, server, selection, verdict>>

Lists(names, max) == UNION {[1 .. n -> names] : n \in 0 .. max}

ClientProposals ==
    {ClientProposal(extInfo, offersStrict, hostKeys) :
        extInfo \in BOOLEAN, offersStrict \in BOOLEAN,
        hostKeys \in HostKeyAlgorithms(Lists(HostKeyNames, MaxNames))}

\* What any server may propose.
ServerProposals ==
    [kex : Lists(KexNames, MaxNames), hostKey : Lists(HostKeyNames, MaxNames),
     cipherC2S : Lists(CipherNames, MaxOthers),
     cipherS2C : Lists(CipherNames, MaxOthers),
     compressionC2S : Lists(CompressionNames, MaxOthers),
     compressionS2C : Lists(CompressionNames, MaxOthers),
     follows : BOOLEAN]

NoProposal == [follows |-> FALSE]

NegotiationInit ==
    /\ client \in ClientProposals /\ server \in ServerProposals
    /\ selection = NoProposal /\ verdict = "pending"

\* The server's KEXINIT is handled: negotiate, then check_profile.
NegotiateProposals ==
    /\ verdict = "pending"
    /\ selection' = Selection(client, server)
    /\ verdict' = NegotiationOutcome(selection')
    /\ UNCHANGED <<client, server>>

\* The new keys are taken into use and the proposals are dropped.
ProposalsDone ==
    /\ verdict = "ok"
    /\ verdict' = "protected"
    /\ client' = NoProposal /\ server' = NoProposal /\ selection' = NoProposal

NegotiationNext == NegotiateProposals \/ ProposalsDone

NegotiationSpec == NegotiationInit /\ [][NegotiationNext]_negotiationVars

-----------------------------------------------------------------------------

\* What is selected, what is refused and why are what the reference model
\* says, whatever the server lists: the first real name of the client that
\* the server lists too, the error of the first list without one, never a
\* marker and never a selection the crate does not implement.
AsModelled ==
    verdict \notin {"pending", "protected"} =>
        AgreesWithModel(client, server, selection, verdict)

\* A packet the server sent ahead is kept only if it was made for the very
\* algorithms that were selected (server_guess_wrong).
GuessedPacketUsable ==
    (verdict = "ok" /\ server.follows /\ ~selection.guessWrong)
    => /\ \E name \in ToSet(server.kex) :
             /\ selection.kex = <<name>>
             /\ IsFirstMethod("kex", server.kex, name)
       /\ server.hostKey # <<>> /\ selection.hostKey = <<server.hostKey[1]>>

\* Negotiation answers as the reference model does, and a packet that was
\* guessed can be used if it is kept.
NegotiationSound == AsModelled /\ GuessedPacketUsable
=============================================================================
