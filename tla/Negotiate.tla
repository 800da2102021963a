----------------------------- MODULE Negotiate -----------------------------
(***************************************************************************)
(* Algorithm negotiation (crates/tatami_ssh_tcp/src/negotiate.rs): the     *)
(* client's proposal, RFC 4253 section 7.1 applied to it and a server's    *)
(* proposal, the strict key exchange markers and the check against the     *)
(* implemented profile.  Pure operators over lists of names.               *)
(*                                                                         *)
(* A proposal is a record of sequences of names; the MAC and language      *)
(* lists, which the code never consults, are left out.                     *)
(***************************************************************************)
EXTENDS Naturals, Sequences, SequencesExt

Curve25519 == "curve25519-sha256"
Aes128Gcm == "aes128-gcm@openssh.com"
None == "none"

\* SignatureScheme: the host-key algorithms that can be verified.
Schemes == {"ssh-ed25519", "ecdsa-sha2-nistp256", "rsa-sha2-512",
            "rsa-sha2-256"}

StrictMarkers == {"kex-strict-c", "kex-strict-c-v00@openssh.com",
                  "kex-strict-s", "kex-strict-s-v00@openssh.com"}

Markers == {"ext-info-c", "ext-info-s"} \cup StrictMarkers

-----------------------------------------------------------------------------

\* HostKeyAlgorithms::new: non-empty and free of duplicates.
HostKeyAlgorithms(lists) ==
    {l \in lists : l # <<>> /\ IsInjective(l) /\ ToSet(l) \subseteq Schemes}

\* ClientProposal::encode: the real method first, then the optional markers.
ClientProposal(extInfo, strict, hostKeys) ==
    [kex |-> <<Curve25519>>
             \o (IF extInfo THEN <<"ext-info-c">> ELSE <<>>)
             \o (IF strict THEN <<"kex-strict-c-v00@openssh.com",
                                  "kex-strict-c">> ELSE <<>>),
     hostKey |-> hostKeys,
     cipherC2S |-> <<Aes128Gcm>>, cipherS2C |-> <<Aes128Gcm>>,
     compressionC2S |-> <<None>>, compressionS2C |-> <<None>>,
     follows |-> FALSE]

IsAead(cipher) == cipher = Aes128Gcm

FaultyIsMethod(name) == TRUE

IsMethod(name) == name \notin Markers

\* The key exchange methods among the names of a proposal.
Methods(proposal) == {name \in ToSet(proposal.kex) : IsMethod(name)}

\* The first entry of a list that is one of the names, as an Option: the
\* sequence of at most one element.
FirstIn(list, names) ==
    LET at == {i \in DOMAIN list : list[i] \in names}
    IN  IF at = {} THEN <<>> ELSE <<list[Min(at)]>>

First(list) == FirstIn(list, ToSet(list))

FirstMethod(proposal) == FirstIn(proposal.kex, Methods(proposal))

\* First entry of the client's list that also appears in the server's.
FirstCommon(client, server) == FirstIn(client, ToSet(server))

StrictKexAgreed(client, server) ==
    LET Offers(proposal, name) == name \in ToSet(proposal.kex)
    IN  \/ /\ Offers(client, "kex-strict-c-v00@openssh.com")
           /\ Offers(server, "kex-strict-s-v00@openssh.com")
        \/ /\ Offers(client, "kex-strict-c")
           /\ Offers(server, "kex-strict-s")

\* The server sent a guessed packet and either first choice differs.
ServerGuessWrong(client, server) ==
    server.follows /\ ~(/\ FirstMethod(client) = FirstMethod(server)
                        /\ First(client.hostKey) = First(server.hostKey))

\* The selected names, each an Option.
Selection(client, server) ==
    [kex |-> FirstIn(client.kex, Methods(client) \cap Methods(server)),
     hostKey |-> FirstCommon(client.hostKey, server.hostKey),
     cipherC2S |-> FirstCommon(client.cipherC2S, server.cipherC2S),
     cipherS2C |-> FirstCommon(client.cipherS2C, server.cipherS2C),
     compressionC2S |-> FirstCommon(client.compressionC2S,
                                    server.compressionC2S),
     compressionS2C |-> FirstCommon(client.compressionS2C,
                                    server.compressionS2C),
     strictKex |-> StrictKexAgreed(client, server),
     extInfo |-> "ext-info-s" \in ToSet(server.kex),
     guessWrong |-> ServerGuessWrong(client, server)]

\* The MAC of an AEAD cipher is implicit; no other is implemented.
MacFor(cipher) == IF \A c \in ToSet(cipher) : IsAead(c) THEN <<"implicit">> ELSE <<>>

\* negotiate: the first failure in the order of the code, with its direction,
\* or "ok".
NegotiationError(s) ==
    LET found == <<s.kex, s.hostKey, s.cipherC2S, s.cipherS2C,
                   MacFor(s.cipherC2S), MacFor(s.cipherS2C),
                   s.compressionC2S, s.compressionS2C>>
        errors == <<"NoCommonKex", "NoCommonHostKey",
                    "NoCommonCipherC2S", "NoCommonCipherS2C",
                    "NoMacImplementedC2S", "NoMacImplementedS2C",
                    "NoCommonCompressionC2S", "NoCommonCompressionS2C">>
        failing == {i \in DOMAIN found : found[i] = <<>>}
    IN  IF failing = {} THEN "ok" ELSE errors[Min(failing)]

\* Negotiated::check_profile on a successful negotiation.
CheckProfile(s) ==
    /\ s.kex = <<Curve25519>>
    /\ s.hostKey[1] \in Schemes
    /\ IsAead(s.cipherC2S[1]) /\ IsAead(s.cipherS2C[1])
    /\ s.compressionC2S = <<None>> /\ s.compressionS2C = <<None>>

\* The handshake's use of both: an error code or "ok".
NegotiationOutcome(s) ==
    IF NegotiationError(s) # "ok" THEN NegotiationError(s)
    ELSE IF CheckProfile(s) THEN "ok" ELSE "UnsupportedSelection"
=============================================================================
