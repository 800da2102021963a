--------------------------- MODULE NegotiateModel ---------------------------
(***************************************************************************)
(* The reference model negotiation is fuzzed against (negotiate_ref of     *)
(* fuzz/protocol/src/kex_support.rs and the checks of tcp_negotiation.rs), *)
(* stated by positions in the two proposals: which name an answer may      *)
(* carry and exactly when each error is due.                               *)
(***************************************************************************)
EXTENDS Naturals, Sequences

MARKERS == {"ext-info-c", "ext-info-s", "kex-strict-c", "kex-strict-s",
            "kex-strict-c-v00@openssh.com", "kex-strict-s-v00@openssh.com"}

RefIsMarker(name) == name \in MARKERS

ListedIn(list, name) == \E i \in DOMAIN list : list[i] = name

\* Only the names of kex_algorithms may be markers, which are no methods.
Eligible(field, name) == field = "kex" => ~RefIsMarker(name)

\* first_common, and the filter on kex: name is the first entry of the
\* client's list, markers skipped, that the server lists.
IsFirstCommon(field, client, server, name) ==
    \E i \in DOMAIN client :
        /\ client[i] = name /\ Eligible(field, name) /\ ListedIn(server, name)
        /\ \A j \in 1 .. (i - 1) :
              ~Eligible(field, client[j]) \/ ~ListedIn(server, client[j])

NothingCommon(field, client, server) ==
    \A i \in DOMAIN client :
        ~Eligible(field, client[i]) \/ ~ListedIn(server, client[i])

\* first_method: name is the first that is eligible; there may be none.
IsFirstMethod(field, list, name) ==
    \E i \in DOMAIN list :
        /\ list[i] = name /\ Eligible(field, name)
        /\ \A j \in 1 .. (i - 1) : ~Eligible(field, list[j])

SameFirst(field, one, other) ==
    \A k \in {one[i] : i \in DOMAIN one} \cup {other[i] : i \in DOMAIN other} :
        IsFirstMethod(field, one, k) <=> IsFirstMethod(field, other, k)

\* strict: a marker of each role in one and the same spelling.
RefStrict(client, server) ==
    \E pair \in {<<"kex-strict-c", "kex-strict-s">>,
                 <<"kex-strict-c-v00@openssh.com", "kex-strict-s-v00@openssh.com">>} :
        ListedIn(client.kex, pair[1]) /\ ListedIn(server.kex, pair[2])

\* The lists in the order in which they are negotiated, with their errors.
Negotiated == <<"kex", "hostKey", "cipherC2S", "cipherS2C",
                "compressionC2S", "compressionS2C">>
NoCommon == <<"NoCommonKex", "NoCommonHostKey", "NoCommonCipherC2S", "NoCommonCipherS2C",
              "NoCommonCompressionC2S", "NoCommonCompressionS2C">>

\* An error is due when its list is the first without a common name.
FirstFailure(client, server, i) ==
    LET None(j) == NothingCommon(Negotiated[j], client[Negotiated[j]], server[Negotiated[j]])
    IN None(i) /\ \A j \in 1 .. (i - 1) : ~None(j)

\* negotiate, and check_proposal: with a proposal of this client nothing else
\* can fail, and success is the implemented profile.
AgreesWithModel(client, server, selection, outcome) ==
    /\ \/ /\ outcome = "ok"
          /\ \A i \in DOMAIN Negotiated :
                \E name \in {"curve25519-sha256", "aes128-gcm@openssh.com", "none",
                             "ssh-ed25519", "ecdsa-sha2-nistp256",
                             "rsa-sha2-512", "rsa-sha2-256"} :
                    /\ selection[Negotiated[i]] = <<name>>
                    /\ IsFirstCommon(Negotiated[i], client[Negotiated[i]],
                                     server[Negotiated[i]], name)
       \/ \E i \in DOMAIN Negotiated :
             outcome = NoCommon[i] /\ FirstFailure(client, server, i)
    /\ selection.strictKex = RefStrict(client, server)
    /\ selection.extInfo = ListedIn(server.kex, "ext-info-s")
    /\ selection.guessWrong =
          (server.follows /\ ~(/\ SameFirst("kex", client.kex, server.kex)
                               /\ SameFirst("hostKey", client.hostKey, server.hostKey)))
=============================================================================
