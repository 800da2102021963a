------------------------------ MODULE ClientMC ------------------------------
(***************************************************************************)
(* An instance of Client.  Every argument vector of up to four options is  *)
(* tried.  The files are those of one line with one pattern of up to three *)
(* characters, of one line with two patterns, and of up to three lines out *)
(* of a few that interact: revocations, negations, other algorithms, a CA, *)
(* hashed names, broken and overlong lines.                                *)
(***************************************************************************)
EXTENDS Client

MCKeys == {"k1", "k2", "r1"}
MCKeyType == [k1 |-> "ed25519", k2 |-> "ed25519", r1 |-> "rsa"]

Words == {"host", "tcp", "quic", "alpn", "host-key-sha256", "known-hosts",
          "cert-sha256", "root-cert", "help", "unknown", "bogus"}

MCCommandLines ==
    {<<>>, <<"help">>, <<"version">>, <<"unknown">>}
    \cup {<<"probe">> \o s : s \in BoundedSeq(Words, 2)}
    \cup {<<"handshake">> \o s : s \in BoundedSeq(Words, 4)}

MCHosts == {<<"a">>, <<"A", "b">>, <<"a", "b", "a">>, <<"a", "*">>, <<"a", "b", "a", "b">>}
MCPorts == {"22", "2"}

Entry(marker, hosts, key, broken) ==
    [kind |-> "entry", marker |-> marker, hosts |-> hosts, key |-> key, broken |-> broken]
Pattern(negated, text) == [negated |-> negated, text |-> text]
One(text) == Patterns(<<Pattern(FALSE, text)>>)
Plain(hosts, key) == Entry("none", hosts, key, "none")

OnePattern ==
    {<<Plain(One(text), "k1")>> : text \in BoundedSeq({"a", "B", "?", "*"}, 3)}
    \cup {<<Plain(One(<<"*", "a", "b", "*">>), "k1")>>, <<Plain(One(<<"*", "a", "?", "b">>), "k1")>>,
          <<Plain(One(<<"|", "a">>), "k1")>>}

TwoPatterns ==
    {<<Plain(Patterns(<<Pattern(n1, t1), Pattern(n2, t2)>>), "k1")>> :
        n1 \in BOOLEAN, n2 \in BOOLEAN,
        t1 \in {<<"*">>, <<"A", "*">>, <<"a">>},
        t2 \in {<<"*">>, <<"A", "*">>, <<"?", "b">>}}
    \cup {<<Plain(Patterns([i \in 1..3 |-> Pattern(FALSE, <<"a">>)]), "k1")>>}

Everyone == One(<<"*">>)
BracketA == One(<<"[", "a", "]", ":", "2">>)

SomeLines ==
    {Plain(Everyone, "k1"), Plain(BracketA, "k2"), Plain(Everyone, "r1"),
     Entry("revoked", Everyone, "k1", "none"), Entry("revoked", One(<<"a">>), "r1", "none"),
     Entry("cert_authority", Everyone, "k1", "none"),
     Entry("revoked", Hashed(<<"a">>, TRUE), "k1", "none"), Plain(Hashed(<<"a">>, FALSE), "k1"),
     Entry("none", Everyone, "k1", "marker"), Entry("revoked", Everyone, "k1", "key"),
     [Plain(Everyone, "k1") EXCEPT !.kind = "blank"], [Plain(Everyone, "k1") EXCEPT !.kind = "long"]}

Three == {Plain(Everyone, "k1"), Entry("revoked", Everyone, "k1", "none"),
          [Plain(Everyone, "k1") EXCEPT !.kind = "blank"]}
ThreeLines == {<<x, y, z>> : x \in Three, y \in Three, z \in Three}

MCFiles == OnePattern \cup TwoPatterns \cup BoundedSeq(SomeLines, 2) \cup ThreeLines
=============================================================================
