----------------------------- MODULE KnownHosts -----------------------------
(***************************************************************************)
(* The known_hosts policy (tatami_ssh_keys: known_hosts.rs, trust.rs): a   *)
(* file is validated as a whole, bound to the logical name of one host and *)
(* port, and then judges a host key.                                       *)
(*                                                                         *)
(* A host, a pattern and a lookup name are sequences of characters; of a   *)
(* line only what decides its fate is kept: whether it is too long or      *)
(* blank, whether it is broken before or after its host field, and its     *)
(* marker, host field and key.  A key stands for its blob and its SHA-256. *)
(***************************************************************************)
EXTENDS Integers, Sequences, FiniteSets, FiniteSetsExt

CONSTANTS
    Keys,                 \* public keys
    KeyType,              \* the algorithm of each
    MaxEntries,           \* Limits::max_entries
    MaxPatternsPerLine,   \* Limits::max_patterns_per_line
    MaxLookupNameBytes,   \* MAX_LOOKUP_NAME_BYTES
    HashedHosts           \* built with openssh-hashed-hosts

ASSUME KnownHostsConfig ==
    /\ {MaxEntries, MaxPatternsPerLine, MaxLookupNameBytes} \subseteq Nat \ {0}
    /\ HashedHosts \in BOOLEAN
    /\ DOMAIN KeyType = Keys

DefaultPort == "22"

----------------------------------------------------------------------------
(* Names.                                                                  *)

LowerCase == [A |-> "a", B |-> "b"]

ToAsciiLowercase(s) ==
    [i \in DOMAIN s |-> IF s[i] \in DOMAIN LowerCase THEN LowerCase[s[i]] ELSE s[i]]

InvalidCharacters == {" ", ",", "[", "]", "*", "?", "!"}

\* The name for a non-default port cannot be confused with that of a host.
NameOf(host, port) ==
    IF port = DefaultPort THEN ToAsciiLowercase(host)
    ELSE <<"[">> \o ToAsciiLowercase(host) \o <<"]", ":", port>>

LookupNameOk(host, port) ==
    /\ host # <<>>
    /\ \A i \in DOMAIN host : host[i] \notin InvalidCharacters
    /\ Len(NameOf(host, port)) <= MaxLookupNameBytes

----------------------------------------------------------------------------
(* glob_match.                                                             *)

\* The loop's state: the next positions in pattern and name, counted from 1,
\* and the single backtrack point, where sp = 0 stands for None.
GlobLoop(P, N) ==
    {s \in [p : 1..(P + 1), n : 1..(N + 1), sp : 0..P, sn : 0..(N + 1)] : s.sn <= s.n}

\* Only the star seen last is retried, and only once.
FaultyGlobMatch(pattern, name) ==
    LET P == Len(pattern)
        N == Len(name)
        match[s \in GlobLoop(P, N)] ==
            IF s.n > N THEN \A i \in s.p..P : pattern[i] = "*"
            ELSE IF s.p <= P /\ pattern[s.p] \in {"?", name[s.n]}
                 THEN match[[s EXCEPT !.p = @ + 1, !.n = @ + 1]]
            ELSE IF s.p <= P /\ pattern[s.p] = "*"
                 THEN match[[p |-> s.p + 1, n |-> s.n, sp |-> s.p, sn |-> s.n]]
            ELSE IF s.sp # 0 /\ s.sn < s.n
                 THEN match[[s EXCEPT !.p = s.sp + 1, !.sn = s.n]]
            ELSE FALSE
    IN match[[p |-> 1, n |-> 1, sp |-> 0, sn |-> 0]]

GlobMatch(pattern, name) ==
    LET P == Len(pattern)
        N == Len(name)
        match[s \in GlobLoop(P, N)] ==
            IF s.n > N THEN \A i \in s.p..P : pattern[i] = "*"
            ELSE IF s.p <= P /\ pattern[s.p] \in {"?", name[s.n]}
                 THEN match[[s EXCEPT !.p = @ + 1, !.n = @ + 1]]
            ELSE IF s.p <= P /\ pattern[s.p] = "*"
                 THEN match[[p |-> s.p + 1, n |-> s.n, sp |-> s.p, sn |-> s.n]]
            ELSE IF s.sp # 0
                 THEN match[[p |-> s.sp + 1, n |-> s.sn + 1, sp |-> s.sp, sn |-> s.sn + 1]]
            ELSE FALSE
    IN match[[p |-> 1, n |-> 1, sp |-> 0, sn |-> 0]]

----------------------------------------------------------------------------
(* Parsing.                                                                *)

\* A pattern list or a hashed name: |1|salt|hash matches the one name it was
\* made from.
Patterns(list) == [hashed |-> FALSE, list |-> list, name |-> <<>>, wellFormed |-> TRUE]
Hashed(name, ok) == [hashed |-> TRUE, list |-> <<>>, name |-> name, wellFormed |-> ok]

\* parse_hosts
HostsError(hosts) ==
    IF hosts.hashed
    THEN IF ~HashedHosts THEN "unsupported"
         ELSE IF hosts.wellFormed THEN "none" ELSE "malformed"
    ELSE IF \/ Len(hosts.list) > MaxPatternsPerLine
            \/ \E i \in DOMAIN hosts.list :
                  hosts.list[i].text = <<>> \/ hosts.list[i].text[1] = "|"
         THEN "malformed" ELSE "none"

\* parse_line: the marker is read before the host field, the key after it.
LineError(line) ==
    IF line.broken = "marker" THEN "malformed"
    ELSE IF HostsError(line.hosts) # "none" THEN HostsError(line.hosts)
    ELSE IF line.broken = "key" THEN "malformed" ELSE "none"

IsEntry(line) == line.kind = "entry"

\* What is wrong with line i of a file whose lines before it are all right.
ErrorAt(lines, i) ==
    CASE lines[i].kind = "long" -> "malformed"
      [] lines[i].kind = "blank" -> "none"
      [] OTHER -> IF Cardinality({j \in 1..(i - 1) : IsEntry(lines[j])}) >= MaxEntries
                  THEN "malformed" ELSE LineError(lines[i])

\* KnownHosts::parse stops at the first error.
ParseError(lines) ==
    LET bad == {i \in DOMAIN lines : ErrorAt(lines, i) # "none"}
    IN IF bad = {} THEN "none" ELSE ErrorAt(lines, Min(bad))

Entries(lines) ==
    {[line |-> i, marker |-> lines[i].marker, hosts |-> lines[i].hosts, key |-> lines[i].key] :
        i \in {j \in DOMAIN lines : IsEntry(lines[j])}}

\* Entry::applies_to: a negated match excludes, whatever else matches.
AppliesTo(entry, name) ==
    IF entry.hosts.hashed THEN entry.hosts.name = name
    ELSE LET list == entry.hosts.list
             matching == {i \in DOMAIN list :
                             GlobMatch(ToAsciiLowercase(list[i].text), name)}
         IN matching # {} /\ \A i \in matching : ~list[i].negated

\* policy_for_name: what it keeps of the entries that apply.
PolicyForName(entries, name) ==
    {[line |-> e.line, marker |-> e.marker, key |-> e.key] :
        e \in {f \in entries : Len(name) <= MaxLookupNameBytes /\ AppliesTo(f, name)}}

----------------------------------------------------------------------------
(* Decisions.                                                              *)

Trusted(source, line) == [trusted |-> TRUE, why |-> source, line |-> line]
Untrusted(reason, line) == [trusted |-> FALSE, why |-> reason, line |-> line]
NoLine == 0

FirstLine(entries) == Min({e.line : e \in entries})

\* A plain match wins over a revocation.
FaultyDecide(applicable, key) ==
    LET plain == {a \in applicable : a.marker = "none"}
        listing == {a \in plain : a.key = key}
    IN IF listing # {} THEN Trusted("known_hosts", FirstLine(listing))
       ELSE Untrusted("unknown_host", NoLine)

\* KnownHostsPolicy::decide
Decide(applicable, key) ==
    LET with(marker) == {a \in applicable : a.marker = marker}
        listing(marker) == {a \in with(marker) : a.key = key}
        sameAlg == {a \in with("none") : KeyType[a.key] = KeyType[key]}
    IN CASE listing("revoked") # {} -> Untrusted("revoked", FirstLine(listing("revoked")))
         [] listing("revoked") = {} /\ listing("none") # {} ->
               Trusted("known_hosts", FirstLine(listing("none")))
         [] OTHER ->
               IF sameAlg # {} THEN Untrusted("key_changed", FirstLine(sameAlg))
               ELSE IF with("none") # {} THEN Untrusted("no_key_for_algorithm", NoLine)
               ELSE IF with("cert_authority") # {}
                    THEN Untrusted("certificate_authority_only", NoLine)
               ELSE Untrusted("unknown_host", NoLine)

\* PinnedSha256::decide
DecidePin(pin, key) ==
    IF key = pin THEN Trusted("pinned_fingerprint", NoLine)
    ELSE Untrusted("fingerprint_mismatch", NoLine)

----------------------------------------------------------------------------
(* What the file says, independently of how the code finds it out: the     *)
(* reference that fuzz_targets/known_hosts.rs compares the policy with.    *)

\* glob_ref: m[<<i, j>>] says that the first i of pattern match the first j
\* of name.
GlobRef(pattern, name) ==
    LET m[c \in (0..Len(pattern)) \X (0..Len(name))] ==
            LET i == c[1]
                j == c[2]
            IN IF i = 0 THEN j = 0
               ELSE IF pattern[i] = "*" THEN m[<<i - 1, j>>] \/ (j > 0 /\ m[<<i, j - 1>>])
               ELSE j > 0 /\ pattern[i] \in {"?", name[j]} /\ m[<<i - 1, j - 1>>]
    IN m[<<Len(pattern), Len(name)>>]

\* Line::applies: some pattern matches and no negated one does.
Applies(line, name) ==
    /\ IsEntry(line)
    /\ LET hit(negated) == \E i \in DOMAIN line.hosts.list :
                              /\ line.hosts.list[i].negated = negated
                              /\ GlobRef(ToAsciiLowercase(line.hosts.list[i].text), name)
       IN IF line.hosts.hashed THEN line.hosts.name = name ELSE hit(FALSE) /\ ~hit(TRUE)

\* expected: the documented order of decisions over the lines of the file,
\* for every key that may be offered.
Expected(lines, name) ==
    LET applicable == {i \in DOMAIN lines : Applies(lines[i], name)}
        about(marker, keys) == {i \in applicable : /\ lines[i].marker = marker
                                                   /\ lines[i].key \in keys}
        alike(key) == {k \in Keys : KeyType[k] = KeyType[key]}
    IN [offered \in Keys |->
          IF about("revoked", {offered}) # {}
          THEN Untrusted("revoked", Min(about("revoked", {offered})))
          ELSE IF about("none", {offered}) # {}
          THEN Trusted("known_hosts", Min(about("none", {offered})))
          ELSE IF about("none", alike(offered)) # {}
          THEN Untrusted("key_changed", Min(about("none", alike(offered))))
          ELSE IF about("none", Keys) # {} THEN Untrusted("no_key_for_algorithm", NoLine)
          ELSE IF about("cert_authority", Keys) # {}
          THEN Untrusted("certificate_authority_only", NoLine)
          ELSE Untrusted("unknown_host", NoLine)]
=============================================================================
