------------------------------ MODULE KeysRef ------------------------------
(***************************************************************************)
(* What the host keys are fuzzed against: the reference layouts of         *)
(* fuzz_targets/key_blobs.rs, read by offsets, and the harness's own DER   *)
(* writer (keys_support.rs, der).  For a SubjectPublicKeyInfo the target   *)
(* asks that what is accepted be exactly what that writer makes of a key.  *)
(***************************************************************************)
EXTENDS Keys, WireRef

RefPositive(body) ==
    /\ body # <<>> /\ ~HighBit(body[1])
    /\ body[1] = 0 => Len(body) > 1 /\ HighBit(body[2])
RefMagnitude(body) == IF body[1] = 0 THEN Tail(body) ELSE body

RefBitLen(m) == IF m = <<>> THEN 0 ELSE Len(m) * 4 - Cardinality({k \in 1..4 : m[1] < 2^(4 - k)})

\* The fields of a blob in order, the integers among them by their rule.
RefFields(layout, in) ==
    LET at == Offsets(layout, in, 0)
        Body(k) == RefValue("string", in, at[k])
        IsInteger(k) == layout[k] \in {"e", "n", "r", "s"}
        Unreadable(k) == RefExtentError("string", in, at[k]) # <<>>
        bad == {k \in DOMAIN layout : \/ Unreadable(k)
                                      \/ IsInteger(k) /\ ~RefPositive(Body(k))}
        k == First(bad)
    IN IF bad # {} /\ Unreadable(k)
       THEN Err(<<"Field", layout[k], at[k], RefExtentError("string", in, at[k])>>)
       ELSE IF bad # {} THEN Err(<<"NonCanonicalInteger", layout[k]>>)
       ELSE IF Last(at) # Len(in) THEN Err(<<"TrailingBytes", Len(in) - Last(at)>>)
       ELSE Ok([i \in DOMAIN layout |->
                   IF IsInteger(i) THEN RefMagnitude(Body(i)) ELSE Body(i)])

RsaPolicy(e, n) ==
    IF \/ Len(e) > MaxExponentBytes \/ Last(e) % 2 = 0
       \/ Len(e) = 1 /\ e[1] < 3
    THEN <<"RsaExponent">>
    ELSE IF \/ RefBitLen(n) < MinModulusBits \/ RefBitLen(n) > MaxModulusBits
            \/ Last(n) % 2 = 0
    THEN <<"RsaModulus", RefBitLen(n)>>
    ELSE <<>>

RefEd25519(f) ==
    IF ~f.ok THEN f
    ELSE IF Len(f.value[2]) # PublicKeyLen
    THEN Err(<<"WrongLength", "key", PublicKeyLen, Len(f.value[2])>>)
    ELSE IF ValidPoint(f.value[2]) THEN Ok(Ed25519(f.value[2]))
    ELSE Err(<<"InvalidKey">>)

RefRsa(f) ==
    IF ~f.ok THEN f
    ELSE IF RsaPolicy(f.value[2], f.value[3]) # <<>>
    THEN Err(RsaPolicy(f.value[2], f.value[3]))
    ELSE Ok(Rsa(f.value[2], f.value[3]))

RefP256(f) ==
    IF ~f.ok THEN f
    ELSE IF f.value[2] # Curve THEN Err(<<"CurveMismatch">>)
    ELSE IF Len(f.value[3]) = PointLen /\ f.value[3][1] = Uncompressed
    THEN Ok(EcdsaP256(f.value[3]))
    ELSE Err(<<"PointEncoding">>)

RefHostKey(in) ==
    LET error == RefExtentError("string", in, 0)
        algorithm == RefValue("string", in, 0)
    IN IF error # <<>> THEN Err(<<"Field", "algorithm", 0, error>>)
       ELSE CASE algorithm = TypeName.Ed25519 ->
                    RefEd25519(RefFields(<<"algorithm", "key">>, in))
              [] algorithm = TypeName.Rsa ->
                    RefRsa(RefFields(<<"algorithm", "e", "n">>, in))
              [] algorithm = TypeName.EcdsaP256 ->
                    RefP256(RefFields(<<"algorithm", "curve", "Q">>, in))
              [] OTHER -> Err(<<"UnsupportedAlgorithm", algorithm>>)

\* ref_fixed
RefFixed(f) ==
    LET long == {i \in {1, 2} : Len(f.value[i]) > ScalarLen}
        Digit(v, i) == IF i > ScalarLen - Len(v) THEN v[Len(v) - ScalarLen + i] ELSE 0
    IN IF ~f.ok THEN f
       ELSE IF long # {} THEN Err(<<"ScalarTooLong", <<"r", "s">>[First(long)]>>)
       ELSE Ok([i \in 1..(2 * ScalarLen) |->
                   IF i <= ScalarLen THEN Digit(f.value[1], i)
                   ELSE Digit(f.value[2], i - ScalarLen)])

\* pre_parse_error, then what the signature bytes must be and the verdict
RefVerify(key, scheme, f, provider, genuine) ==
    LET label == f.value[1]
        sig == f.value[2]
        fixed == RefFixed(RefFields(<<"r", "s">>, sig))
        full == IF key.type = "Rsa" THEN Len(key.n) ELSE SignatureLen
        shortest == IF key.type = "Rsa" THEN 1 ELSE SignatureLen
    IN IF ~f.ok THEN f
       ELSE IF label # SchemeName[scheme] THEN Err(<<"UnexpectedSignatureAlgorithm", label>>)
       ELSE IF KeyTypeOf(scheme) # key.type THEN Err(<<"AlgorithmMismatch", label>>)
       ELSE IF scheme # "Ed25519" /\ scheme \notin provider
       THEN Err(<<"ProviderUnavailable", scheme>>)
       ELSE IF key.type = "EcdsaP256" /\ ~fixed.ok
       THEN Err(<<"MalformedSignature", fixed.error>>)
       ELSE IF key.type # "EcdsaP256" /\ (Len(sig) < shortest \/ Len(sig) > full)
       THEN Err(<<"MalformedSignature", <<"WrongLength", "signature", full, Len(sig)>>>>)
       ELSE IF \/ key.type = "EcdsaP256" /\ fixed.value = genuine
               \/ key.type # "EcdsaP256" /\ StripLeadingZeros(sig) = StripLeadingZeros(genuine)
       THEN Ok("verified")
       ELSE Err(<<"Invalid">>)

----------------------------------------------------------------------------
(* The hand layouts.                                                       *)

SshString(bytes) == <<Len(bytes) \div Radix, Len(bytes) % Radix>> \o bytes
MpintBody(m) ==
    LET v == StripLeadingZeros(m) IN IF v # <<>> /\ HighBit(v[1]) THEN <<0>> \o v ELSE v

HandBlob(key) ==
    SshString(TypeName[key.type]) \o
    (CASE key.type = "Ed25519"   -> SshString(key.key)
       [] key.type = "Rsa"       -> SshString(MpintBody(key.e)) \o SshString(MpintBody(key.n))
       [] key.type = "EcdsaP256" -> SshString(Curve) \o SshString(key.point))

\* The bytes of a length in der::tlv.
HandLength ==
    [n \in 0..MaxU32 |->
        LET be == StripLeadingZeros(<<n \div Radix, n % Radix>>)
        IN IF n < Radix \div 2 THEN <<n>> ELSE <<LongForm(Len(be))>> \o be]

HandTlv(tag, content) == <<tag>> \o HandLength[Len(content)] \o content

HandUint(m) ==
    LET v == StripLeadingZeros(m)
    IN HandTlv(TagInteger, IF v = <<>> \/ HighBit(v[1]) THEN <<0>> \o v ELSE v)

\* der::spki, rsa_spki, p256_spki
HandSpki(key) ==
    LET Spki(alg, bits) == HandTlv(TagSequence, HandTlv(TagSequence, alg)
                                                \o HandTlv(TagBitString, <<0>> \o bits))
        Oid(oid) == HandTlv(TagOid, oid)
    IN CASE key.type = "Ed25519"   -> Spki(Oid(OidEd25519), key.key)
         [] key.type = "EcdsaP256" -> Spki(Oid(OidEc) \o Oid(OidPrime256v1), key.point)
         [] key.type = "Rsa" ->
               Spki(Oid(OidRsa) \o HandTlv(TagNull, <<>>),
                    HandTlv(TagSequence, HandUint(key.n) \o HandUint(key.e)))

\* A key that the documented policy accepts.
Acceptable(key) ==
    CASE key.type = "Ed25519"   -> Len(key.key) = PublicKeyLen /\ ValidPoint(key.key)
      [] key.type = "Rsa"       -> RsaPolicy(key.e, key.n) = <<>>
      [] key.type = "EcdsaP256" -> Len(key.point) = PointLen /\ key.point[1] = Uncompressed
============================================================================
