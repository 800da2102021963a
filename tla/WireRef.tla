------------------------------ MODULE WireRef ------------------------------
(***************************************************************************)
(* The oracle the wire codecs are fuzzed against (fuzz/wire-core): "an     *)
(* independent restatement of the RFC grammar or wire layout", written in  *)
(* another shape than the codecs.  A value is cut out of the payload by    *)
(* offsets computed from its length prefix, a name list is split at its    *)
(* commas, an identification is scanned by runs of token bytes.            *)
(***************************************************************************)
EXTENDS Wire

----------------------------------------------------------------------------
(* namelist_ref and ident_ref.                                             *)

\* The segments between commas, empty ones included: where each starts, and
\* where it ends.
SegmentStarts(body) == {0} \cup Positions(body, Comma)
SegmentEnd(body, start) ==
    First({p \in Positions(body, Comma) : p > start} \cup {Len(body) + 1})

\* The first segment that offends decides.
RefNameListError(body) ==
    LET Bad(start) == {i \in (start + 1)..(SegmentEnd(body, start) - 1) :
                          ~IsNameByte(body[i])}
        IsEmpty(start) == SegmentEnd(body, start) = start + 1
        offending == {start \in SegmentStarts(body) : IsEmpty(start) \/ Bad(start) # {}}
        start == First(offending)
    IN IF body = <<>> \/ offending = {} THEN <<>>
       ELSE IF IsEmpty(start) THEN <<"NameListEmptyName", start>>
       ELSE <<"NameListNonAscii", First(Bad(start)) - 1>>

TokenRun(s) == First({n \in 0..Len(s) : n = Len(s) \/ ~IsTokenByte(s[n + 1])})

RefIdent(in) ==
    LET rest == SubSeq(in, 3, Len(in))
        p == TokenRun(rest)
        after == SubSeq(rest, p + 2, Len(rest))
        s == TokenRun(after)
        accepts == /\ \A i \in DOMAIN in : ~IsForbiddenByte(in[i])
                   /\ Len(in) >= 2 /\ in[1] = LetterS /\ in[2] = Dash
                   /\ p > 0 /\ p < Len(rest) /\ rest[p + 1] = Dash
                   /\ s > 0 /\ (s < Len(after) => after[s + 1] = Space)
    IN IF ~accepts THEN <<>>
       ELSE <<[version |-> SubSeq(rest, 1, p), software |-> SubSeq(after, 1, s),
               comments |-> IF s = Len(after) THEN <<>>
                            ELSE <<SubSeq(after, s + 2, Len(after))>>]>>

----------------------------------------------------------------------------
(* cursor and messages_ref, kex_ref.  The layouts are restated.            *)

RefMessageLayout ==
    [Disconnect |-> <<"reason_code", "description", "language_tag">>,
     Ignore |-> <<"data">>,
     Unimplemented |-> <<"sequence_number">>,
     Debug |-> <<"always_display", "message", "language_tag">>,
     KexInit |-> <<"cookie", "kex", "host_key", "enc_cs", "enc_sc", "mac_cs", "mac_sc",
                   "comp_cs", "comp_sc", "lang_cs", "lang_sc",
                   "first_kex_packet_follows", "reserved">>,
     ChannelOpen |-> <<"channel_type", "sender_channel", "initial_window_size",
                       "maximum_packet_size", "type_specific">>,
     ChannelOpenConfirmation |-> <<"recipient_channel", "sender_channel",
                       "initial_window_size", "maximum_packet_size", "type_specific">>,
     ChannelOpenFailure |-> <<"recipient_channel", "reason_code", "description",
                              "language_tag">>]

RefKexLayout ==
    [KexEcdhInit    |-> <<"client_ephemeral">>,
     KexEcdhReply   |-> <<"host_key_blob", "server_ephemeral", "signature_blob">>,
     NewKeys        |-> <<>>,
     ServiceRequest |-> <<"service_name">>,
     ServiceAccept  |-> <<"service_name">>]
RefLayout == RefMessageLayout @@ RefKexLayout

\* The uint32 at pos, by shifts (bytes::be_u32).
RefU32(in, pos) == in[pos + 1] * Radix + in[pos + 2]

\* How many bytes a field takes at pos, its prefix included, whether or not
\* they are there.
Extent(type, in, pos) ==
    CASE type = "bool" -> 1
      [] type = "u32" -> 2
      [] type = "cookie" -> CookieLen
      [] type = "rest" -> Len(in) - pos
      [] OTHER -> IF pos + 2 <= Len(in) THEN 2 + RefU32(in, pos) ELSE 2

\* An absent <<>>, or the error of the field at pos: of its extent, and of
\* the names of a list.
RefExtentError(type, in, pos) ==
    LET available == Len(in) - pos
        extent == Extent(type, in, pos)
    IN IF extent <= available THEN <<>>
       ELSE IF type \in {"string", "name_list"} /\ available >= 2
       THEN <<"LengthOverflow", extent - 2, available - 2>>
       ELSE <<"Truncated", extent, available>>

RefError(type, in, pos) ==
    LET body == SubSeq(in, pos + 3, pos + Extent(type, in, pos))
    IN IF RefExtentError(type, in, pos) # <<>> THEN RefExtentError(type, in, pos)
       ELSE IF type = "name_list" /\ RefNameListError(body) # <<>>
       THEN <<"InvalidEncoding", RefNameListError(body)>>
       ELSE <<>>

RefValue(type, in, pos) ==
    LET n == Extent(type, in, pos)
    IN CASE type = "u32"  -> RefU32(in, pos)
         [] type = "bool" -> in[pos + 1] # 0
         [] type \in {"cookie", "rest"} -> SubSeq(in, pos + 1, pos + n)
         [] OTHER -> SubSeq(in, pos + 3, pos + n)

\* The offset of each field and of the end of the message, were every field
\* complete.
Offsets(layout, in, start) ==
    LET at[k \in 0..Len(layout)] ==
            IF k = 0 THEN <<start>>
            ELSE LET before == at[k - 1]
                 IN Append(before, Last(before) + Extent(TypeOf(layout[k]), in, Last(before)))
    IN at[Len(layout)]

\* A message whose fields are at the offsets at.
RefDecode(kind, in, at) ==
    LET layout == RefLayout[kind]
        errors == [k \in DOMAIN layout |-> RefError(TypeOf(layout[k]), in, at[k])]
        bad == {k \in DOMAIN layout : errors[k] # <<>>}
        k == First(bad)
        end == Last(at)
    IN IF in = <<>> THEN Err(<<"Empty">>)
       ELSE IF in[1] # Number[kind] THEN Err(<<"UnexpectedMessage", Number[kind], in[1]>>)
       ELSE IF bad # {}
       THEN Err(<<"Field", layout[k], at[k], errors[k]>>)
       ELSE IF end # Len(in) THEN Err(<<"TrailingBytes", Len(in) - end>>)
       ELSE Ok([f \in Range(layout) |->
                   LET i == First({j \in DOMAIN layout : layout[j] = f})
                   IN RefValue(TypeOf(f), in, at[i])])

\* ext_info_header, ext_info_validate
RefExtInfo(in) ==
    LET n == RefU32(in, 1)
        available == Len(in) - 3
        strings == [k \in 1..(2 * n) |-> IF k % 2 = 1 THEN "name" ELSE "value"]
        at == Offsets(strings, in, 3)
        bad == {k \in DOMAIN strings :
                   \/ k % 2 = 1 /\ at[k] = Len(in)
                   \/ RefExtentError("string", in, at[k]) # <<>>}
        k == First(bad)
    IN IF in = <<>> THEN Err(<<"Empty">>)
       ELSE IF in[1] # Number.ExtInfo THEN Err(<<"UnexpectedMessage", Number.ExtInfo, in[1]>>)
       ELSE IF Len(in) < 3
       THEN Err(<<"Field", "nr-extensions", 1, <<"Truncated", 2, Len(in) - 1>>>>)
       ELSE IF n > available \div 4
       THEN Err(<<"Field", "nr-extensions", 1, <<"LengthOverflow", n, available>>>>)
       ELSE IF n > MaxExtensions THEN Err(<<"TooManyExtensions", n, MaxExtensions>>)
       ELSE IF bad # {} /\ k % 2 = 1 /\ at[k] = Len(in)
       THEN Err(<<"CountMismatch", n, (k - 1) \div 2>>)
       ELSE IF bad # {}
       THEN Err(<<"Field", strings[k], at[k], RefExtentError("string", in, at[k])>>)
       ELSE IF Last(at) # Len(in) THEN Err(<<"TrailingBytes", Len(in) - Last(at)>>)
       ELSE Ok([j \in 1..n |-> [name |-> RefValue("string", in, at[2 * j - 1]),
                                value |-> RefValue("string", in, at[2 * j])]])

\* server_sig_algs
RefServerSigAlgs(pairs) ==
    LET at == {k \in DOMAIN pairs : pairs[k].name = SigAlgsName}
        list == pairs[First(at)].value
    IN IF at = {} THEN "None"
       ELSE IF RefNameListError(list) = <<>> THEN Ok(list)
       ELSE Err(RefNameListError(list))

----------------------------------------------------------------------------
(* mpint_ref: "canonicality is decided by asking whether removing the      *)
(* first byte would change the value".                                     *)

RefIsCanonical(m) ==
    \/ m = <<>>
    \/ m[1] = 0 /\ Len(m) > 1 /\ HighBit(m[2])
    \/ m[1] = Radix - 1 /\ (Len(m) = 1 \/ ~HighBit(m[2]))
    \/ m[1] \notin {0, Radix - 1}
=============================================================================
