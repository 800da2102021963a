----------------------------- MODULE ObserverMC -----------------------------
(***************************************************************************)
(* What clients send in the observer's run: every kind of first line, and  *)
(* after an identification up to two packets that are skipped, a packet of *)
(* every kind, and one more.                                               *)
(***************************************************************************)
EXTENDS Observer

P(packetLength, paddingLength, message, wellFormed) ==
    [packetLength |-> packetLength, paddingLength |-> paddingLength,
     message |-> message, wellFormed |-> wellFormed, from |-> 0]
L(class, tell, len) == [class |-> class, tell |-> tell, len |-> len, from |-> 0]

\* KEXINIT takes at least 72 bytes on the wire.
KexInit == P(68, 4, "KexInit", TRUE)
Ignore  == P(12, 6, "Ignore", TRUE)
Skips   == {Ignore, P(20, 9, "Debug", TRUE), P(12, 6, "Unimplemented", TRUE)}
Lasts   == Skips \union
    { KexInit, P(20, 4, "Disconnect", TRUE), P(12, 6, "Ignore", FALSE),
      P(12, 10, "NewKeys", TRUE), P(20, 6, "KexMethod", TRUE), P(12, 6, "Other", TRUE),
      P(12, 11, "Other", FALSE),                             \* empty payload
      P(69, 4, "KexInit", TRUE), P(76, 4, "KexInit", TRUE),  \* misaligned, too large
      P(4, 4, "Other", TRUE),                                \* too small
      P(12, 3, "Other", TRUE), P(12, 12, "Other", TRUE) }    \* bad padding

Lines == { L("Ssh2", 4, 10), L("Ssh2", 4, 12), L("Ssh2", 4, 13),
           L("OtherVersion", 4, 10), L("Invalid", 4, 5),
           L("Text", 1, 1), L("Text", 4, 8), L("Text", 3, 14) }

\* The packets one after the other.
Placed(ps) ==
    LET from[i \in 1..Len(ps)] == IF i = 1 THEN 0 ELSE from[i-1] + PacketLen(ps[i-1])
    IN [i \in 1..Len(ps) |-> [ps[i] EXCEPT !.from = from[i]]]
Exchange(l, ps) ==
    LET placed == Placed(ps)
        n == Len(ps)
    IN [lines |-> <<l>>, packets |-> placed, linesLen |-> l.len,
        size |-> l.len + IF n = 0 THEN 0 ELSE placed[n].from + PacketLen(placed[n])]

Bodies ==
    {<<>>} \union
    {skipped \o <<last>> : skipped \in {<<>>} \union {<<s>> : s \in Skips}
                                       \union {<<s, Ignore>> : s \in Skips},
                           last \in Lasts}
Tailed == { Append(b, Ignore) : b \in {c \in Bodies \ {<<>>} : ~BadHeader(c[Len(c)])} }

MCExchanges ==
    { Exchange(l, <<>>) : l \in Lines } \union
    { Exchange(l, b) : l \in {m \in Lines : m.class # "Text"}, b \in {<<Ignore>>} } \union
    { Exchange(L("Ssh2", 4, 10), b) : b \in Bodies \union Tailed }
=============================================================================
