--------------------------- MODULE MCStringLiteral ---------------------------
EXTENDS StringLiteral

\* Every short text over the bytes that both passes look at, a digit, a byte
\* that is none, and one outside ASCII.
Short == UNION {[1..n -> {Quote, Backslash, Letter.u, 48, 120, 233}] : n \in 0..4}

\* \u and four digits: NUL, e acute, the euro sign, both halves of a pair and
\* what is next to them.
Hex(a, b, c, d) == <<Backslash, Letter.u, a, b, c, d>>
Units == {
    Hex(48, 48, 48, 48), Hex(48, 48, 55, 102), Hex(48, 48, 56, 48),
    Hex(48, 55, 102, 70), Hex(48, 56, 48, 48), Hex(50, 48, 65, 67),
    Hex(68, 55, 70, 70), Hex(68, 56, 48, 48), Hex(68, 66, 70, 70),
    Hex(68, 67, 48, 48), Hex(68, 70, 70, 70), Hex(69, 48, 48, 48),
    Hex(70, 70, 70, 70),
    \* digits missing, so that the second pass swallows a backslash
    <<Backslash, Letter.u, 48, 48, 48, Backslash>>,
    <<Backslash, Letter.u, 48, 48, Backslash, Backslash>>,
    <<Backslash, Letter.u, 48, 48, 120, 48>>,
    <<Backslash, Letter.n>>, <<Backslash, Letter.u>>, <<Backslash>>, <<48>>}

Literal(body) == <<Quote>> \o body \o <<Quote, 0>>

MCTexts ==
    {Literal(body) : body \in Short}
    \cup {Literal(a \o b \o c) : a, b, c \in Units}
    \cup {<<Quote>> \o a \o b \o <<0>> : a, b \in Units}
    \cup {<<b>> : b \in {0, Quote, 48}}
=============================================================================
