------------------------- MODULE StringLiteralProofs -------------------------
(***************************************************************************)
(* parse_string, for every text: it never writes past the buffer it        *)
(* allocated, escape sequences become UTF-8, and no literal of JSON is     *)
(* refused but for half a surrogate pair or for want of memory.            *)
(***************************************************************************)
EXTENDS StringLiteral, WellFoundedInduction, TLAPS

(***************************************************************************)
(* What is written are bytes.                                              *)
(***************************************************************************)
LEMMA BytesAre == \A n : n \in Bytes <=> n \in Nat /\ n < 256
  BY DEF Bytes

LEMMA LetterBytes ==
    /\ Letter.b = 98 /\ Letter.f = 102 /\ Letter.n = 110
    /\ Letter.r = 114 /\ Letter.t = 116 /\ Letter.u = 117
  BY DEF Letter

LEMMA ControlBytes == \A c \in Control : c[2] \in Bytes
  BY BytesAre DEF Control, Quote, Backslash, Slash

LEMMA HexDigitRange ==
    ASSUME NEW b \in HexDigits
    PROVE  HexDigit(b) \in 0..15
  BY DEF HexDigits, HexDigit

\* parse_hex4 returns 16 bits.
LEMMA Hex4Range ==
    ASSUME NEW p \in Nat
    PROVE  ParseHex4(p) \in Nat /\ ParseHex4(p) < 65536
<1>1. CASE \A i \in p..p+3 : text[i] \in HexDigits
  <2>1. /\ text[p] \in HexDigits /\ text[p + 1] \in HexDigits
        /\ text[p + 2] \in HexDigits /\ text[p + 3] \in HexDigits
    BY <1>1
  <2> DEFINE a == HexDigit(text[p])      b == HexDigit(text[p + 1])
             c == HexDigit(text[p + 2])  d == HexDigit(text[p + 3])
  <2>2. a \in 0..15 /\ b \in 0..15 /\ c \in 0..15 /\ d \in 0..15
    BY <2>1, HexDigitRange
  <2>3. ParseHex4(p) = 4096 * a + 256 * b + 16 * c + d
    BY <1>1 DEF ParseHex4
  <2> HIDE DEF a, b, c, d
  <2> QED BY <2>2, <2>3
<1>2. CASE ~ \A i \in p..p+3 : text[i] \in HexDigits
  BY <1>2 DEF ParseHex4
<1> QED BY <1>1, <1>2

\* utf16_literal_to_utf8 writes at most three bytes, four beyond 16 bits.
LEMMA Utf8Bytes ==
    ASSUME NEW c \in Nat, c < 1114112
    PROVE  /\ Utf8(c) \in Seq(Bytes)
           /\ Len(Utf8(c)) <= 4
           /\ c < 65536 => Len(Utf8(c)) <= 3
<1>1. \A n \in Nat : Continuation(n) \in Bytes
  BY BytesAre DEF Continuation
<1>2. /\ c \div 64 \in Nat /\ c \div 4096 \in Nat /\ c \div 262144 \in Nat
      /\ c < 2048 => c \div 64 < 32
      /\ c < 65536 => c \div 4096 < 16
      /\ c \div 262144 < 5
  OBVIOUS
<1>3. CASE c < 128
  BY <1>3, BytesAre DEF Utf8
<1>4. CASE c >= 128 /\ c < 2048
  <2>1. 192 + c \div 64 \in Bytes  BY <1>2, <1>4, BytesAre
  <2>2. Utf8(c) = <<192 + c \div 64, Continuation(c)>>  BY <1>4 DEF Utf8
  <2> QED BY <1>1, <2>1, <2>2
<1>5. CASE c >= 2048 /\ c < 65536
  <2>1. 224 + c \div 4096 \in Bytes  BY <1>2, <1>5, BytesAre
  <2>2. Utf8(c) = <<224 + c \div 4096, Continuation(c \div 64), Continuation(c)>>
    BY <1>5 DEF Utf8
  <2>3. Continuation(c \div 64) \in Bytes /\ Continuation(c) \in Bytes
    BY <1>1, <1>2
  <2> QED BY <2>1, <2>2, <2>3
<1>6. CASE c >= 65536
  <2>1. 240 + c \div 262144 \in Bytes  BY <1>2, BytesAre
  <2>2. Utf8(c) = <<240 + c \div 262144, Continuation(c \div 4096),
                    Continuation(c \div 64), Continuation(c)>>
    BY <1>6 DEF Utf8
  <2>3. /\ Continuation(c \div 4096) \in Bytes
        /\ Continuation(c \div 64) \in Bytes /\ Continuation(c) \in Bytes
    BY <1>1, <1>2
  <2> QED BY <1>6, <2>1, <2>2, <2>3
<1> QED BY <1>3, <1>4, <1>5, <1>6

\* The code of one escape sequence.
LEMMA FirstRange ==
    ASSUME ptr \in Nat
    PROVE  FirstCode \in Nat /\ FirstCode < 65536
<1>1. ptr + 2 \in Nat
  OBVIOUS
<1> DEFINE p == ptr + 2
<1>2. ParseHex4(p) \in Nat /\ ParseHex4(p) < 65536
  <2> HIDE DEF p
  <2>1. p \in Nat
    BY <1>1 DEF p
  <2> QED BY <2>1, Hex4Range
<1> QED BY <1>2 DEF FirstCode

\* The code point of a surrogate pair.
LEMMA PairRange ==
    ASSUME TypeOK
    PROVE  PairCode \in Nat /\ PairCode >= 65536 /\ PairCode < 1114112
<1> DEFINE x == FirstCode % 1024
           y == SecondCode % 1024
<1>1. FirstCode \in Nat /\ SecondCode \in Nat
  <2>1. ptr + 2 \in Nat /\ ptr + 8 \in Nat
    BY DEF TypeOK
  <2> QED BY <2>1, Hex4Range DEF FirstCode, SecondCode
<1>2. x \in 0..1023 /\ y \in 0..1023
  BY <1>1
<1>3. PairCode = 65536 + 1024 * x + y
  BY DEF PairCode
<1> HIDE DEF x, y
<1> QED BY <1>2, <1>3

(***************************************************************************)
(* Type correctness.                                                       *)
(***************************************************************************)
\* A failure keeps the types whatever its condition.
LEMMA FailTyped ==
    ASSUME TypeOK, NEW condition, FailIf(condition)
    PROVE  TypeOK'
  BY DEF TypeOK, FailIf

\* So does writing bytes that were read before the closing quote.
LEMMA WriteTyped ==
    ASSUME TypeOK, Copying, NEW bytes \in Seq(Bytes), NEW taken \in Nat,
           ptr + taken <= inputEnd + 1, Write(bytes, taken)
    PROVE  TypeOK'
  BY DEF TypeOK, Copying, Write

LEMMA InitTyped == Init => TypeOK
<1> SUFFICES ASSUME Init PROVE TypeOK
  OBVIOUS
<1>1. text \in Seq(Bytes) \ {<<>>}
  BY LiteralAssumption DEF Init
<1>2. Len(text) \in Nat /\ Len(text) >= 1
  BY <1>1
<1> QED BY <1>1, <1>2 DEF Init, TypeOK

\* Appending to skipped what its last element is, or that and one.
LEMMA LastSkipped ==
    ASSUME TypeOK
    PROVE  Last(skipped) = skipped[inputEnd] /\ Last(skipped) \in Nat
  BY DEF TypeOK, Last

LEMMA OneMore ==
    ASSUME NEW s \in Seq(Nat), NEW n \in Nat
    PROVE  /\ Append(s, n) \in Seq(Nat)
           /\ Len(Append(s, n)) = Len(s) + 1
           /\ \A p \in 1..Len(s) : Append(s, n)[p] = s[p]
           /\ Append(s, n)[Len(s) + 1] = n
  OBVIOUS

LEMMA TwoMore ==
    ASSUME NEW s \in Seq(Nat), NEW n \in Nat, NEW t, t = Append(Append(s, n), n)
    PROVE  /\ t \in Seq(Nat)
           /\ Len(t) = Len(s) + 2
           /\ \A p \in 1..Len(s) : t[p] = s[p]
           /\ t[Len(s) + 1] = n
           /\ t[Len(s) + 2] = n
<1> DEFINE r == Append(s, n)
<1>0. Len(s) \in Nat
  OBVIOUS
<1>1. /\ r \in Seq(Nat) /\ Len(r) = Len(s) + 1
      /\ \A p \in 1..Len(s) : r[p] = s[p]
      /\ r[Len(s) + 1] = n
  BY OneMore
<1> HIDE DEF r
<1>2. t = Append(r, n)
  BY DEF r
<1>3. /\ t \in Seq(Nat) /\ Len(t) = Len(r) + 1
      /\ \A p \in 1..Len(r) : t[p] = r[p]
      /\ t[Len(r) + 1] = n
  BY <1>1, <1>2, OneMore
<1> QED BY <1>0, <1>1, <1>3

LEMMA MeasuredPlain ==
    ASSUME TypeOK, MeasurePlain
    PROVE  /\ TypeOK'
           /\ \A p \in 1..inputEnd : skipped'[p] = skipped[p]
           /\ skipped'[inputEnd + 1] = skipped[inputEnd]
<1>1. skipped \in Seq(Nat) /\ Len(skipped) = inputEnd /\ inputEnd \in Nat
  BY DEF TypeOK
<1>2. skipped' = Append(skipped, Last(skipped))
  BY DEF MeasurePlain
<1>3. /\ skipped' \in Seq(Nat) /\ Len(skipped') = inputEnd + 1
      /\ \A p \in 1..inputEnd : skipped'[p] = skipped[p]
      /\ skipped'[inputEnd + 1] = skipped[inputEnd]
  BY <1>1, <1>2, LastSkipped, OneMore
<1> QED BY <1>3 DEF TypeOK, MeasurePlain, Measuring, InText

LEMMA MeasuredEscape ==
    ASSUME TypeOK, MeasureEscape
    PROVE  /\ TypeOK'
           /\ \A p \in 1..inputEnd : skipped'[p] = skipped[p]
           /\ skipped'[inputEnd + 1] = skipped[inputEnd] + 1
           /\ skipped'[inputEnd + 2] = skipped[inputEnd] + 1
<1> DEFINE n == Last(skipped) + 1
<1>1. /\ skipped \in Seq(Nat) /\ Len(skipped) = inputEnd /\ inputEnd \in Nat
      /\ n = skipped[inputEnd] + 1 /\ n \in Nat
  BY LastSkipped DEF TypeOK
<1>2. skipped' = Append(Append(skipped, n), n)
  BY DEF MeasureEscape, MeasureEscapeBy
<1> HIDE DEF n
<1>3. /\ skipped' \in Seq(Nat) /\ Len(skipped') = inputEnd + 2
      /\ \A p \in 1..inputEnd : skipped'[p] = skipped[p]
      /\ skipped'[inputEnd + 1] = n
      /\ skipped'[inputEnd + 2] = n
  BY <1>1, <1>2, TwoMore
<1>4. TypeOK'
  BY <1>3 DEF TypeOK, MeasureEscape, MeasureEscapeBy, Measuring, InText
<1> QED BY <1>1, <1>3, <1>4

LEMMA Facts ==
    ASSUME TypeOK, Saving
    PROVE  /\ Len(text) \in Nat /\ inputEnd \in Nat /\ inputEnd >= 2
           /\ ptr \in Nat /\ ptr >= 2
           /\ size \in Nat /\ output \in Seq(Bytes) /\ Len(output) \in Nat
           /\ \A p \in 1..inputEnd : skipped[p] \in Nat
           /\ \A p \in 1..inputEnd : skipped[p] < p
<1>1. /\ Len(text) \in Nat /\ inputEnd \in Nat /\ inputEnd >= 2
      /\ ptr \in Nat /\ ptr >= 2
      /\ size \in Nat /\ output \in Seq(Bytes)
  BY DEF TypeOK
<1>2. Len(output) \in Nat
  BY <1>1
<1>3. \A p \in 1..inputEnd : skipped[p] \in Nat
  BY DEF TypeOK
<1>4. \A p \in 1..inputEnd : skipped[p] < p
  <2> SUFFICES ASSUME NEW p \in 1..inputEnd PROVE skipped[p] < p
    OBVIOUS
  <2>1. skipped[1] = 0 /\ skipped[p] - skipped[1] <= p - 1
    BY <1>1 DEF Saving
  <2> QED BY <1>1, <1>3, <2>1
<1> QED BY <1>1, <1>2, <1>3, <1>4

LEMMA RoomLeft ==
    ASSUME Room, Copying, ptr \in Nat, inputEnd \in Nat
    PROVE  /\ Len(output) <= ptr - 2 - skipped[ptr]
           /\ size = inputEnd - skipped[inputEnd]
<1>1. ptr <= inputEnd /\ pc = "copy"
  BY DEF Copying
<1> QED BY <1>1 DEF Room

LEMMA NextTyped == TypeOK /\ Saving /\ [Next]_vars => TypeOK'
<1> SUFFICES ASSUME TypeOK, Saving, [Next]_vars PROVE TypeOK'
  OBVIOUS
<1>0. Len(text) \in Nat /\ inputEnd \in Nat /\ ptr \in Nat
  BY DEF TypeOK
<1>1. CASE NotAString
  BY <1>1, FailTyped DEF NotAString
<1>2. CASE Begin
  BY <1>2 DEF Begin, TypeOK
<1>3. CASE MeasurePlain
  BY <1>3, MeasuredPlain
<1>4. CASE MeasureEscape
  BY <1>4, MeasuredEscape
<1>5. CASE Unclosed
  BY <1>5, FailTyped DEF Unclosed
<1>6. CASE Allocate
  <2>1. Last(skipped) \in Nat /\ Last(skipped) < inputEnd
    BY Facts, LastSkipped
  <2>2. size' = inputEnd - 1 - Last(skipped) + 1
    BY <1>6 DEF Allocate
  <2>3. size' \in Nat
    BY <1>0, <2>1, <2>2
  <2> QED BY <1>6, <2>3 DEF Allocate, Closed, InText, TypeOK
<1>7. CASE NoMemory
  BY <1>7, FailTyped DEF NoMemory
<1>8. CASE CopyPlain
  <2>1. Copying /\ Write(<<text[ptr]>>, 1)
    BY <1>8 DEF CopyPlain
  <2>2. text[ptr] \in Bytes
    BY <2>1 DEF Copying, TypeOK
  <2>3. <<text[ptr]>> \in Seq(Bytes)
    BY <2>2
  <2>4. ptr + 1 <= inputEnd + 1 /\ 1 \in Nat
    BY <1>0, <2>1 DEF Copying
  <2> QED BY <2>1, <2>3, <2>4, WriteTyped
<1>9. CASE CopyEscape
  <2>1. PICK c \in Control : Write(<<c[2]>>, 2)
    BY <1>9 DEF CopyEscape
  <2>2. <<c[2]>> \in Seq(Bytes)
    BY ControlBytes
  <2>3. Copying /\ ptr + 2 <= inputEnd + 1
    BY <1>0, <1>9 DEF CopyEscape, Escaping, Copying
  <2> QED BY <2>1, <2>2, <2>3, WriteTyped
<1>10. CASE CopyCode
  <2>1. FirstCode \in Nat /\ FirstCode < 65536
    BY <1>0, FirstRange
  <2>2. Utf8(FirstCode) \in Seq(Bytes)
    BY <2>1, Utf8Bytes
  <2>3. Copying /\ ptr + 6 <= inputEnd /\ Write(Utf8(FirstCode), 6)
    BY <1>0, <1>10
    DEF CopyCode, CopyUnlessSurrogate, CopyUtf16, Escaping, Within
  <2> QED BY <1>0, <2>2, <2>3, WriteTyped
<1>11. CASE CopyPair
  <2>1. PairCode \in Nat /\ PairCode < 1114112
    BY PairRange
  <2>2. Utf8(PairCode) \in Seq(Bytes)
    BY <2>1, Utf8Bytes
  <2>3. Write(Utf8(PairCode), 12) /\ Copying /\ ptr + 12 <= inputEnd
    BY <1>0, <1>11
    DEF CopyPair, CopyUtf16, Escaping, SecondFollows, Within
  <2> QED BY <1>0, <2>2, <2>3, WriteTyped
<1>12. CASE BadEscape
  BY <1>12, FailTyped DEF BadEscape
<1>13. CASE Finish
  <2>1. 0 \in Bytes
    BY BytesAre
  <2>2. output' \in Seq(Bytes)
    BY <1>13, <2>1 DEF Finish, TypeOK
  <2> QED BY <1>0, <1>13, <2>2 DEF Finish, TypeOK
<1>14. CASE Returned \/ UNCHANGED vars
  BY <1>14 DEF Returned, vars, TypeOK
<1> QED BY <1>1, <1>2, <1>3, <1>4, <1>5, <1>6, <1>7, <1>8, <1>9, <1>10, <1>11,
           <1>12, <1>13, <1>14 DEF Next

(***************************************************************************)
(* What an escape sequence saves.                                          *)
(***************************************************************************)
\* One more position, or two that are past an escape sequence.
LEMMA SavingKept ==
    ASSUME TypeOK, Saving, NEW k \in 1..2, NEW saved \in 0..1,
           k = 2 \/ saved = 0, saved = 0 \/ text[inputEnd] = Backslash,
           inputEnd' = inputEnd + k, text' = text,
           \A p \in 1..inputEnd : skipped'[p] = skipped[p],
           skipped'[inputEnd + 1] = skipped[inputEnd] + saved,
           k = 2 => skipped'[inputEnd + 2] = skipped[inputEnd] + saved
    PROVE  Saving'
<1> DEFINE n == inputEnd
           s == skipped
           t == skipped'
<1>0. n \in Nat /\ n >= 2 /\ \A p \in 1..n : s[p] \in Nat
  BY DEF TypeOK
<1>1. /\ s[1] = 0 /\ s[2] = 0 /\ s[n] = s[n - 1]
      /\ \A p, q \in 1..n : p <= q => s[q] - s[p] <= q - p
      /\ \A p \in 1..n-2 : s[p + 2] <= s[p] + 1
      /\ \A p \in 1..n-1 : s[p + 1] # s[p] => text[p] = Backslash
  BY DEF Saving
<1> HIDE DEF n, s, t
<1>2. /\ \A p \in 1..n : t[p] = s[p]
      /\ t[n + 1] = s[n] + saved
      /\ k = 2 => t[n + 2] = s[n] + saved
  BY DEF n, s, t
<1> DEFINE m == n + k
<1>3. t[1] = 0 /\ t[2] = 0
  BY <1>0, <1>1, <1>2
<1>4. t[m] = t[m - 1]
  <2>1. CASE k = 1
    <3>1. saved = 0 /\ m = n + 1 /\ m - 1 = n
      BY <1>0, <2>1
    <3>2. s[n] \in Nat /\ t[n] = s[n] /\ t[n + 1] = s[n]
      BY <1>0, <1>2, <3>1
    <3> HIDE DEF m
    <3> QED BY <3>1, <3>2
  <2>2. CASE k = 2
    <3>1. m = n + 2 /\ m - 1 = n + 1
      BY <1>0, <2>2
    <3> HIDE DEF m
    <3> QED BY <1>2, <2>2, <3>1
  <2> QED BY <2>1, <2>2
<1>5. \A p, q \in 1..m : p <= q => t[q] - t[p] <= q - p
  <2> SUFFICES ASSUME NEW p \in 1..m, NEW q \in 1..m, p <= q
               PROVE  t[q] - t[p] <= q - p
    OBVIOUS
  <2>1. CASE q <= n
    BY <1>0, <1>1, <1>2, <2>1
  <2>2. CASE p <= n /\ q > n
    <3>1. t[q] = s[n] + saved
      BY <1>0, <1>2, <2>2
    <3>2. t[p] = s[p] /\ s[n] - s[p] <= n - p
      BY <1>0, <1>1, <1>2, <2>2
    <3>3. s[n] \in Nat /\ s[p] \in Nat
      BY <1>0, <2>2
    <3> QED BY <1>0, <2>2, <3>1, <3>2, <3>3
  <2>3. CASE p > n
    <3>1. t[q] = s[n] + saved /\ t[p] = s[n] + saved /\ s[n] \in Nat
      BY <1>0, <1>2, <2>3
    <3> QED BY <1>0, <3>1
  <2> QED BY <1>0, <2>1, <2>2, <2>3
<1>6. \A p \in 1..m - 2 : t[p + 2] <= t[p] + 1
  <2> SUFFICES ASSUME NEW p \in 1..m - 2 PROVE t[p + 2] <= t[p] + 1
    OBVIOUS
  <2>1. CASE p <= n - 2
    <3>1. p \in 1..n - 2 /\ p \in 1..n /\ p + 2 \in 1..n
      BY <1>0, <2>1
    <3> QED BY <1>1, <1>2, <3>1
  <2>2. CASE p = n - 1
    <3>1. p + 2 = n + 1 /\ p \in 1..n /\ t[p] = s[p] /\ s[p] = s[n]
      BY <1>0, <1>1, <1>2, <2>2
    <3>2. t[p + 2] = s[n] + saved /\ t[p] = s[n] /\ s[n] \in Nat
      BY <1>0, <1>1, <1>2, <2>2, <3>1
    <3> QED BY <3>2
  <2>3. CASE p = n
    <3>1. k = 2 /\ p + 2 = n + 2
      BY <1>0, <2>3
    <3>2. t[p + 2] = s[n] + saved /\ t[p] = s[n] /\ s[n] \in Nat
      BY <1>0, <1>2, <2>3, <3>1
    <3> QED BY <3>2
  <2>4. p \in Nat /\ p <= n
    BY <1>0
  <2> QED BY <1>0, <2>1, <2>2, <2>3, <2>4
<1>7. \A p \in 1..m - 1 : t[p + 1] # t[p] => text[p] = Backslash
  <2> SUFFICES ASSUME NEW p \in 1..m - 1, t[p + 1] # t[p]
               PROVE  text[p] = Backslash
    OBVIOUS
  <2>1. CASE p <= n - 1
    BY <1>0, <1>1, <1>2, <2>1
  <2>2. CASE p = n
    BY <1>0, <1>2, <2>2 DEF n
  <2>3. CASE p = n + 1
    BY <1>0, <1>2, <2>3
  <2> QED BY <1>0, <2>1, <2>2, <2>3
<1>8. inputEnd' = m
  BY DEF n
<1>9. \A p \in 1..m - 1 : t[p + 1] # t[p] => text'[p] = Backslash
  BY <1>7
<1> HIDE DEF m
<1>10. /\ \A p, q \in 1..m : p <= q => t[q] - t[p] <= q - p
       /\ \A p \in 1..m - 2 : t[p + 2] <= t[p] + 1
       /\ \A p \in 1..m - 1 : t[p + 1] # t[p] => text'[p] = Backslash
       /\ t[m] = t[m - 1]
  BY <1>4, <1>5, <1>6, <1>9
<1> QED BY <1>3, <1>8, <1>10 DEF Saving, t

LEMMA NextSaving == TypeOK /\ Saving /\ [Next]_vars => Saving'
<1> SUFFICES ASSUME TypeOK, Saving, [Next]_vars PROVE Saving'
  OBVIOUS
<1>0. /\ Len(text) \in Nat /\ inputEnd \in Nat /\ inputEnd >= 2
      /\ \A p \in 1..inputEnd : skipped[p] \in Nat
  BY DEF TypeOK
<1>1. CASE MeasurePlain
  <2>1. /\ \A p \in 1..inputEnd : skipped'[p] = skipped[p]
        /\ skipped'[inputEnd + 1] = skipped[inputEnd]
    BY <1>1, MeasuredPlain
  <2>2. inputEnd' = inputEnd + 1 /\ text' = text
    BY <1>1 DEF MeasurePlain
  <2> QED BY <1>0, <2>1, <2>2, SavingKept
<1>2. CASE MeasureEscape
  <2>1. /\ \A p \in 1..inputEnd : skipped'[p] = skipped[p]
        /\ skipped'[inputEnd + 1] = skipped[inputEnd] + 1
        /\ skipped'[inputEnd + 2] = skipped[inputEnd] + 1
    BY <1>2, MeasuredEscape
  <2>2. inputEnd' = inputEnd + 2 /\ text' = text /\ text[inputEnd] = Backslash
    BY <1>2 DEF MeasureEscape, MeasureEscapeBy, Measuring
  <2> QED BY <1>0, <2>1, <2>2, SavingKept
<1>3. CASE UNCHANGED <<text, inputEnd, skipped>>
  BY <1>3 DEF Saving
<1>4. ~MeasurePlain /\ ~MeasureEscape => UNCHANGED <<text, inputEnd, skipped>>
  BY DEF Next, NotAString, FailIf, Begin, Unclosed, Allocate, NoMemory,
         CopyPlain, CopyEscape, CopyCode, CopyUnlessSurrogate, CopyPair, Write,
         BadEscape, Finish, Returned, vars
<1> QED BY <1>1, <1>2, <1>3, <1>4

(***************************************************************************)
(* The room that is left.                                                  *)
(***************************************************************************)
IInv == TypeOK /\ Saving /\ Room

\* A step of the second pass that reads taken bytes and writes at most as many
\* as there is room for.
LEMMA RoomAfterWrite ==
    ASSUME TypeOK, Saving, Room, Copying, NEW bytes \in Seq(Bytes),
           NEW taken \in Nat, NEW most \in Nat,
           Write(bytes, taken), Len(bytes) + most <= taken,
           taken > 0, ptr + taken <= inputEnd,
           skipped[ptr + taken] <= skipped[ptr] + most
    PROVE  Room'
<1>0. /\ ptr \in Nat /\ inputEnd \in Nat /\ ptr >= 2 /\ output \in Seq(Bytes)
      /\ Len(output) \in Nat /\ size \in Nat
      /\ ptr < inputEnd /\ pc = "copy"
  BY Facts DEF Copying
<1>1. ptr \in 1..inputEnd /\ ptr + taken \in 1..inputEnd /\ inputEnd \in 1..inputEnd
  BY <1>0
<1>2. /\ skipped[ptr] \in Nat /\ skipped[ptr + taken] \in Nat
      /\ skipped[inputEnd] \in Nat
      /\ skipped[inputEnd] < inputEnd
  BY <1>1, Facts
<1>3. /\ Len(output) <= ptr - 2 - skipped[ptr]
      /\ size = inputEnd - skipped[inputEnd]
  BY <1>0, RoomLeft
<1>4. /\ output' = output \o bytes /\ ptr' = ptr + taken
      /\ inputEnd' = inputEnd /\ skipped' = skipped /\ size' = size /\ pc' = pc
  BY DEF Write
<1>5. Len(output') = Len(output) + Len(bytes) /\ Len(bytes) \in Nat
  BY <1>0, <1>4
<1>6. Len(output') <= (ptr + taken) - 2 - skipped[ptr + taken]
  BY <1>0, <1>2, <1>3, <1>5
<1>7. skipped[inputEnd] - skipped[ptr + taken] <= inputEnd - (ptr + taken)
  BY <1>0, <1>1 DEF Saving
<1>8. Len(output') <= size'
  <2>1. Len(output') \in Nat /\ size' = inputEnd - skipped[inputEnd]
    BY <1>0, <1>3, <1>4, <1>5
  <2> QED BY <1>0, <1>1, <1>2, <1>6, <1>7, <2>1
<1> QED BY <1>0, <1>1, <1>3, <1>4, <1>6, <1>8 DEF Room, NoOverflow

\* Six bytes hold at most three escape sequences of the first pass.
LEMMA SixBytes ==
    ASSUME TypeOK, Saving, NEW p \in Nat, p >= 1, p + 6 <= inputEnd
    PROVE  skipped[p + 6] <= skipped[p] + 3
<1>1. /\ inputEnd \in Nat
      /\ \A q \in 1..inputEnd : skipped[q] \in Nat
  BY DEF TypeOK
<1>2. /\ skipped[p + 2] <= skipped[p] + 1
      /\ skipped[(p + 2) + 2] <= skipped[p + 2] + 1
      /\ skipped[(p + 4) + 2] <= skipped[p + 4] + 1
  <2>1. p \in 1..inputEnd-2 /\ p + 2 \in 1..inputEnd-2 /\ p + 4 \in 1..inputEnd-2
    BY <1>1
  <2> QED BY <2>1 DEF Saving
<1>3. (p + 2) + 2 = p + 4 /\ (p + 4) + 2 = p + 6
  OBVIOUS
<1>4. /\ skipped[p] \in Nat /\ skipped[p + 2] \in Nat
      /\ skipped[p + 4] \in Nat /\ skipped[p + 6] \in Nat
  BY <1>1
<1> QED BY <1>2, <1>3, <1>4

LEMMA NextRoom == IInv /\ [Next]_vars => Room'
<1> SUFFICES ASSUME IInv, [Next]_vars PROVE Room'
  OBVIOUS
<1> USE DEF IInv
<1>0. /\ Len(text) \in Nat /\ inputEnd \in Nat /\ inputEnd >= 2
      /\ ptr \in Nat /\ ptr >= 2
      /\ \A p \in 1..inputEnd : skipped[p] \in Nat
      /\ output \in Seq(Bytes) /\ Len(output) \in Nat /\ size \in Nat
  BY Facts
<1>1. CASE pc' = "failed"
  BY <1>1 DEF Room, NoOverflow
<1>9. CASE Begin \/ MeasurePlain \/ MeasureEscape
  BY <1>9 DEF Begin, MeasurePlain, MeasureEscape, MeasureEscapeBy, Measuring,
              Room, NoOverflow
<1>10. CASE Finish
  <2>1. pc = "copy" /\ pc' = "done" /\ size' = size
        /\ output' = Append(output, 0) /\ ptr >= inputEnd
    BY <1>10 DEF Finish
  <2>2. Len(output) < size
    <3>1. CASE ptr > inputEnd
      BY <1>0, <2>1, <3>1 DEF Room
    <3>2. CASE ptr = inputEnd
      <4>1. /\ Len(output) <= inputEnd - 2 - skipped[inputEnd]
            /\ size = inputEnd - skipped[inputEnd]
        BY <1>0, <2>1, <3>2 DEF Room
      <4> QED BY <1>0, <4>1
    <3> QED BY <1>0, <2>1, <3>1, <3>2
  <2>3. Len(output') = Len(output) + 1
    BY <1>0, <2>1
  <2> QED BY <1>0, <2>1, <2>2, <2>3 DEF Room, NoOverflow
<1>2. CASE Allocate
  <2>1. /\ output' = <<>> /\ ptr' = 2 /\ inputEnd' = inputEnd
        /\ skipped' = skipped /\ pc' = "copy"
        /\ size' = inputEnd - skipped[inputEnd]
    BY <1>0, <1>2, LastSkipped DEF Allocate, Closed, Room
  <2>2. skipped[2] = 0 /\ skipped[inputEnd] < inputEnd
    <3>1. skipped[2] = 0
      BY DEF Saving
    <3> QED BY <3>1, Facts
  <2>3. Len(output') = 0
    BY <2>1
  <2> QED BY <1>0, <2>1, <2>2, <2>3 DEF Room, NoOverflow
<1>3. CASE CopyPlain
  <2>1. Copying /\ Write(<<text[ptr]>>, 1) /\ text[ptr] # Backslash
    BY <1>3 DEF CopyPlain
  <2>2. text[ptr] \in Bytes
    BY <2>1 DEF Copying, TypeOK
  <2>3. <<text[ptr]>> \in Seq(Bytes) /\ Len(<<text[ptr]>>) = 1
    BY <2>2
  <2>4. skipped[ptr + 1] = skipped[ptr] /\ ptr + 1 <= inputEnd
    <3>1. ptr \in 1..inputEnd - 1
      BY <1>0, <2>1 DEF Copying
    <3> QED BY <1>0, <2>1, <3>1 DEF Saving
  <2>5. skipped[ptr + 1] <= skipped[ptr] + 0
    BY <1>0, <2>4
  <2>6. Len(<<text[ptr]>>) + 0 <= 1 /\ 0 \in Nat /\ 1 \in Nat /\ 1 > 0
    BY <2>3
  <2> QED BY <2>1, <2>3, <2>4, <2>5, <2>6, RoomAfterWrite
<1>4. CASE CopyEscape
  <2>1. PICK c \in Control : Write(<<c[2]>>, 2)
    BY <1>4 DEF CopyEscape
  <2>2. <<c[2]>> \in Seq(Bytes) /\ Len(<<c[2]>>) = 1
    BY ControlBytes
  <2>3. Copying
    BY <1>4 DEF CopyEscape, Escaping
  <2>4. CASE ptr + 2 <= inputEnd
    <3>1. skipped[ptr + 2] <= skipped[ptr] + 1
      <4>1. ptr \in 1..inputEnd - 2
        BY <1>0, <2>4
      <4> QED BY <4>1 DEF Saving
    <3>2. Len(<<c[2]>>) + 1 <= 2 /\ 2 \in Nat /\ 1 \in Nat /\ 2 > 0
      BY <2>2
    <3> QED BY <2>1, <2>2, <2>3, <2>4, <3>1, <3>2, RoomAfterWrite
  <2>5. CASE ptr + 1 = inputEnd
    <3>1. /\ skipped[ptr] \in Nat /\ skipped[inputEnd] \in Nat
          /\ skipped[inputEnd] - skipped[ptr] <= inputEnd - ptr
      <4>1. ptr \in 1..inputEnd /\ inputEnd \in 1..inputEnd /\ ptr <= inputEnd
        BY <1>0, <2>5
      <4> QED BY <1>0, <4>1 DEF Saving
    <3>2. /\ Len(output) <= ptr - 2 - skipped[ptr]
          /\ size = inputEnd - skipped[inputEnd]
      BY <1>0, <2>3, RoomLeft
    <3>3. /\ output' = output \o <<c[2]>> /\ ptr' = ptr + 2
          /\ inputEnd' = inputEnd /\ size' = size /\ skipped' = skipped
          /\ pc' = pc /\ pc = "copy"
      BY <2>1, <2>3 DEF Write, Copying
    <3>4. Len(output') = Len(output) + 1
      BY <1>0, <2>2, <3>3
    <3>5. Len(output') < size' /\ ptr' > inputEnd'
      BY <1>0, <2>5, <3>1, <3>2, <3>3, <3>4
    <3>6. Len(output') \in Nat /\ size' \in Nat /\ ptr' \in Nat /\ inputEnd' \in Nat
      BY <1>0, <3>3, <3>4
    <3> QED BY <3>2, <3>3, <3>5, <3>6 DEF Room, NoOverflow
  <2> QED BY <1>0, <2>3, <2>4, <2>5 DEF Copying
<1>5. CASE CopyCode
  <2>1. FirstCode \in Nat /\ FirstCode < 65536
    BY <1>0, FirstRange
  <2>2. Utf8(FirstCode) \in Seq(Bytes) /\ Len(Utf8(FirstCode)) <= 3
    BY <2>1, Utf8Bytes
  <2>3. Copying /\ ptr + 6 <= inputEnd /\ Write(Utf8(FirstCode), 6)
    BY <1>0, <1>5
    DEF CopyCode, CopyUnlessSurrogate, CopyUtf16, Escaping, Within
  <2>4. skipped[ptr + 6] <= skipped[ptr] + 3
    BY <1>0, <2>3, SixBytes
  <2>5. Len(Utf8(FirstCode)) + 3 <= 6
    BY <2>2
  <2> QED BY <1>0, <2>2, <2>3, <2>4, <2>5, RoomAfterWrite
<1>6. CASE CopyPair
  <2>1. PairCode \in Nat /\ PairCode < 1114112
    BY PairRange
  <2>2. Utf8(PairCode) \in Seq(Bytes) /\ Len(Utf8(PairCode)) <= 4
    BY <2>1, Utf8Bytes
  <2>3. Write(Utf8(PairCode), 12) /\ Copying /\ ptr + 12 <= inputEnd
    BY <1>0, <1>6
    DEF CopyPair, CopyUtf16, Escaping, SecondFollows, Within
  <2>4. skipped[ptr + 12] <= skipped[ptr] + 6
    <3>1. skipped[ptr + 6] <= skipped[ptr] + 3
      BY <1>0, <2>3, SixBytes
    <3>2. skipped[(ptr + 6) + 6] <= skipped[ptr + 6] + 3
      BY <1>0, <2>3, SixBytes
    <3>3. (ptr + 6) + 6 = ptr + 12
      BY <1>0
    <3> QED BY <1>0, <2>3, <3>1, <3>2, <3>3
  <2>5. Len(Utf8(PairCode)) + 6 <= 12
    BY <2>2
  <2> QED BY <1>0, <2>2, <2>3, <2>4, <2>5, RoomAfterWrite
<1>7. CASE UNCHANGED vars
  BY <1>7 DEF vars, Room, NoOverflow
<1>8. CASE NotAString \/ Unclosed \/ NoMemory \/ BadEscape
  BY <1>1, <1>8 DEF NotAString, Unclosed, NoMemory, BadEscape, FailIf
<1>11. CASE Returned
  BY <1>7, <1>11 DEF Returned
<1> QED BY <1>2, <1>3, <1>4, <1>5, <1>6, <1>7, <1>8, <1>9, <1>10, <1>11 DEF Next

LEMMA Inductive == Spec => []IInv
<1>1. Init => IInv
  <2> SUFFICES ASSUME Init PROVE IInv
    OBVIOUS
  <2>1. TypeOK
    BY InitTyped
  <2>2. inputEnd = 2 /\ skipped = <<0, 0>> /\ pc = "start" /\ ptr = 2 /\ output = <<>>
    BY DEF Init
  <2>3. \A p \in 1..inputEnd : p \in {1, 2} /\ skipped[p] = 0
    BY <2>2
  <2>4. Saving
    BY <2>2, <2>3 DEF Saving
  <2>5. Room
    BY <2>2 DEF Room, NoOverflow
  <2> QED BY <2>1, <2>4, <2>5 DEF IInv
<1>2. IInv /\ [Next]_vars => IInv'
  BY NextTyped, NextSaving, NextRoom DEF IInv
<1> QED BY <1>1, <1>2, PTL DEF Spec

(***************************************************************************)
(* What is written are characters.                                         *)
(***************************************************************************)
LEMMA LeadFacts ==
    ASSUME NEW l \in Leads
    PROVE  /\ l.follow \in 0..3
           /\ \A b \in l.lead : b \in Nat /\ b \notin 128..191
           /\ l.next \subseteq 128..191
  BY DEF Leads

\* Where a character is, nothing that is written behind it matters.
LEMMA CharacterStays ==
    ASSUME NEW s \in Seq(Bytes), NEW t \in Seq(Bytes), NEW p \in 1..Len(s),
           WellFormedAt(s, p)
    PROVE  WellFormedAt(s \o t, p)
<1>1. PICK l \in Leads : /\ s[p] \in l.lead
                         /\ p + l.follow <= Len(s)
                         /\ \A i \in 1..l.follow :
                              s[p + i] \in IF i = 1 THEN l.next ELSE 128..191
  BY DEF WellFormedAt
<1>2. l.follow \in 0..3 /\ Len(s) \in Nat /\ Len(t) \in Nat
  BY LeadFacts
<1>3. Len(s \o t) = Len(s) + Len(t) /\ \A i \in 1..Len(s) : (s \o t)[i] = s[i]
  OBVIOUS
<1> DEFINE r == s \o t
<1>4. Len(r) = Len(s) + Len(t) /\ \A i \in 1..Len(s) : r[i] = s[i]
  BY <1>3
<1> HIDE DEF r
<1>5. r[p] \in l.lead /\ p + l.follow <= Len(r)
  BY <1>1, <1>2, <1>4
<1>6. ASSUME NEW i \in 1..l.follow
      PROVE  r[p + i] \in IF i = 1 THEN l.next ELSE 128..191
  <2>1. p + i \in 1..Len(s)
    BY <1>1, <1>2
  <2> QED BY <1>1, <1>4, <2>1
<1>7. WellFormedAt(r, p)
  BY <1>5, <1>6 DEF WellFormedAt
<1> QED BY <1>7 DEF r

\* Nor what is written before it.
LEMMA CharacterMoves ==
    ASSUME NEW s \in Seq(Bytes), NEW t \in Seq(Bytes), NEW p \in 1..Len(t),
           WellFormedAt(t, p)
    PROVE  WellFormedAt(s \o t, Len(s) + p)
<1>1. PICK l \in Leads : /\ t[p] \in l.lead
                         /\ p + l.follow <= Len(t)
                         /\ \A i \in 1..l.follow :
                              t[p + i] \in IF i = 1 THEN l.next ELSE 128..191
  BY DEF WellFormedAt
<1>2. l.follow \in 0..3 /\ Len(s) \in Nat /\ Len(t) \in Nat
  BY LeadFacts
<1> DEFINE r == s \o t
           n == Len(s)
<1>4. Len(r) = n + Len(t) /\ n \in Nat /\ \A i \in 1..Len(t) : r[n + i] = t[i]
  OBVIOUS
<1> HIDE DEF r, n
<1>5. r[n + p] \in l.lead /\ (n + p) + l.follow <= Len(r)
  BY <1>1, <1>2, <1>4
<1>6. ASSUME NEW i \in 1..l.follow
      PROVE  r[(n + p) + i] \in IF i = 1 THEN l.next ELSE 128..191
  <2>1. p + i \in 1..Len(t) /\ (n + p) + i = n + (p + i)
    BY <1>1, <1>2, <1>4
  <2>2. r[(n + p) + i] = t[p + i]
    BY <1>4, <2>1
  <2> QED BY <1>1, <2>2
<1>7. WellFormedAt(r, n + p)
  BY <1>5, <1>6 DEF WellFormedAt
<1> QED BY <1>7 DEF r, n

\* Characters behind characters are characters.
LEMMA Utf8Joined ==
    ASSUME NEW s \in Seq(Bytes), NEW t \in Seq(Bytes), IsUtf8(s), IsUtf8(t)
    PROVE  IsUtf8(s \o t)
<1> DEFINE r == s \o t
           n == Len(s)
<1>1. /\ Len(r) = n + Len(t) /\ n \in Nat /\ Len(t) \in Nat
      /\ \A i \in 1..n : r[i] = s[i]
      /\ \A i \in 1..Len(t) : r[n + i] = t[i]
  OBVIOUS
<1>2. /\ \A p \in 1..n : WellFormedAt(s, p) => WellFormedAt(r, p)
      /\ \A p \in 1..Len(t) : WellFormedAt(t, p) => WellFormedAt(r, n + p)
  BY CharacterStays, CharacterMoves
<1> HIDE DEF r
<1> SUFFICES ASSUME NEW p \in 1..Len(r)
             PROVE  IF r[p] \in 128..191
                    THEN \E q \in p-3..p-1 :
                            /\ q > 0
                            /\ WellFormedAt(r, q)
                            /\ \E l \in Leads : r[q] \in l.lead /\ p <= q + l.follow
                    ELSE WellFormedAt(r, p)
  BY DEF IsUtf8, r
<1>3. CASE p <= n
  <2>1. p \in 1..n /\ r[p] = s[p]
    BY <1>1, <1>3
  <2>2. CASE s[p] \in 128..191
    <3>1. PICK q \in p-3..p-1 :
                /\ q > 0
                /\ WellFormedAt(s, q)
                /\ \E l \in Leads : s[q] \in l.lead /\ p <= q + l.follow
      BY <2>1, <2>2 DEF IsUtf8
    <3>2. q \in 1..n
      BY <2>1, <3>1
    <3> QED BY <1>1, <1>2, <2>1, <2>2, <3>1, <3>2
  <2>3. CASE s[p] \notin 128..191
    BY <1>2, <2>1, <2>3 DEF IsUtf8
  <2> QED BY <2>2, <2>3
<1>4. CASE p > n
  <2> DEFINE k == p - n
  <2>1. k \in 1..Len(t) /\ p = n + k /\ r[p] = t[k]
    BY <1>1, <1>4
  <2> HIDE DEF k
  <2>2. CASE t[k] \in 128..191
    <3>1. PICK q \in k-3..k-1 :
                /\ q > 0
                /\ WellFormedAt(t, q)
                /\ \E l \in Leads : t[q] \in l.lead /\ k <= q + l.follow
      BY <2>1, <2>2 DEF IsUtf8
    <3>2. q \in 1..Len(t) /\ n + q \in p-3..p-1 /\ n + q > 0
      BY <1>1, <2>1, <3>1
    <3>3. WellFormedAt(r, n + q) /\ r[n + q] = t[q]
      BY <1>1, <1>2, <3>1, <3>2
    <3>4. \E l \in Leads : r[n + q] \in l.lead /\ p <= (n + q) + l.follow
      <4>1. PICK l \in Leads : t[q] \in l.lead /\ k <= q + l.follow
        BY <3>1
      <4>2. l.follow \in 0..3
        BY LeadFacts
      <4> QED BY <1>1, <2>1, <3>2, <3>3, <4>1, <4>2
    <3> QED BY <2>1, <2>2, <3>2, <3>3, <3>4
  <2>3. CASE t[k] \notin 128..191
    BY <1>2, <2>1, <2>3 DEF IsUtf8
  <2> QED BY <2>1, <2>2, <2>3
<1> QED BY <1>1, <1>3, <1>4

\* One character.
LEMMA OneCharacter ==
    ASSUME NEW s \in Seq(Bytes), NEW l \in Leads, NEW n \in 0..3,
           l.follow = n, Len(s) = 1 + n, s[1] \in l.lead,
           n > 0 => s[2] \in l.next,
           \A i \in 3..1 + n : s[i] \in 128..191
    PROVE  IsUtf8(s)
<1>1. s[1] \notin 128..191 /\ l.next \subseteq 128..191
  BY LeadFacts
<1>2. WellFormedAt(s, 1)
  <2>1. 1 + l.follow <= Len(s)
    OBVIOUS
  <2>2. ASSUME NEW i \in 1..l.follow
        PROVE  s[1 + i] \in IF i = 1 THEN l.next ELSE 128..191
    <3>1. i \in 1..n
      OBVIOUS
    <3>2. CASE i = 1
      BY <3>1, <3>2
    <3>3. CASE i # 1
      <4>1. 1 + i \in 3..1 + n
        BY <3>1, <3>3
      <4> QED BY <3>3, <4>1
    <3> QED BY <3>2, <3>3
  <2> QED BY <2>1, <2>2 DEF WellFormedAt
<1> SUFFICES ASSUME NEW p \in 1..Len(s)
             PROVE  IF s[p] \in 128..191
                    THEN \E q \in p-3..p-1 :
                            /\ q > 0
                            /\ WellFormedAt(s, q)
                            /\ \E k \in Leads : s[q] \in k.lead /\ p <= q + k.follow
                    ELSE WellFormedAt(s, p)
  BY DEF IsUtf8
<1>3. CASE p = 1
  BY <1>1, <1>2, <1>3
<1>4. CASE p > 1
  <2>1. p \in 2..1 + n /\ n > 0
    BY <1>4
  <2>2. s[p] \in 128..191
    <3>1. CASE p = 2
      <4>1. s[2] \in l.next
        BY <2>1
      <4> QED BY <1>1, <3>1, <4>1
    <3>2. CASE p # 2
      BY <2>1, <3>2
    <3> QED BY <3>1, <3>2
  <2>3. 1 \in p-3..p-1 /\ p <= 1 + l.follow
    BY <2>1
  <2> QED BY <1>2, <2>2, <2>3
<1>5. p = 1 \/ p > 1
  OBVIOUS
<1> QED BY <1>3, <1>4, <1>5

LEMMA AsciiIsUtf8 ==
    ASSUME NEW b \in Nat, b < 128
    PROVE  <<b>> \in Seq(Bytes) /\ IsUtf8(<<b>>)
<1> DEFINE l == [lead |-> 0..127, follow |-> 0, next |-> {}]
           s == <<b>>
<1>1. l \in Leads
  BY DEF Leads
<1>2. s \in Seq(Bytes) /\ Len(s) = 1 + 0 /\ s[1] \in l.lead /\ l.follow = 0
  BY BytesAre
<1> HIDE DEF l, s
<1>3. /\ 0 \in 0..3
      /\ 0 > 0 => s[2] \in l.next
      /\ \A i \in 3..1 + 0 : s[i] \in 128..191
  OBVIOUS
<1>4. IsUtf8(s)
  BY <1>1, <1>2, <1>3, OneCharacter
<1> QED BY <1>2, <1>4 DEF s

LEMMA ContinuationRange ==
    ASSUME NEW c \in Nat
    PROVE  Continuation(c) \in 128..191
  BY DEF Continuation

\* Two, three and four bytes, from what the second may be.
LEMMA TwoBytes ==
    ASSUME NEW c \in Nat, c >= 128, c < 2048
    PROVE  IsUtf8(Utf8(c))
<1> DEFINE l == [lead |-> 194..223, follow |-> 1, next |-> 128..191]
           a == 192 + c \div 64
           b == Continuation(c)
<1>1. l \in Leads
  BY DEF Leads
<1>2. a \in 194..223 /\ b \in 128..191
  BY ContinuationRange
<1>3. Utf8(c) = <<a, b>>
  BY DEF Utf8
<1> HIDE DEF a, b
<1> DEFINE s == <<a, b>>
<1>4. s \in Seq(Bytes)
  BY <1>2, BytesAre
<1>5. /\ Len(s) = 1 + 1 /\ s[1] \in l.lead
      /\ l.follow = 1 /\ s[2] \in l.next
      /\ \A i \in 3..1 + 1 : s[i] \in 128..191
  BY <1>2
<1> HIDE DEF l, s
<1>6. IsUtf8(s)
  BY <1>1, <1>4, <1>5, OneCharacter
<1> QED BY <1>3, <1>6 DEF s

LEMMA ThreeBytes ==
    ASSUME NEW c \in Nat, c >= 2048, c < 65536, ~LowSurrogate(c), ~HighSurrogate(c)
    PROVE  IsUtf8(Utf8(c))
<1> DEFINE x == c \div 4096
           y == (c \div 64) % 64
           a == 224 + x
           b == Continuation(c \div 64)
           d == Continuation(c)
<1>1. /\ x \in 0..15 /\ y \in 0..63 /\ b = 128 + y /\ d \in 128..191
      /\ x = 0 => y >= 32
      /\ x = 13 => y < 32
  <2>1. c \div 64 \in Nat
    OBVIOUS
  <2>2. x \in 0..15 /\ y \in 0..63
    OBVIOUS
  <2>3. x = 0 => y >= 32
    OBVIOUS
  <2>4. x = 13 => y < 32
    BY DEF LowSurrogate, HighSurrogate
  <2> QED BY <2>1, <2>2, <2>3, <2>4, ContinuationRange DEF Continuation
<1>2. Utf8(c) = <<a, b, d>>
  BY DEF Utf8
<1> HIDE DEF x, y, b, d
<1>3. PICK l \in Leads : l.follow = 2 /\ a \in l.lead /\ b \in l.next
  <2>1. CASE x = 0
    BY <1>1, <2>1 DEF Leads
  <2>2. CASE x = 13
    BY <1>1, <2>2 DEF Leads
  <2>3. CASE x # 0 /\ x # 13
    BY <1>1, <2>3 DEF Leads
  <2> QED BY <2>1, <2>2, <2>3
<1>7. a \in Bytes
  BY <1>1, BytesAre
<1> HIDE DEF a
<1> DEFINE s == <<a, b, d>>
<1>4. s \in Seq(Bytes)
  BY <1>1, <1>7, BytesAre
<1>5. /\ Len(s) = 1 + 2 /\ s[1] \in l.lead
      /\ s[2] \in l.next
      /\ \A i \in 3..1 + 2 : s[i] \in 128..191
  BY <1>1, <1>3
<1> HIDE DEF s
<1>6. IsUtf8(s)
  BY <1>3, <1>4, <1>5, OneCharacter
<1> QED BY <1>2, <1>6 DEF s

LEMMA FourBytes ==
    ASSUME NEW c \in Nat, c >= 65536, c < 1114112
    PROVE  IsUtf8(Utf8(c))
<1> DEFINE x == c \div 262144
           y == (c \div 4096) % 64
           a == 240 + x
           b == Continuation(c \div 4096)
           d == Continuation(c \div 64)
           e == Continuation(c)
<1>1. /\ x \in 0..4 /\ y \in 0..63 /\ b = 128 + y /\ d \in 128..191
      /\ e \in 128..191
      /\ x = 0 => y >= 16
      /\ x = 4 => y < 16
  <2>1. c \div 64 \in Nat /\ c \div 4096 \in Nat
    OBVIOUS
  <2>2. x \in 0..4 /\ y \in 0..63
    OBVIOUS
  <2>3. x = 0 => y >= 16
    OBVIOUS
  <2>4. x = 4 => y < 16
    OBVIOUS
  <2> QED BY <2>1, <2>2, <2>3, <2>4, ContinuationRange DEF Continuation
<1>2. Utf8(c) = <<a, b, d, e>>
  BY DEF Utf8
<1> HIDE DEF x, y, b, d, e
<1>3. PICK l \in Leads : l.follow = 3 /\ a \in l.lead /\ b \in l.next
  <2>1. CASE x = 0
    BY <1>1, <2>1 DEF Leads
  <2>2. CASE x = 4
    BY <1>1, <2>2 DEF Leads
  <2>3. CASE x # 0 /\ x # 4
    BY <1>1, <2>3 DEF Leads
  <2> QED BY <2>1, <2>2, <2>3
<1>7. a \in Bytes
  BY <1>1, BytesAre
<1> HIDE DEF a
<1> DEFINE s == <<a, b, d, e>>
<1>4. s \in Seq(Bytes)
  BY <1>1, <1>7, BytesAre
<1>5. /\ Len(s) = 1 + 3 /\ s[1] \in l.lead
      /\ s[2] \in l.next
      /\ \A i \in 3..1 + 3 : s[i] \in 128..191
  BY <1>1, <1>3
<1> HIDE DEF s
<1>6. IsUtf8(s)
  BY <1>3, <1>4, <1>5, OneCharacter
<1> QED BY <1>2, <1>6 DEF s

\* The tail of utf16_literal_to_utf8 encodes every code point that is one.
LEMMA Utf8Encodes ==
    ASSUME NEW c \in Nat, c < 1114112, ~LowSurrogate(c), ~HighSurrogate(c)
    PROVE  IsUtf8(Utf8(c))
<1>1. CASE c < 128
  <2>1. Utf8(c) = <<c>>
    BY <1>1 DEF Utf8
  <2> QED BY <1>1, <2>1, AsciiIsUtf8
<1> QED BY <1>1, TwoBytes, ThreeBytes, FourBytes

\* A step of the second pass that writes whole characters.
LEMMA CharactersWritten ==
    ASSUME TypeOK, WholeCharacters, NEW bytes \in Seq(Bytes), NEW taken \in Nat,
           Write(bytes, taken), Ascii => IsUtf8(bytes)
    PROVE  WholeCharacters'
<1>1. output \in Seq(Bytes)
  BY DEF TypeOK
<1>2. output' = output \o bytes /\ text' = text
  BY DEF Write
<1>3. Ascii' <=> Ascii
  BY <1>2 DEF Ascii
<1>4. Ascii => IsUtf8(output \o bytes)
  BY <1>1, Utf8Joined DEF WholeCharacters
<1> QED BY <1>2, <1>3, <1>4 DEF WholeCharacters

LEMMA NextWhole == IInv /\ WholeCharacters /\ [Next]_vars => WholeCharacters'
<1> SUFFICES ASSUME IInv, WholeCharacters, [Next]_vars PROVE WholeCharacters'
  OBVIOUS
<1>0. TypeOK /\ Saving /\ ptr \in Nat /\ ptr >= 2 /\ output \in Seq(Bytes)
  BY Facts DEF IInv
<1>1. CASE CopyPlain
  <2>1. Copying /\ Write(<<text[ptr]>>, 1)
    BY <1>1 DEF CopyPlain
  <2>2. ptr \in 1..Len(text) /\ text[ptr] \in Bytes
    BY <1>0, <2>1 DEF Copying, TypeOK
  <2>3. Ascii => IsUtf8(<<text[ptr]>>)
    BY <2>2, AsciiIsUtf8, BytesAre DEF Ascii
  <2>4. <<text[ptr]>> \in Seq(Bytes) /\ 1 \in Nat
    BY <2>2
  <2> QED BY <1>0, <2>1, <2>3, <2>4, CharactersWritten
<1>2. CASE CopyEscape
  <2>1. PICK c \in Control : Write(<<c[2]>>, 2)
    BY <1>2 DEF CopyEscape
  <2>2. c[2] \in Nat /\ c[2] < 128
    BY DEF Control, Quote, Backslash, Slash
  <2>3. <<c[2]>> \in Seq(Bytes) /\ IsUtf8(<<c[2]>>) /\ 2 \in Nat
    BY <2>2, AsciiIsUtf8
  <2> QED BY <1>0, <2>1, <2>3, CharactersWritten
<1>3. CASE CopyCode
  <2>1. FirstCode \in Nat /\ FirstCode < 65536
    BY <1>0, FirstRange
  <2>2. /\ Write(Utf8(FirstCode), 6)
        /\ ~LowSurrogate(FirstCode) /\ ~HighSurrogate(FirstCode)
    BY <1>3 DEF CopyCode, CopyUnlessSurrogate
  <2>3. Utf8(FirstCode) \in Seq(Bytes) /\ IsUtf8(Utf8(FirstCode)) /\ 6 \in Nat
    BY <2>1, <2>2, Utf8Bytes, Utf8Encodes
  <2> QED BY <1>0, <2>2, <2>3, CharactersWritten
<1>4. CASE CopyPair
  <2>1. PairCode \in Nat /\ PairCode >= 65536 /\ PairCode < 1114112
    BY <1>0, PairRange
  <2>2. Write(Utf8(PairCode), 12)
    BY <1>4 DEF CopyPair
  <2>3. ~LowSurrogate(PairCode) /\ ~HighSurrogate(PairCode)
    BY <2>1 DEF LowSurrogate, HighSurrogate
  <2>4. Utf8(PairCode) \in Seq(Bytes) /\ IsUtf8(Utf8(PairCode)) /\ 12 \in Nat
    BY <2>1, <2>3, Utf8Bytes, Utf8Encodes
  <2> QED BY <1>0, <2>2, <2>4, CharactersWritten
<1>5. CASE Finish
  <2>1. output' = output \o <<0>> /\ text' = text
    BY <1>0, <1>5 DEF Finish
  <2>2. <<0>> \in Seq(Bytes) /\ IsUtf8(<<0>>)
    BY AsciiIsUtf8
  <2>3. Ascii => IsUtf8(output \o <<0>>)
    BY <1>0, <2>2, Utf8Joined DEF WholeCharacters
  <2>4. Ascii' <=> Ascii
    BY <2>1 DEF Ascii
  <2> QED BY <2>1, <2>3, <2>4 DEF WholeCharacters
<1>6. CASE UNCHANGED <<text, output>>
  BY <1>6 DEF WholeCharacters, Ascii, IsUtf8, WellFormedAt
<1>7. \/ CopyPlain \/ CopyEscape \/ CopyCode \/ CopyPair \/ Finish
      \/ UNCHANGED <<text, output>>
  BY DEF Next, NotAString, FailIf, Begin, MeasurePlain, MeasureEscape,
         MeasureEscapeBy, Unclosed, Allocate, NoMemory, BadEscape, Returned, vars
<1> QED BY <1>1, <1>2, <1>3, <1>4, <1>5, <1>6, <1>7

(***************************************************************************)
(* Which literals are taken.                                               *)
(***************************************************************************)
Below == {pair \in Nat \X Nat : pair[1] < pair[2]}

LEMMA Least ==
    ASSUME NEW S, S \subseteq Nat, S # {}
    PROVE  \E x \in S : \A y \in S : x <= y
<1>1. IsWellFoundedOn(Below, Nat)
  BY NatLessThanWellFounded DEF OpToRel, Below
<1>2. PICK x \in S : \A y \in S : <<y, x>> \notin Below
  BY <1>1, WFMin
<1>3. \A y \in S : ~(y < x)
  BY <1>2 DEF Below
<1> QED BY <1>2, <1>3

\* The first of the backslashes that end at p.
LEMMA FirstOfRun ==
    ASSUME NEW t, NEW p \in Nat, p >= 2, t[p] = Backslash
    PROVE  \E r \in 2..p : /\ \A i \in r..p : t[i] = Backslash
                           /\ r > 2 => t[r - 1] # Backslash
<1> DEFINE S == {r \in 2..p : \A i \in r..p : t[i] = Backslash}
<1>1. p \in S /\ S \subseteq Nat
  OBVIOUS
<1>2. PICK r \in S : \A y \in S : r <= y
  BY <1>1, Least
<1>3. ASSUME r > 2, t[r - 1] = Backslash PROVE FALSE
  <2>1. r - 1 \in 2..p /\ \A i \in r-1..p : i = r - 1 \/ i \in r..p
    BY <1>2, <1>3
  <2>2. r - 1 \in S
    BY <1>2, <1>3, <2>1
  <2> QED BY <1>2, <2>2
<1> QED BY <1>2, <1>3

\* The backslash behind one that begins an escape sequence does not, any other
\* one does.
LEMMA EscapesStep ==
    ASSUME NEW t, NEW p \in Nat, p >= 2
    PROVE  Escapes(t, p) <=> t[p] = Backslash /\ ~Escapes(t, p - 1)
<1>1. ASSUME Escapes(t, p) PROVE t[p] = Backslash
  BY <1>1 DEF Escapes
<1>2. ASSUME Escapes(t, p), Escapes(t, p - 1) PROVE FALSE
  <2>1. PICK r \in 2..p : /\ (p - r) % 2 = 0
                          /\ \A i \in r..p : t[i] = Backslash
                          /\ r > 2 => t[r - 1] # Backslash
    BY <1>2 DEF Escapes
  <2>2. PICK s \in 2..p-1 : /\ ((p - 1) - s) % 2 = 0
                            /\ \A i \in s..p-1 : t[i] = Backslash
                            /\ s > 2 => t[s - 1] # Backslash
    BY <1>2 DEF Escapes
  <2>3. CASE r < s
    <3>1. s - 1 \in r..p /\ s > 2
      BY <2>1, <2>2, <2>3
    <3> QED BY <2>1, <2>2, <3>1
  <2>4. CASE s < r
    <3>1. r - 1 \in s..p-1 /\ r > 2
      BY <2>1, <2>2, <2>4
    <3> QED BY <2>1, <2>2, <3>1
  <2>5. CASE r = s
    BY <2>1, <2>2, <2>5
  <2> QED BY <2>3, <2>4, <2>5
<1>3. ASSUME t[p] = Backslash, ~Escapes(t, p), ~Escapes(t, p - 1) PROVE FALSE
  <2>1. PICK r \in 2..p : /\ \A i \in r..p : t[i] = Backslash
                          /\ r > 2 => t[r - 1] # Backslash
    BY <1>3, FirstOfRun
  <2>2. (p - r) % 2 # 0
    BY <1>3, <2>1 DEF Escapes
  <2>3. r \in 2..p-1 /\ ((p - 1) - r) % 2 = 0
    BY <2>1, <2>2
  <2>4. \A i \in r..p-1 : t[i] = Backslash
    BY <2>1
  <2> QED BY <1>3, <2>1, <2>3, <2>4 DEF Escapes
<1> QED BY <1>1, <1>2, <1>3

LEMMA NoEscapeFirst == \A t : ~Escapes(t, 1)
  BY DEF Escapes

\* parse_hex4 of four digits: what the first two of them tell of a surrogate.
LEMMA DigitValues ==
    ASSUME NEW b \in HexDigits
    PROVE  /\ HexDigit(b) = 13 <=> b \in {68, 100}
           /\ HexDigit(b) \in 8..11 <=> b \in {56, 57, 65, 66, 97, 98}
           /\ HexDigit(b) \in 12..15 <=> b \in (67..70) \cup (99..102)
  BY DEF HexDigits, HexDigit

LEMMA SurrogateDigits ==
    ASSUME NEW p \in Nat, \A i \in p..p+3 : text[i] \in HexDigits
    PROVE  /\ HighSurrogate(ParseHex4(p)) <=>
                /\ text[p] \in {68, 100}
                /\ text[p + 1] \in {56, 57, 65, 66, 97, 98}
           /\ LowSurrogate(ParseHex4(p)) <=>
                /\ text[p] \in {68, 100}
                /\ text[p + 1] \in (67..70) \cup (99..102)
<1>1. /\ text[p] \in HexDigits /\ text[p + 1] \in HexDigits
      /\ text[p + 2] \in HexDigits /\ text[p + 3] \in HexDigits
  OBVIOUS
<1> DEFINE a == HexDigit(text[p])      b == HexDigit(text[p + 1])
           c == HexDigit(text[p + 2])  d == HexDigit(text[p + 3])
<1>2. a \in 0..15 /\ b \in 0..15 /\ c \in 0..15 /\ d \in 0..15
  BY <1>1, HexDigitRange
<1>3. ParseHex4(p) = 4096 * a + 256 * b + 16 * c + d
  BY DEF ParseHex4
<1>4. /\ a = 13 <=> text[p] \in {68, 100}
      /\ b \in 8..11 <=> text[p + 1] \in {56, 57, 65, 66, 97, 98}
      /\ b \in 12..15 <=> text[p + 1] \in (67..70) \cup (99..102)
  BY <1>1, DigitValues
<1> HIDE DEF a, b, c, d
<1> DEFINE h == ParseHex4(p)
<1>5. h = 4096 * a + 256 * b + 16 * c + d
  BY <1>3
<1> HIDE DEF h
<1>6. 55296 <= h /\ h <= 56319 <=> a = 13 /\ b \in 8..11
  BY <1>2, <1>5
<1>7. 56320 <= h /\ h <= 57343 <=> a = 13 /\ b \in 12..15
  BY <1>2, <1>5
<1> QED BY <1>4, <1>6, <1>7 DEF HighSurrogate, LowSurrogate, h

\* The second pass goes on by k bytes that begin no half of a pair.
LEMMA PairedPast ==
    ASSUME NEW t, NEW q \in Nat, NEW k \in Nat, Paired(t, q),
           \A p \in q..q+k-1 : ~High(t, p) /\ ~Low(t, p)
    PROVE  Paired(t, q + k)
<1> SUFFICES ASSUME NEW p \in 2..(q+k)-1
             PROVE  /\ High(t, p) => p + 6 < q + k /\ Low(t, p + 6)
                    /\ Low(t, p) => p > 7 /\ High(t, p - 6)
  BY DEF Paired
<1>1. CASE p < q
  <2>1. p \in 2..q-1
    BY <1>1
  <2> QED BY <2>1 DEF Paired
<1>2. CASE p >= q
  BY <1>2
<1> QED BY <1>1, <1>2

\* Or by a pair.
LEMMA PairedOver ==
    ASSUME NEW t, NEW q \in Nat, q >= 2, Paired(t, q),
           High(t, q), Low(t, q + 6),
           \A p \in q+1..q+11 : p # q + 6 => ~High(t, p) /\ ~Low(t, p)
    PROVE  Paired(t, q + 12)
<1>1. ~Low(t, q) /\ ~High(t, q + 6)
  BY DEF High, Low
<1> SUFFICES ASSUME NEW p \in 2..(q+12)-1
             PROVE  /\ High(t, p) => p + 6 < q + 12 /\ Low(t, p + 6)
                    /\ Low(t, p) => p > 7 /\ High(t, p - 6)
  BY DEF Paired
<1>2. CASE p < q
  <2>1. p \in 2..q-1
    BY <1>2
  <2> QED BY <2>1 DEF Paired
<1>3. CASE p = q
  BY <1>1, <1>3
<1>4. CASE p = q + 6
  <2>1. p - 6 = q /\ p > 7
    BY <1>4
  <2> QED BY <1>1, <1>4, <2>1
<1>5. CASE p > q /\ p # q + 6
  BY <1>5
<1> QED BY <1>2, <1>3, <1>4, <1>5

\* A \u of a literal of JSON, its digits, and what they say; no escape sequence
\* begins among its bytes.
LEMMA UnitInLiteral ==
    ASSUME NEW n \in Nat, NEW p \in Nat, p >= 2, p < n,
           JsonLiteral(text, n), Unit(text, p)
    PROVE  /\ p + 6 <= n
           /\ HighSurrogate(ParseHex4(p + 2)) <=> High(text, p)
           /\ LowSurrogate(ParseHex4(p + 2)) <=> Low(text, p)
           /\ \A i \in p+1..p+5 : ~Escapes(text, i)
<1>1. p + 5 < n /\ \A i \in p+2..p+5 : text[i] \in HexDigits
  <2>1. p \in 2..n-1
    OBVIOUS
  <2> QED BY <2>1 DEF JsonLiteral, HexDigits
<1>2. \A i \in p+2..p+5 : text[i] # Backslash
  BY <1>1 DEF HexDigits, Backslash
<1>3. ASSUME NEW i \in p+1..p+5 PROVE ~Escapes(text, i)
  <2>0. i \in Nat /\ i >= 2
    OBVIOUS
  <2>1. CASE i = p + 1
    <3>1. Escapes(text, p) /\ i - 1 = p
      BY <2>1 DEF Unit
    <3> QED BY <2>0, <3>1, EscapesStep
  <2>2. CASE i # p + 1
    <3>1. i \in p+2..p+5
      BY <2>2
    <3> QED BY <2>0, <1>2, <3>1, EscapesStep
  <2> QED BY <2>1, <2>2
<1> DEFINE q == p + 2
<1>4. q \in Nat /\ \A i \in q..q+3 : text[i] \in HexDigits
  BY <1>1
<1>5. q + 1 = p + 3
  OBVIOUS
<1> HIDE DEF q
<1>6. /\ HighSurrogate(ParseHex4(q)) <=>
            text[q] \in {68, 100} /\ text[q + 1] \in {56, 57, 65, 66, 97, 98}
      /\ LowSurrogate(ParseHex4(q)) <=>
            text[q] \in {68, 100} /\ text[q + 1] \in (67..70) \cup (99..102)
  BY <1>4, SurrogateDigits
<1>7. /\ HighSurrogate(ParseHex4(q)) <=> High(text, p)
      /\ LowSurrogate(ParseHex4(q)) <=> Low(text, p)
  BY <1>5, <1>6 DEF High, Low, q
<1> QED BY <1>1, <1>3, <1>7 DEF q

\* Where the passes are in a literal that ends at n.
Measured(n) == pc = "measure" => inputEnd <= n /\ ~Escapes(text, inputEnd - 1)
Copied(n) == pc = "copy" => /\ inputEnd = n /\ ptr <= n
                            /\ ~Escapes(text, ptr - 1) /\ Paired(text, ptr)

\* The first pass.
LEMMA FirstPass ==
    ASSUME IInv, Aligned, NEW n \in 2..Len(text), JsonLiteral(text, n),
           Begin \/ MeasurePlain \/ MeasureEscape \/ Allocate
    PROVE  Measured(n)' /\ Copied(n)'
<1>0. /\ n \in Nat /\ n >= 2 /\ inputEnd \in Nat /\ inputEnd >= 2 /\ text' = text
      /\ text[n] = Quote /\ ~Escapes(text, n - 1) /\ Backslash # Quote
  BY DEF IInv, TypeOK, JsonLiteral, Begin, MeasurePlain, MeasureEscape,
         MeasureEscapeBy, Allocate, Quote, Backslash
<1>1. CASE Begin
  <2>1. pc' = "measure" /\ inputEnd' = 2
    BY <1>1 DEF Begin, Aligned
  <2> QED BY <1>0, <2>1, NoEscapeFirst DEF Measured, Copied
<1>2. pc = "measure" => inputEnd <= n /\ ~Escapes(text, inputEnd - 1)
  BY DEF Aligned
<1>3. CASE MeasurePlain
  <2>1. /\ inputEnd <= n /\ text[inputEnd] # Quote /\ text[inputEnd] # Backslash
        /\ pc' = "measure" /\ inputEnd' = inputEnd + 1
    BY <1>2, <1>3 DEF MeasurePlain, Measuring
  <2>2. inputEnd' <= n /\ inputEnd' - 1 = inputEnd
    BY <1>0, <2>1
  <2>3. ~Escapes(text, inputEnd)
    BY <1>0, <2>1, EscapesStep
  <2> QED BY <1>0, <2>1, <2>2, <2>3 DEF Measured, Copied
<1>4. CASE MeasureEscape
  <2>1. /\ inputEnd <= n /\ text[inputEnd] = Backslash
        /\ ~Escapes(text, inputEnd - 1)
        /\ pc' = "measure" /\ inputEnd' = inputEnd + 2
    BY <1>2, <1>4 DEF MeasureEscape, MeasureEscapeBy, Measuring
  <2>2. Escapes(text, inputEnd)
    BY <1>0, <2>1, EscapesStep
  <2>3. inputEnd # n /\ inputEnd # n - 1
    BY <1>0, <2>1, <2>2
  <2>4. inputEnd' <= n /\ inputEnd' - 1 = inputEnd + 1
    BY <1>0, <2>1, <2>3
  <2>5. ~Escapes(text, inputEnd + 1)
    <3> DEFINE p == inputEnd + 1
    <3>1. p \in Nat /\ p >= 2 /\ p - 1 = inputEnd
      BY <1>0
    <3> HIDE DEF p
    <3>2. ~Escapes(text, p)
      BY <2>2, <3>1, EscapesStep
    <3> QED BY <3>2 DEF p
  <2> QED BY <1>0, <2>1, <2>4, <2>5 DEF Measured, Copied
<1>5. CASE Allocate
  <2>1. /\ pc = "measure" /\ text[inputEnd] = Quote /\ ptr' = 2
        /\ pc' = "copy" /\ inputEnd' = inputEnd
    BY <1>5 DEF Allocate, Closed, IInv, Room
  <2>2. inputEnd = n
    <3> SUFFICES ASSUME inputEnd # n PROVE FALSE
      OBVIOUS
    <3>1. inputEnd \in 2..n-1
      BY <1>0, <1>2, <2>1
    <3>2. Escapes(text, inputEnd - 1)
      BY <2>1, <3>1 DEF JsonLiteral
    <3> QED BY <1>2, <2>1, <3>2
  <2>3. Paired(text, 2)
    BY DEF Paired
  <2> QED BY <1>0, <2>1, <2>2, <2>3, NoEscapeFirst DEF Measured, Copied
<1> QED BY <1>1, <1>3, <1>4, <1>5

\* Where the second pass is when it goes on.
LEMMA InLiteral ==
    ASSUME IInv, Aligned, NEW n \in 2..Len(text), JsonLiteral(text, n), Copying
    PROVE  /\ n \in Nat /\ n >= 2 /\ inputEnd = n
           /\ ptr \in Nat /\ ptr >= 2 /\ ptr < n
           /\ Paired(text, ptr) /\ ~Escapes(text, n - 1)
           /\ Escapes(text, ptr) <=> text[ptr] = Backslash
<1>1. /\ ptr \in Nat /\ ptr >= 2 /\ inputEnd = n /\ ptr < n
      /\ Paired(text, ptr) /\ ~Escapes(text, ptr - 1)
  BY DEF IInv, TypeOK, Aligned, Copying
<1> QED BY <1>1, EscapesStep DEF JsonLiteral

\* It went on by taken bytes.
LEMMA GoneOn ==
    ASSUME NEW n \in Nat, NEW taken \in Nat, ptr \in Nat, inputEnd = n,
           NEW bytes, Write(bytes, taken), Copying,
           ptr + taken <= n, ~Escapes(text, ptr + taken - 1),
           Paired(text, ptr + taken)
    PROVE  Measured(n)' /\ Copied(n)'
<1>1. /\ pc' = "copy" /\ inputEnd' = n /\ text' = text /\ ptr' = ptr + taken
  BY DEF Write, Copying
<1> QED BY <1>1 DEF Measured, Copied

LEMMA SecondPass ==
    ASSUME IInv, Aligned, NEW n \in 2..Len(text), JsonLiteral(text, n),
           CopyPlain \/ CopyEscape \/ CopyCode \/ CopyPair
    PROVE  Measured(n)' /\ Copied(n)'
<1>0. Copying
  BY DEF CopyPlain, CopyEscape, CopyCode, CopyUnlessSurrogate, CopyPair,
         CopyUtf16, Escaping
<1>1. /\ n \in Nat /\ n >= 2 /\ inputEnd = n
      /\ ptr \in Nat /\ ptr >= 2 /\ ptr < n
      /\ Paired(text, ptr) /\ ~Escapes(text, n - 1)
      /\ Escapes(text, ptr) <=> text[ptr] = Backslash
  BY <1>0, InLiteral
<1>2. \A p \in Nat : ~Escapes(text, p) => ~High(text, p) /\ ~Low(text, p)
  BY DEF High, Low, Unit
<1>3. CASE CopyPlain
  <2>1. ~Escapes(text, ptr) /\ Write(<<text[ptr]>>, 1)
    BY <1>1, <1>3 DEF CopyPlain
  <2>2. \A p \in ptr..ptr+1-1 : ~High(text, p) /\ ~Low(text, p)
    BY <1>1, <1>2, <2>1
  <2>3. Paired(text, ptr + 1)
    BY <1>1, <2>2, PairedPast
  <2>4. ptr + 1 <= n /\ ptr + 1 - 1 = ptr /\ 1 \in Nat
    BY <1>1
  <2> QED BY <1>0, <1>1, <2>1, <2>3, <2>4, GoneOn
<1>4. CASE CopyEscape
  <2>1. PICK c \in Control : c[1] = text[ptr + 1] /\ Write(<<c[2]>>, 2)
    BY <1>4 DEF CopyEscape
  <2>2. c[1] # Letter.u
    BY LetterBytes DEF Control, Quote, Backslash, Slash
  <2>3. Escapes(text, ptr) /\ ~Unit(text, ptr)
    BY <1>1, <1>4, <2>1, <2>2 DEF CopyEscape, Escaping, Unit
  <2>4. ~Escapes(text, ptr + 1)
    <3> DEFINE p == ptr + 1
    <3>1. p \in Nat /\ p >= 2 /\ p - 1 = ptr
      BY <1>1
    <3> HIDE DEF p
    <3>2. ~Escapes(text, p)
      BY <2>3, <3>1, EscapesStep
    <3> QED BY <3>2 DEF p
  <2>5. \A p \in ptr..ptr+2-1 : ~High(text, p) /\ ~Low(text, p)
    <3>1. \A p \in ptr..ptr+2-1 : p = ptr \/ p = ptr + 1
      BY <1>1
    <3>2. ptr + 1 \in Nat
      BY <1>1
    <3> QED BY <1>1, <1>2, <2>3, <2>4, <3>1, <3>2 DEF High, Low
  <2>6. Paired(text, ptr + 2)
    BY <1>1, <2>5, PairedPast
  <2>7. ptr # n - 1
    BY <1>1, <2>3
  <2>8. ptr + 2 <= n /\ ptr + 2 - 1 = ptr + 1 /\ 2 \in Nat
    BY <1>1, <2>7
  <2> QED BY <1>0, <1>1, <2>1, <2>4, <2>6, <2>8, GoneOn
<1>5. ASSUME CopyUtf16
      PROVE  /\ Unit(text, ptr) /\ ptr + 6 <= n
             /\ HighSurrogate(FirstCode) <=> High(text, ptr)
             /\ LowSurrogate(FirstCode) <=> Low(text, ptr)
             /\ \A i \in ptr+1..ptr+5 : ~Escapes(text, i)
  <2>1. Unit(text, ptr)
    BY <1>1, <1>5 DEF CopyUtf16, Escaping, Unit
  <2> QED BY <1>1, <2>1, UnitInLiteral DEF FirstCode
<1>6. CASE CopyCode
  <2>1. /\ CopyUtf16 /\ Write(Utf8(FirstCode), 6)
        /\ ~LowSurrogate(FirstCode) /\ ~HighSurrogate(FirstCode)
    BY <1>6 DEF CopyCode, CopyUnlessSurrogate
  <2>2. \A p \in ptr..ptr+6-1 : ~High(text, p) /\ ~Low(text, p)
    <3>1. \A p \in ptr..ptr+6-1 : p = ptr \/ p \in ptr+1..ptr+5
      BY <1>1
    <3>2. \A p \in ptr+1..ptr+5 : p \in Nat
      BY <1>1
    <3> QED BY <1>2, <1>5, <2>1, <3>1, <3>2
  <2>3. Paired(text, ptr + 6)
    BY <1>1, <2>2, PairedPast
  <2>4. ptr + 6 - 1 \in ptr+1..ptr+5 /\ 6 \in Nat
    BY <1>1
  <2> QED BY <1>0, <1>1, <1>5, <2>1, <2>3, <2>4, GoneOn
<1>7. CASE CopyPair
  <2>1. /\ CopyUtf16 /\ HighSurrogate(FirstCode) /\ SecondFollows
        /\ Write(Utf8(PairCode), 12)
    BY <1>7 DEF CopyPair
  <2> DEFINE q == ptr + 6
  <2>2. /\ q \in Nat /\ q >= 2 /\ q < n /\ q - 1 \in ptr+1..ptr+5
        /\ q + 1 = ptr + 7 /\ q + 2 = ptr + 8
    <3>1. n - (ptr + 6) >= 6
      BY <1>1, <2>1 DEF SecondFollows, Within
    <3> QED BY <1>1, <3>1
  <2>3. /\ text[q] = Backslash /\ text[q + 1] = Letter.u
        /\ LowSurrogate(ParseHex4(q + 2))
    BY <2>1, <2>2 DEF SecondFollows, SecondCode
  <2> HIDE DEF q
  <2>4. Escapes(text, q)
    BY <1>5, <2>1, <2>2, <2>3, EscapesStep
  <2>5. Unit(text, q)
    BY <2>3, <2>4 DEF Unit
  <2>6. /\ q + 6 <= n /\ Low(text, q)
        /\ \A i \in q+1..q+5 : ~Escapes(text, i)
    BY <1>1, <2>2, <2>3, <2>5, UnitInLiteral
  <2>7. High(text, ptr) /\ \A i \in ptr+1..ptr+5 : ~Escapes(text, i)
    BY <1>5, <2>1
  <2>8. \A p \in ptr+1..ptr+11 : p # ptr + 6 => ~High(text, p) /\ ~Low(text, p)
    <3>1. \A p \in ptr+1..ptr+11 :
             p \in Nat /\ (p # ptr + 6 => p \in ptr+1..ptr+5 \/ p \in q+1..q+5)
      BY <1>1 DEF q
    <3> QED BY <1>2, <2>6, <2>7, <3>1
  <2>9. Paired(text, ptr + 12)
    BY <1>1, <2>6, <2>7, <2>8, PairedOver DEF q
  <2>10. ptr + 12 <= n /\ ptr + 12 - 1 \in q+1..q+5 /\ 12 \in Nat
    BY <1>1, <2>6 DEF q
  <2> QED BY <1>0, <1>1, <2>1, <2>6, <2>9, <2>10, GoneOn
<1> QED BY <1>3, <1>4, <1>6, <1>7

LEMMA NextAligned == IInv /\ Aligned /\ [Next]_vars => Aligned'
<1> SUFFICES ASSUME IInv, Aligned, [Next]_vars PROVE Aligned'
  OBVIOUS
<1>1. text' = text
  BY DEF Next, NotAString, FailIf, Begin, MeasurePlain, MeasureEscape,
         MeasureEscapeBy, Unclosed, Allocate, NoMemory, CopyPlain, CopyEscape,
         CopyCode, CopyUnlessSurrogate, CopyPair, Write, BadEscape, Finish,
         Returned, vars
<1>2. pc' = "start" => inputEnd' = 2
  BY DEF Aligned, Next, NotAString, FailIf, Begin, MeasurePlain, MeasureEscape,
         MeasureEscapeBy, Measuring, Unclosed, Allocate, NoMemory, CopyPlain,
         CopyEscape, CopyCode, CopyUnlessSurrogate, CopyPair, CopyUtf16,
         Escaping, Copying, Write, BadEscape, Finish, Returned, vars
<1>3. ASSUME NEW n \in 2..Len(text), JsonLiteral(text, n)
      PROVE  Measured(n)' /\ Copied(n)'
  <2>1. CASE Begin \/ MeasurePlain \/ MeasureEscape \/ Allocate
    BY <1>3, <2>1, FirstPass
  <2>2. CASE CopyPlain \/ CopyEscape \/ CopyCode \/ CopyPair
    BY <1>3, <2>2, SecondPass
  <2>3. CASE pc' \in {"failed", "done"}
    BY <2>3 DEF Measured, Copied
  <2>4. CASE UNCHANGED vars
    BY <1>3, <2>4 DEF vars, Aligned, Measured, Copied
  <2> QED BY <2>1, <2>2, <2>3, <2>4
          DEF Next, NotAString, FailIf, Unclosed, NoMemory, BadEscape, Finish,
              Returned
<1> QED BY <1>1, <1>2, <1>3 DEF Aligned, Measured, Copied

\* The verdict of every step.
LEMMA StepJudged == IInv /\ Aligned /\ [Next]_vars => [Judged]_vars
<1> SUFFICES ASSUME IInv, Aligned, Next, ~UNCHANGED vars,
                    NEW n \in 2..Len(text), JsonLiteral(text, n)
             PROVE  /\ pc' = "failed" /\ ~Closed => ~Paired(text, n)
                    /\ pc' = "done" => Paired(text, n)
  BY DEF Judged
<1>0. /\ n \in Nat /\ n >= 2 /\ inputEnd \in Nat /\ ptr \in Nat /\ ptr >= 2
      /\ Len(text) \in Nat /\ n <= Len(text)
      /\ text[1] = Quote /\ text[n] = Quote /\ Backslash # Quote
  BY DEF IInv, TypeOK, JsonLiteral, Quote, Backslash
<1>1. CASE NotAString
  BY <1>0, <1>1 DEF NotAString, FailIf
<1>2. CASE Unclosed
  <2>1. /\ pc = "measure"
        /\ InText(inputEnd) =>
              text[inputEnd] = Backslash /\ ~InText(inputEnd + 1)
    BY <1>2 DEF Unclosed, FailIf
  <2>2. inputEnd <= n
    BY <2>1 DEF Aligned
  <2>3. text[inputEnd] = Backslash /\ inputEnd = n
    BY <1>0, <2>1, <2>2 DEF InText
  <2> QED BY <1>0, <2>3
<1>3. CASE NoMemory
  BY <1>3 DEF NoMemory, FailIf
<1>4. CASE Finish
  <2>1. inputEnd = n /\ ptr <= n /\ Paired(text, ptr) /\ ptr >= inputEnd
    BY <1>4 DEF Finish, Aligned
  <2>2. ptr = n
    BY <1>0, <2>1
  <2>3. pc' = "done"
    BY <1>4 DEF Finish
  <2> QED BY <2>1, <2>2, <2>3
<1>5. CASE BadEscape
  <2>1. /\ Copying /\ text[ptr] = Backslash
        /\ IF text[ptr + 1] = Letter.u
           THEN Within(ptr, 6) => IF HighSurrogate(FirstCode)
                                  THEN ~SecondFollows
                                  ELSE LowSurrogate(FirstCode)
           ELSE \A c \in Control : c[1] # text[ptr + 1]
        /\ pc' = "failed"
    BY <1>5 DEF BadEscape, FailIf, Escaping
  <2>2. /\ inputEnd = n /\ ptr < n /\ Paired(text, ptr) /\ Escapes(text, ptr)
    BY <2>1, InLiteral
  <2>3. ptr \in 2..n-1
    BY <1>0, <2>2
  <2>4. text[ptr + 1] = Letter.u
    <3> SUFFICES ASSUME text[ptr + 1] # Letter.u PROVE FALSE
      OBVIOUS
    <3>1. text[ptr + 1] \in {Quote, Backslash, Slash, Letter.b, Letter.f,
                             Letter.n, Letter.r, Letter.t}
      BY <2>2, <2>3 DEF JsonLiteral, Unit
    <3>2. \E c \in Control : c[1] = text[ptr + 1]
      BY <3>1 DEF Control
    <3> QED BY <2>1, <3>2
  <2>5. Unit(text, ptr)
    BY <2>2, <2>4 DEF Unit
  <2>6. /\ ptr + 6 <= n
        /\ HighSurrogate(FirstCode) <=> High(text, ptr)
        /\ LowSurrogate(FirstCode) <=> Low(text, ptr)
    BY <1>0, <2>2, <2>5, UnitInLiteral DEF FirstCode
  <2>7. Within(ptr, 6)
    BY <1>0, <2>2, <2>6 DEF Within
  <2> SUFFICES ASSUME Paired(text, n) PROVE FALSE
    BY <2>1
  <2>8. CASE HighSurrogate(FirstCode)
    <3> DEFINE q == ptr + 6
    <3>1. /\ q \in Nat /\ q >= 2 /\ q + 1 = ptr + 7 /\ q + 2 = ptr + 8
      BY <1>0
    <3>2. q < n /\ Low(text, q)
      BY <2>3, <2>6, <2>8 DEF Paired
    <3> HIDE DEF q
    <3>3. Unit(text, q) /\ Escapes(text, q)
      BY <3>2 DEF Low, Unit
    <3>4. /\ q + 6 <= n /\ LowSurrogate(ParseHex4(q + 2))
      BY <1>0, <3>1, <3>2, <3>3, UnitInLiteral
    <3>5. text[q] = Backslash /\ text[q + 1] = Letter.u
      BY <3>1, <3>3, EscapesStep DEF Unit
    <3>6. Within(q, 6)
      BY <1>0, <2>2, <3>1, <3>4 DEF Within
    <3>7. SecondFollows
      BY <3>1, <3>4, <3>5, <3>6 DEF SecondFollows, SecondCode, q
    <3> QED BY <2>1, <2>4, <2>7, <2>8, <3>7
  <2>9. CASE ~HighSurrogate(FirstCode)
    <3>1. Low(text, ptr)
      BY <2>1, <2>4, <2>6, <2>7, <2>9
    <3>2. ptr > 7 /\ High(text, ptr - 6)
      BY <2>3, <3>1 DEF Paired
    <3>3. ptr - 6 \in 2..ptr-1
      BY <1>0, <3>2
    <3>4. (ptr - 6) + 6 < ptr
      BY <2>2, <3>2, <3>3 DEF Paired
    <3> QED BY <1>0, <3>4
  <2> QED BY <2>8, <2>9
<1>6. CASE pc' \notin {"failed", "done"}
  BY <1>6
<1>7. CASE Returned
  BY <1>7 DEF Returned
<1>8. CASE /\ ~NotAString /\ ~Unclosed /\ ~NoMemory /\ ~Finish /\ ~BadEscape
           /\ ~Returned
  BY <1>6, <1>8
     DEF Next, Begin, MeasurePlain, MeasureEscape, MeasureEscapeBy, Measuring,
         Allocate, CopyPlain, CopyEscape, CopyCode, CopyUnlessSurrogate,
         CopyPair, CopyUtf16, Escaping, Copying, Write
<1> QED BY <1>1, <1>2, <1>3, <1>4, <1>5, <1>7, <1>8

\* parse_string, on every text: both positions stay inside the text, what is
\* written are bytes, and it only copies once it has found the closing quote.
THEOREM LiteralTypeCorrect == Spec => []TypeOK
<1>1. IInv => TypeOK
  BY DEF IInv
<1> QED BY <1>1, Inductive, PTL

\* parse_string, on every text and however its two passes cut it into escape
\* sequences: it never writes past the end of the buffer it allocated.
THEOREM LiteralNeverOverflows == Spec => []NoOverflow
<1>1. IInv => NoOverflow
  BY DEF IInv, Room
<1> QED BY <1>1, Inductive, PTL

\* parse_string and utf16_literal_to_utf8, on every text of ASCII bytes: what
\* they return is UTF-8, however the escape sequences are broken or cut.
THEOREM LiteralYieldsUtf8 == Spec => []YieldsUtf8
<1>1. Init => WholeCharacters
  BY DEF Init, WholeCharacters, IsUtf8
<1>2. WholeCharacters => YieldsUtf8
  BY DEF WholeCharacters, YieldsUtf8
<1> QED BY <1>1, <1>2, NextWhole, Inductive, PTL DEF Spec

\* parse_string and utf16_literal_to_utf8, on every text that begins with a
\* literal of JSON, by a grammar that knows nothing of the two passes: the
\* literal is refused if it holds half a surrogate pair, and else only for want
\* of memory.
THEOREM LiteralsOfJsonAreTaken == Spec => TakesJson
<1>1. Init => Aligned
  BY DEF Init, Aligned
<1> QED BY <1>1, NextAligned, StepJudged, Inductive, PTL DEF Spec, TakesJson

=============================================================================
