---------------------------- MODULE StringLiteral ----------------------------
(***************************************************************************)
(* parse_string of src/cJSON.c, which reads every key and every value of a *)
(* configuration.  It looks for the closing quote first, counting the      *)
(* bytes that escape sequences will save, allocates a buffer of the length *)
(* that remains, and then goes through the literal again and writes to the *)
(* buffer without looking at its end.  The two passes do not always agree  *)
(* on where an escape sequence begins.                                     *)
(*                                                                         *)
(* Positions in the text count from 1, where the opening quote should be.  *)
(***************************************************************************)
EXTENDS Integers, Sequences, SequencesExt

CONSTANT Texts     \* what the parse buffer may hold from its offset on

Bytes == {n \in Nat : n < 256}

ASSUME LiteralAssumption == Texts \subseteq Seq(Bytes) \ {<<>>}

VARIABLES
    pc,            \* the next step
    text,          \* the parse buffer
    inputEnd,      \* input_end
    skipped,       \* skipped_bytes, as a sequence: its value when input_end
                   \* first reached each position (for the properties)
    size,          \* bytes allocated for the output
    ptr,           \* input_pointer
    output,        \* what has been written there
    offset         \* the offset left to the caller

vars == <<pc, text, inputEnd, skipped, size, ptr, output, offset>>

Quote == 34
Slash == 47
Backslash == 92
Letter == [b |-> 98, f |-> 102, n |-> 110, r |-> 114, t |-> 116, u |-> 117]

Init ==
    /\ pc = "start"
    /\ text \in Texts
    /\ inputEnd = 2
    /\ skipped = <<0, 0>>
    /\ size = 0
    /\ ptr = 2
    /\ output = <<>>
    /\ offset = 0

\* goto fail: what was allocated is freed, and the error is at input_pointer.
FailIf(condition) ==
    /\ condition
    /\ pc' = "failed"
    /\ size' = 0
    /\ offset' = ptr
    /\ UNCHANGED <<text, inputEnd, skipped, ptr, output>>

-----------------------------------------------------------------------------
(***************************************************************************)
(* The first pass.                                                         *)
(***************************************************************************)
NotAString == pc = "start" /\ FailIf(text[1] # Quote)

Begin ==
    /\ pc = "start"
    /\ text[1] = Quote
    /\ pc' = "measure"
    /\ UNCHANGED <<text, inputEnd, skipped, size, ptr, output, offset>>

InText(p) == p <= Len(text)

Measuring == /\ pc = "measure"
             /\ InText(inputEnd)
             /\ text[inputEnd] # Quote

MeasurePlain ==
    /\ Measuring
    /\ text[inputEnd] # Backslash
    /\ inputEnd' = inputEnd + 1
    /\ skipped' = Append(skipped, Last(skipped))
    /\ UNCHANGED <<pc, text, size, ptr, output, offset>>

\* An escape sequence saves saving bytes.
MeasureEscapeBy(saving) ==
    /\ Measuring
    /\ text[inputEnd] = Backslash
    /\ InText(inputEnd + 1)
    /\ inputEnd' = inputEnd + 2
    /\ LET saved == Last(skipped) + saving
       IN  skipped' = Append(Append(skipped, saved), saved)
    /\ UNCHANGED <<pc, text, size, ptr, output, offset>>

\* Defect: both bytes of an escape sequence are counted as saved.
MeasureEscapeTwice == MeasureEscapeBy(2)

MeasureEscape == MeasureEscapeBy(1)

\* The text ends with a backslash, or before the closing quote.
Unclosed ==
    /\ pc = "measure"
    /\ FailIf(InText(inputEnd) =>
                  text[inputEnd] = Backslash /\ ~InText(inputEnd + 1))

\* The closing quote is found.
Closed == pc = "measure" /\ InText(inputEnd) /\ text[inputEnd] = Quote

\* allocate(allocation_length + sizeof("")), which may fail.
Allocate ==
    /\ Closed
    /\ pc' = "copy"
    /\ size' = (inputEnd - 1) - Last(skipped) + 1
    /\ UNCHANGED <<text, inputEnd, skipped, ptr, output, offset>>

NoMemory == Closed /\ FailIf(TRUE)

-----------------------------------------------------------------------------
(***************************************************************************)
(* The second pass.                                                        *)
(***************************************************************************)
\* The bytes are written at output_pointer, the next taken bytes are read.
Write(bytes, taken) ==
    /\ output' = output \o bytes
    /\ ptr' = ptr + taken
    /\ UNCHANGED <<pc, text, inputEnd, skipped, size, offset>>

Copying == pc = "copy" /\ ptr < inputEnd

CopyPlain ==
    /\ Copying
    /\ text[ptr] # Backslash
    /\ Write(<<text[ptr]>>, 1)

Escaping == Copying /\ text[ptr] = Backslash

\* The byte a two-byte escape sequence stands for.
Control == {<<Letter.b, 8>>, <<Letter.t, 9>>, <<Letter.n, 10>>,
            <<Letter.f, 12>>, <<Letter.r, 13>>,
            <<Quote, Quote>>, <<Backslash, Backslash>>, <<Slash, Slash>>}

CopyEscape ==
    /\ Escaping
    /\ \E c \in Control : c[1] = text[ptr + 1] /\ Write(<<c[2]>>, 2)

\* parse_hex4: 0 if one of the four is no digit.
HexDigits == (48..57) \cup (65..70) \cup (97..102)
HexDigit(b) == IF b >= 97 THEN b - 87 ELSE IF b >= 65 THEN b - 55 ELSE b - 48

ParseHex4(p) ==
    IF \A i \in p..p+3 : text[i] \in HexDigits
    THEN 4096 * HexDigit(text[p]) + 256 * HexDigit(text[p + 1])
            + 16 * HexDigit(text[p + 2]) + HexDigit(text[p + 3])
    ELSE 0

\* Defect: only the two bytes of \u itself are sure to be there.
WithinPrefix(p, bytes) == inputEnd - p >= 2

\* Defect: one byte more is asked for than the sequence has.
WithinMore(p, bytes) == inputEnd - p > bytes

\* Are there so many bytes from p on before the closing quote?
Within(p, bytes) == inputEnd - p >= bytes

FirstCode  == ParseHex4(ptr + 2)
SecondCode == ParseHex4(ptr + 8)
PairCode   == 65536 + 1024 * (FirstCode % 1024) + (SecondCode % 1024)
HighSurrogate(c) == 55296 <= c /\ c <= 56319
LowSurrogate(c)  == 56320 <= c /\ c <= 57343

\* The tail of utf16_literal_to_utf8.
Continuation(c) == 128 + (c % 64)
Utf8(c) ==
    IF c < 128 THEN <<c>>
    ELSE IF c < 2048 THEN <<192 + c \div 64, Continuation(c)>>
    ELSE IF c < 65536
         THEN <<224 + c \div 4096, Continuation(c \div 64), Continuation(c)>>
         ELSE <<240 + c \div 262144, Continuation(c \div 4096),
                Continuation(c \div 64), Continuation(c)>>

CopyUtf16 ==
    /\ Escaping
    /\ text[ptr + 1] = Letter.u
    /\ Within(ptr, 6)

\* A literal of one sequence.
CopyUnlessSurrogate(excluded) ==
    /\ CopyUtf16
    /\ ~excluded
    /\ Write(Utf8(FirstCode), 6)

\* Defect: a lone second half of a pair is taken.
CopyCodeAny == CopyUnlessSurrogate(HighSurrogate(FirstCode))

CopyCode ==
    CopyUnlessSurrogate(LowSurrogate(FirstCode) \/ HighSurrogate(FirstCode))

\* A surrogate pair.
SecondFollows ==
    /\ Within(ptr + 6, 6)
    /\ text[ptr + 6] = Backslash /\ text[ptr + 7] = Letter.u
    /\ LowSurrogate(SecondCode)

CopyPair ==
    /\ CopyUtf16
    /\ HighSurrogate(FirstCode)
    /\ SecondFollows
    /\ Write(Utf8(PairCode), 12)

BadEscape ==
    /\ Escaping
    /\ FailIf(IF text[ptr + 1] = Letter.u
              THEN Within(ptr, 6) => IF HighSurrogate(FirstCode)
                                     THEN ~SecondFollows
                                     ELSE LowSurrogate(FirstCode)
              ELSE \A c \in Control : c[1] # text[ptr + 1])

\* The terminator is written too.
Finish ==
    /\ pc = "copy"
    /\ ptr >= inputEnd
    /\ output' = Append(output, 0)
    /\ offset' = inputEnd + 1
    /\ pc' = "done"
    /\ UNCHANGED <<text, inputEnd, skipped, size, ptr>>

Returned == pc \in {"done", "failed"} /\ UNCHANGED vars

Next ==
    \/ NotAString \/ Begin
    \/ MeasurePlain \/ MeasureEscape \/ Unclosed \/ Allocate \/ NoMemory
    \/ CopyPlain \/ CopyEscape \/ CopyCode \/ CopyPair \/ BadEscape \/ Finish
    \/ Returned

Spec == Init /\ [][Next]_vars

-----------------------------------------------------------------------------
\* Types, and that both passes stay in the text: only the second one's last
\* step may go one byte past the closing quote.
TypeOK ==
    /\ pc \in {"start", "measure", "copy", "done", "failed"}
    /\ text \in Seq(Bytes) \ {<<>>}
    /\ inputEnd \in 2..Len(text) + 1
    /\ skipped \in Seq(Nat)
    /\ Len(skipped) = inputEnd
    /\ size \in Nat
    /\ ptr \in 2..inputEnd + 1
    /\ output \in Seq(Bytes)
    /\ offset \in Nat
    /\ pc = "copy" => inputEnd <= Len(text) /\ text[inputEnd] = Quote

\* The lead bytes of UTF-8, how many bytes follow and the range of the first.
Leads == {
    [lead |-> 0..127,             follow |-> 0, next |-> {}],
    [lead |-> 194..223,           follow |-> 1, next |-> 128..191],
    [lead |-> {224},              follow |-> 2, next |-> 160..191],
    [lead |-> 225..239 \ {237},   follow |-> 2, next |-> 128..191],
    [lead |-> {237},              follow |-> 2, next |-> 128..159],
    [lead |-> {240},              follow |-> 3, next |-> 144..191],
    [lead |-> 241..243,           follow |-> 3, next |-> 128..191],
    [lead |-> {244},              follow |-> 3, next |-> 128..143]}

WellFormedAt(bytes, p) ==
    \E l \in Leads :
        /\ bytes[p] \in l.lead
        /\ p + l.follow <= Len(bytes)
        /\ \A i \in 1..l.follow :
             bytes[p + i] \in IF i = 1 THEN l.next ELSE 128..191

\* Every byte is that of a character that is there from its lead byte on.
IsUtf8(bytes) ==
    \A p \in 1..Len(bytes) :
        IF bytes[p] \in 128..191
        THEN \E q \in p-3..p-1 :
                /\ q > 0
                /\ WellFormedAt(bytes, q)
                /\ \E l \in Leads : bytes[q] \in l.lead /\ p <= q + l.follow
        ELSE WellFormedAt(bytes, p)

Ascii == \A p \in 1..Len(text) : text[p] < 128

\* Escape sequences written in ASCII never yield bytes that are not UTF-8: no
\* half of a surrogate pair, no overlong form, no stray continuation.
YieldsUtf8 == pc = "done" /\ Ascii => IsUtf8(output)

\* Why: each step of the second pass writes whole characters.
WholeCharacters == Ascii => IsUtf8(output)

(***************************************************************************)
(* The literals of JSON (RFC 8259) to compare with.                        *)
(***************************************************************************)
\* A backslash at p begins an escape sequence if the number of backslashes in
\* front of it is even.
Escapes(t, p) ==
    \E r \in 2..p :
        /\ (p - r) % 2 = 0
        /\ \A i \in r..p : t[i] = Backslash
        /\ r > 2 => t[r - 1] # Backslash

Unit(t, p) == Escapes(t, p) /\ t[p + 1] = Letter.u

\* t up to n is a literal of JSON.
JsonLiteral(t, n) ==
    /\ t[1] = Quote /\ t[n] = Quote /\ ~Escapes(t, n - 1)
    /\ \A p \in 2..n-1 :
         /\ t[p] >= 32
         /\ t[p] = Quote => Escapes(t, p - 1)
         /\ Escapes(t, p) /\ ~Unit(t, p) =>
              t[p + 1] \in {Quote, Backslash, Slash, Letter.b, Letter.f,
                           Letter.n, Letter.r, Letter.t}
         /\ Unit(t, p) =>
              /\ p + 5 < n
              /\ \A i \in p+2..p+5 :
                   t[i] \in (48..57) \cup (65..70) \cup (97..102)

\* \uD8.. to \uDB.., and \uDC.. to \uDF..
High(t, p) == /\ Unit(t, p) /\ t[p + 2] \in {68, 100}
              /\ t[p + 3] \in {56, 57, 65, 66, 97, 98}
Low(t, p)  == /\ Unit(t, p) /\ t[p + 2] \in {68, 100}
              /\ t[p + 3] \in (67..70) \cup (99..102)

\* The halves of surrogate pairs in front of n are pairs.
Paired(t, n) ==
    \A p \in 2..n-1 : /\ High(t, p) => p + 6 < n /\ Low(t, p + 6)
                      /\ Low(t, p) => p > 7 /\ High(t, p - 6)

Judged ==
    \A n \in 2..Len(text) :
        JsonLiteral(text, n) =>
            /\ pc' = "failed" /\ ~Closed => ~Paired(text, n)
            /\ pc' = "done" => Paired(text, n)

\* A literal of JSON is refused if it holds half a surrogate pair and, unless
\* memory runs out, only then; wherever it lies in the text, and whatever is
\* behind it.
TakesJson == [][Judged]_vars

\* Why: the first pass goes from escape sequence to escape sequence up to the
\* closing quote, and so does the second, if both know the same ones.
Aligned ==
    /\ pc = "start" => inputEnd = 2
    /\ \A n \in 2..Len(text) :
         JsonLiteral(text, n) =>
           /\ pc = "measure" => inputEnd <= n /\ ~Escapes(text, inputEnd - 1)
           /\ pc = "copy" => /\ inputEnd = n /\ ptr <= n
                             /\ ~Escapes(text, ptr - 1) /\ Paired(text, ptr)

\* Whatever the text, nothing is written beyond the allocated buffer, though
\* the second pass takes escape sequences for something else than the first
\* did if a \u is not followed by four digits.
NoOverflow == pc \in {"copy", "done"} => Len(output) <= size

\* Why: an escape sequence of the first pass begins at most at every second
\* byte, so what the second pass reads at a time, however it is aligned, holds
\* enough bytes that were not counted as saved.
Saving ==
    /\ skipped[1] = 0 /\ skipped[2] = 0
    /\ skipped[inputEnd] = skipped[inputEnd - 1]
    /\ \A p, q \in 1..inputEnd : p <= q => skipped[q] - skipped[p] <= q - p
    /\ \A p \in 1..inputEnd - 2 : skipped[p + 2] <= skipped[p] + 1
    /\ \A p \in 1..inputEnd - 1 :
         skipped[p + 1] # skipped[p] => text[p] = Backslash

Room ==
    /\ pc \in {"start", "measure"} => ptr = 2 /\ output = <<>>
    /\ pc = "copy" =>
        /\ size = inputEnd - skipped[inputEnd]
        /\ IF ptr <= inputEnd
           THEN Len(output) <= ptr - 2 - skipped[ptr]
           ELSE Len(output) < size
    /\ NoOverflow

=============================================================================
