------------------------------ MODULE TreeProofs ------------------------------
(***************************************************************************)
(* The parser's tree says what the parser has read, for every text and     *)
(* every nesting limit; and a text that begins with a tree begins with one *)
(* tree only, so that the client and the server, each with its own tree of *)
(* what it has got of a configuration, take the same values from it.       *)
(***************************************************************************)
EXTENDS ParserProofs

(***************************************************************************)
(* The heap: every link leads to a live block.                             *)
(***************************************************************************)
LiveLinks(h, s) ==
    /\ h \in [DOMAIN h -> Nodes] /\ s \in [DOMAIN s -> Strings]
    /\ 0 \notin DOMAIN h /\ 0 \notin DOMAIN s
    /\ \A n \in DOMAIN h : /\ h[n].next \in DOMAIN h \cup {0}
                           /\ h[n].child \in DOMAIN h \cup {0}
                           /\ h[n].valuestring \in DOMAIN s \cup {0}
                           /\ h[n].string \in DOMAIN s \cup {0}

LEMMA LinksLive ==
    ASSUME ParserInv, pc # "fail"
    PROVE  /\ LiveLinks(nodes, strings)
           /\ fresh \notin DOMAIN nodes /\ fresh \notin DOMAIN strings
<1> DEFINE P == Ptr(root, stack, del, nodes)
<1>1. ParserTypeOK /\ del = <<>>
  BY DEF ParserInv, Placed
<1>2. WellOwned(P, DOMAIN nodes, DOMAIN strings)
  BY DEF ParserInv, Owned
<1>3. \A s \in DOMAIN P : P[s] # 0 =>
        P[s] \in IF StringSlot(s) THEN DOMAIN strings ELSE DOMAIN nodes
  BY <1>2 DEF WellOwned
<1>4. 0 \notin DOMAIN nodes /\ 0 \notin DOMAIN strings
  BY <1>2 DEF WellOwned
<1> HIDE DEF P
<1>5. ASSUME NEW n \in DOMAIN nodes
      PROVE  /\ nodes[n].next \in DOMAIN nodes \cup {0}
             /\ nodes[n].child \in DOMAIN nodes \cup {0}
             /\ nodes[n].valuestring \in DOMAIN strings \cup {0}
             /\ nodes[n].string \in DOMAIN strings \cup {0}
  <2>1. /\ <<"next", n>> \in DOMAIN P /\ P[<<"next", n>>] = nodes[n].next
        /\ ~StringSlot(<<"next", n>>)
    BY NextSlot DEF P
  <2>2. ~EnteredIn(del, n)
    BY <1>1 DEF EnteredIn
  <2>3. /\ <<"child", n>> \in DOMAIN P /\ P[<<"child", n>>] = nodes[n].child
        /\ ~StringSlot(<<"child", n>>)
    BY <2>2, KidSlot DEF P
  <2>4. /\ <<"valuestring", n>> \in DOMAIN P
        /\ P[<<"valuestring", n>>] = nodes[n].valuestring
        /\ StringSlot(<<"valuestring", n>>)
    BY ValueSlot DEF P
  <2>5. /\ <<"string", n>> \in DOMAIN P /\ P[<<"string", n>>] = nodes[n].string
        /\ StringSlot(<<"string", n>>)
    BY NameSlot DEF P
  <2> QED BY <1>3, <2>1, <2>3, <2>4, <2>5
<1>6. fresh \notin DOMAIN nodes /\ fresh \notin DOMAIN strings
  BY <1>1 DEF ParserTypeOK
<1>7. nodes \in [DOMAIN nodes -> Nodes] /\ strings \in [DOMAIN strings -> Strings]
  BY <1>1 DEF ParserTypeOK
<1> QED BY <1>4, <1>5, <1>6, <1>7 DEF LiveLinks

-----------------------------------------------------------------------------
(***************************************************************************)
(* How an item is spelt, if W says how its child and its next are.         *)
(***************************************************************************)
Words == Tokens \cup Types

Name(h, s, n) == IF h[n].string = 0 THEN <<>> ELSE <<s[h[n].string], ":">>

Value(h, s, W, n) ==
    IF h[n].type = "String" /\ h[n].valuestring # 0
    THEN <<s[h[n].valuestring]>>
    ELSE IF h[n].type \in {"Object", "Array"}
    THEN <<Opener(h[n].type = "Object")>>
           \o (IF h[n].child = 0 THEN <<>> ELSE W[h[n].child])
           \o <<Closer(h[n].type = "Object")>>
    ELSE <<h[n].type>>

Rest(h, W, n) == IF h[n].next = 0 THEN <<>> ELSE <<",">> \o W[h[n].next]

Whole(h, s, W, n) == Name(h, s, n) \o Value(h, s, W, n)

Spelling(h) == [DOMAIN h -> Seq(Words)]

LEMMA WordKinds ==
    /\ Strings \subseteq Words /\ Types \subseteq Words /\ Tokens \subseteq Words
    /\ {":", ",", "{", "}", "[", "]"} \subseteq Words
    /\ \A o : Opener(o) \in Words /\ Closer(o) \in Words
BY DEF Words, Tokens, Types, Opener, Closer, Brackets

LEMMA FewWords ==
    ASSUME NEW V, NEW x \in V, NEW y \in V
    PROVE  <<x>> \in Seq(V) /\ <<x, y>> \in Seq(V)
OBVIOUS

LEMMA NoWords == ASSUME NEW V PROVE <<>> \in Seq(V)
OBVIOUS

LEMMA Joined ==
    ASSUME NEW V, NEW a \in Seq(V), NEW b \in Seq(V)
    PROVE  a \o b \in Seq(V)
OBVIOUS

LEMMA SpeltInWords ==
    ASSUME NEW h, NEW s, LiveLinks(h, s), NEW W \in Spelling(h), NEW n \in DOMAIN h
    PROVE  /\ Name(h, s, n) \in Seq(Words)
           /\ Value(h, s, W, n) \in Seq(Words)
           /\ Rest(h, W, n) \in Seq(Words)
           /\ Whole(h, s, W, n) \in Seq(Words)
<1>1. h[n] \in Nodes
  BY DEF LiveLinks
<1>2. h[n].type \in Types
  BY <1>1 DEF Nodes
<1>3. h[n].string # 0 => s[h[n].string] \in Words
  BY WordKinds DEF LiveLinks
<1>4. h[n].valuestring # 0 => s[h[n].valuestring] \in Words
  BY WordKinds DEF LiveLinks
<1>5. h[n].child # 0 => W[h[n].child] \in Seq(Words)
  BY DEF LiveLinks, Spelling
<1>6. h[n].next # 0 => W[h[n].next] \in Seq(Words)
  BY DEF LiveLinks, Spelling
<1>7. Name(h, s, n) \in Seq(Words)
  <2>1. ":" \in Words
    BY WordKinds
  <2>2. h[n].string # 0 => <<s[h[n].string], ":">> \in Seq(Words)
    BY <1>3, <2>1, FewWords
  <2> QED BY <2>2, NoWords DEF Name
<1>8. Value(h, s, W, n) \in Seq(Words)
  <2> DEFINE op == Opener(h[n].type = "Object")
             cl == Closer(h[n].type = "Object")
             in == IF h[n].child = 0 THEN <<>> ELSE W[h[n].child]
  <2>0. op \in Words /\ cl \in Words
    BY WordKinds
  <2>1. <<op>> \in Seq(Words) /\ <<cl>> \in Seq(Words) /\ in \in Seq(Words)
    <3> HIDE DEF op, cl
    <3> QED BY <1>5, <2>0, FewWords, NoWords
  <2>2. <<op>> \o in \o <<cl>> \in Seq(Words)
    <3> HIDE DEF op, cl, in
    <3> QED BY <2>1
  <2>3. <<h[n].type>> \in Seq(Words)
    BY <1>2, WordKinds, FewWords
  <2>4. h[n].valuestring # 0 => <<s[h[n].valuestring]>> \in Seq(Words)
    BY <1>4, FewWords
  <2> QED BY <2>2, <2>3, <2>4 DEF Value
<1>9. Rest(h, W, n) \in Seq(Words)
  <2>1. <<",">> \in Seq(Words)
    BY WordKinds, FewWords
  <2>2. h[n].next # 0 => <<",">> \o W[h[n].next] \in Seq(Words)
    BY <1>6, <2>1, Joined
  <2> QED BY <2>2, NoWords DEF Rest
<1> QED BY <1>7, <1>8, <1>9 DEF Whole

(***************************************************************************)
(* What the tree says while it is built.  S marks each item that belongs   *)
(* to an unfinished list with the frame that holds the list, the root with *)
(* 0, and what is complete with -1.  W spells an item and those behind it, *)
(* up to the one that is being read.                                       *)
(***************************************************************************)
Marked(S) ==
    /\ S \in [DOMAIN nodes -> Int]
    /\ \A n \in DOMAIN nodes :
         /\ S[n] >= -1 /\ S[n] <= Depth
         /\ nodes[n].next # 0 => S[nodes[n].next] = S[n]
         /\ nodes[n].child # 0 => S[nodes[n].child] = -1
         /\ S[n] # -1 => n = Chain(S[n]) \/ nodes[n].next # 0
    /\ \A i \in 0..Depth : Chain(i) # 0 => S[Chain(i)] = i
    /\ \A i \in 1..Depth : stack[i].head # 0 => S[stack[i].head] = i

\* A list is linked both ways, and when it is complete, the prev of its head
\* is its end.
Doubly(S) ==
    /\ \A n \in DOMAIN nodes :
         /\ nodes[n].next # 0 => nodes[nodes[n].next].prev = n
         /\ nodes[n].child # 0 =>
              /\ nodes[nodes[n].child].prev \in DOMAIN nodes
              /\ S[nodes[nodes[n].child].prev] = -1
              /\ nodes[nodes[nodes[n].child].prev].next = 0
    /\ \A i \in 1..Depth : stack[i].head # 0 => nodes[stack[i].head].prev = 0

Ends(S, n) == S[n] # -1 /\ n = Chain(S[n])

Spelt(S, W) ==
    /\ W \in Spelling(nodes)
    /\ \A n \in DOMAIN nodes :
         W[n] = IF Ends(S, n) THEN <<>>
                ELSE Whole(nodes, strings, W, n) \o Rest(nodes, W, n)

\* What is read of the array or the object of frame i, up to the value that
\* is read next.
Begun(W, i) ==
    <<Opener(stack[i].object)>>
      \o (IF stack[i].head = 0 THEN <<>>
          ELSE W[stack[i].head] \o Name(nodes, strings, Chain(i)))

\* B[i] is what is read up to there, the frames around frame i included.
Beginnings(W, B) ==
    /\ B \in [0..Depth -> Seq(Words)]
    /\ B[0] = <<>>
    /\ \A i \in 1..Depth : B[i] = B[i - 1] \o Begun(W, i)

LastValue(W) == Value(nodes, strings, W, Chain(Depth))

ReadSoFar(W, B) ==
    /\ pos >= AfterBom
    /\ pc \in {"value", "name"} => Significant[pos - 1] = B[Depth]
    /\ pc = "colon" => Significant[pos - 1] \o <<":">> = B[Depth]
    /\ pc \in {"after", "done"} => Significant[pos - 1] = B[Depth] \o LastValue(W)
    /\ pc = "element" =>
         Significant[pos] = IF Top.head = 0 THEN B[Depth]
                            ELSE (B[Depth] \o LastValue(W)) \o <<",">>

TreeSays(S, W, B) ==
    /\ nodes[root].string = 0
    /\ Marked(S) /\ Doubly(S)
    /\ Spelt(S, W)
    /\ Beginnings(W, B)
    /\ ReadSoFar(W, B)

Telling == Reading \/ (pc = "done" /\ root # 0)

TreeInv == Telling => \E S, W, B : TreeSays(S, W, B)

LEMMA QuietTree ==
    ASSUME NEW S, NEW W, NEW B, TreeSays(S, W, B),
           UNCHANGED <<nodes, strings, stack, root, text>>, ReadSoFar(W, B)'
    PROVE  TreeSays(S, W, B)'
<1>1. (\A i : Chain(i)' = Chain(i)) /\ Depth' = Depth
  BY DEF Chain, Depth
<1>2. Marked(S)'
  BY <1>1 DEF TreeSays, Marked
<1>3. Doubly(S)'
  BY <1>1 DEF TreeSays, Doubly
<1>4. Spelt(S, W)'
  <2>1. \A n : Ends(S, n)' = Ends(S, n)
    BY <1>1 DEF Ends
  <2> QED BY <2>1 DEF TreeSays, Spelt
<1>5. Beginnings(W, B)'
  <2>1. \A i : Begun(W, i)' = Begun(W, i)
    BY <1>1 DEF Begun
  <2> QED BY <1>1, <2>1 DEF TreeSays, Beginnings
<1> QED BY <1>2, <1>3, <1>4, <1>5 DEF TreeSays

LEMMA TreeTypes ==
    ASSUME ParserInv, NEW S, NEW W, NEW B, TreeSays(S, W, B), Telling
    PROVE  /\ Depth \in Nat /\ Depth \in 0..Depth
           /\ Chain(Depth) \in DOMAIN nodes \/ (pc = "element" /\ Chain(Depth) = 0)
           /\ LiveLinks(nodes, strings) /\ W \in Spelling(nodes)
           /\ B[Depth] \in Seq(Words)
           /\ Chain(Depth) \in DOMAIN nodes => LastValue(W) \in Seq(Words)
<1>1. Depth \in Nat /\ Depth \in 0..Depth
  BY DEF ParserInv, ParserTypeOK, Depth
<1>2. pc # "fail"
  BY DEF Telling, Reading
<1>3. LiveLinks(nodes, strings) /\ W \in Spelling(nodes)
  BY <1>2, LinksLive DEF TreeSays, Spelt
<1>4. B[Depth] \in Seq(Words)
  BY <1>1 DEF TreeSays, Beginnings
<1>5. Chain(Depth) \in DOMAIN nodes \/ (pc = "element" /\ Chain(Depth) = 0)
  <2>1. CASE Reading
    BY <2>1, <1>1 DEF ParserInv, ChainInv, Current
  <2>2. CASE pc = "done" /\ root # 0
    <3>1. Depth = 0 /\ Chain(Depth) = root /\ stack = <<>> /\ del = <<>>
      BY <2>2 DEF ParserInv, Placed, Depth, Chain
    <3> DEFINE P == Ptr(root, stack, del, nodes)
               s == <<"root", 0>>
    <3>2. s \in DOMAIN P /\ P[s] = root /\ ~StringSlot(s)
      BY RootSlot
    <3>3. WellOwned(P, DOMAIN nodes, DOMAIN strings)
      BY DEF ParserInv, Owned
    <3>4. root \in DOMAIN nodes
      <4> HIDE DEF P, s
      <4> QED BY <2>2, <3>2, <3>3 DEF WellOwned
    <3> QED BY <3>1, <3>4
  <2> QED BY <2>1, <2>2 DEF Telling
<1>6. Chain(Depth) \in DOMAIN nodes => LastValue(W) \in Seq(Words)
  BY <1>3, SpeltInWords DEF LastValue
<1> QED BY <1>1, <1>3, <1>4, <1>5, <1>6

\* pos moves over one token and what is blank behind it.
LEMMA PassToken ==
    ASSUME ParserInv, SkipPast(pos), text' = text, pos >= AfterBom,
           pos <= Len(text), text[pos] \notin Blanks
    PROVE  /\ Significant[pos' - 1] = Significant[pos - 1] \o <<text[pos]>>
           /\ pos' >= AfterBom /\ pos' \in Nat
<1>1. /\ ParserTypeOK /\ pos \in Nat /\ AfterBom \in Nat /\ Len(text) \in Nat
  BY TextEnds DEF ParserInv, AfterBom
<1>2. SkipsTo(pos + 1, pos')
  BY DEF SkipPast
<1>3. /\ pos' \in Nat /\ pos + 1 <= pos'
      /\ Significant[pos' - 1] = Significant[(pos + 1) - 1]
  BY <1>1, <1>2, SkippedOver
<1>4. Significant[pos] = Significant[pos - 1] \o <<text[pos]>>
  BY <1>1, OneMore
<1> QED BY <1>1, <1>3, <1>4

LEMMA ReadColonTree == ParserInv /\ TreeInv /\ ReadColon => TreeInv'
<1> SUFFICES ASSUME ParserInv, TreeInv, ReadColon
             PROVE  TreeInv'
  OBVIOUS
<1>1. PICK S, W, B : TreeSays(S, W, B)
  BY DEF TreeInv, Telling, Reading, ReadColon
<1>2. /\ UNCHANGED <<nodes, strings, stack, root, text>>
      /\ pc = "colon" /\ pc' = "value" /\ pos <= Len(text) /\ text[pos] = ":"
      /\ SkipPast(pos)
  BY DEF ReadColon, Unchanged, At, CanAccess
<1>3. pos >= AfterBom /\ Significant[pos - 1] \o <<":">> = B[Depth]
  BY <1>1, <1>2 DEF TreeSays, ReadSoFar
<1>4. text[pos] \notin Blanks
  BY <1>2, NotBlank
<1>5. Significant[pos' - 1] = B[Depth] /\ pos' >= AfterBom
  BY <1>2, <1>3, <1>4, PassToken
<1>6. ReadSoFar(W, B)'
  <2>1. Depth' = Depth /\ Significant' = Significant /\ AfterBom' = AfterBom
    BY <1>2, SameReading DEF Depth
  <2> QED BY <1>2, <1>5, <2>1 DEF ReadSoFar
<1>7. TreeSays(S, W, B)'
  BY <1>1, <1>2, <1>6, QuietTree
<1> QED BY <1>7 DEF TreeInv

LEMMA CommaTree == ParserInv /\ TreeInv /\ Comma => TreeInv'
<1> SUFFICES ASSUME ParserInv, TreeInv, Comma
             PROVE  TreeInv'
  OBVIOUS
<1>1. PICK q \in pos..Len(text) :
        /\ Behind(q)
        /\ text[q] = ","
        /\ pos' = q
        /\ pc' = "element"
        /\ UNCHANGED <<root, stack, nodes, strings, fresh>> /\ Unchanged
  BY DEF Comma
<1>2. /\ UNCHANGED <<nodes, strings, stack, root, text>>
      /\ pc = "after" /\ Depth > 0 /\ SkipsTo(pos, q)
  BY <1>1 DEF Behind, Unchanged
<1>3. PICK S, W, B : TreeSays(S, W, B)
  BY <1>2 DEF TreeInv, Telling, Reading
<1>4. /\ ParserTypeOK /\ pos \in Nat /\ AfterBom \in Nat /\ Len(text) \in Nat
      /\ pos <= Len(text) + 1
  BY TextEnds DEF ParserInv, AfterBom
<1>5. pos >= AfterBom /\ Significant[pos - 1] = B[Depth] \o LastValue(W)
  BY <1>2, <1>3 DEF TreeSays, ReadSoFar
<1>6. /\ q \in Nat /\ pos <= q /\ q <= Len(text)
      /\ Significant[q - 1] = Significant[pos - 1]
  <2>1. q \in Nat /\ pos <= q /\ q <= Len(text)
    BY <1>4
  <2>2. Significant[q - 1] = Significant[pos - 1]
    BY <1>2, <1>4, <1>5, SkippedOver
  <2> QED BY <2>1, <2>2
<1>7. Significant[q] = (B[Depth] \o LastValue(W)) \o <<",">>
  <2>1. text[q] \notin Blanks
    BY <1>1, NotBlank
  <2>2. q >= AfterBom
    BY <1>4, <1>5, <1>6
  <2>3. Significant[q] = Significant[q - 1] \o <<text[q]>>
    BY <1>4, <1>6, <2>1, <2>2, OneMore
  <2> QED BY <1>1, <1>5, <1>6, <2>3
<1>8. Top.head # 0
  <2>1. Chain(Depth) # 0 /\ ChainInv
    BY <1>2 DEF ParserInv, Reading, Current
  <2>2. Depth \in 1..Depth
    BY <1>2 DEF ParserInv, ParserTypeOK, Depth
  <2> QED BY <2>1, <2>2 DEF ChainInv, Top
<1>9. ReadSoFar(W, B)'
  <2>1. /\ Depth' = Depth /\ Significant' = Significant /\ AfterBom' = AfterBom
        /\ LastValue(W)' = LastValue(W) /\ Top' = Top
    BY <1>2, SameReading DEF Depth, LastValue, Chain, Top
  <2>2. q >= AfterBom
    BY <1>4, <1>5, <1>6
  <2>3. pos' = q /\ pc' = "element"
    BY <1>1
  <2>4. Significant'[pos'] = IF Top'.head = 0 THEN B[Depth']
                              ELSE (B[Depth'] \o LastValue(W)') \o <<",">>
    BY <1>7, <1>8, <2>1, <2>3
  <2> QED BY <2>1, <2>2, <2>3, <2>4 DEF ReadSoFar
<1>10. TreeSays(S, W, B)'
  BY <1>2, <1>3, <1>9, QuietTree
<1> QED BY <1>10 DEF TreeInv

LEMMA FinishTree == ParserInv /\ TreeInv /\ Finish => TreeInv'
<1> SUFFICES ASSUME ParserInv, TreeInv, Finish
             PROVE  TreeInv'
  OBVIOUS
<1>1. /\ UNCHANGED <<nodes, strings, stack, root, text, pos>>
      /\ pc = "after" /\ pc' = "done"
  BY DEF Finish, Unchanged
<1>2. PICK S, W, B : TreeSays(S, W, B)
  BY <1>1 DEF TreeInv, Telling, Reading
<1>3. ReadSoFar(W, B)'
  <2>1. /\ Depth' = Depth /\ Significant' = Significant /\ AfterBom' = AfterBom
        /\ LastValue(W)' = LastValue(W)
    BY <1>1, SameReading DEF Depth, LastValue, Chain, Top
  <2> QED BY <1>1, <1>2, <2>1 DEF TreeSays, ReadSoFar
<1>4. TreeSays(S, W, B)'
  BY <1>1, <1>2, <1>3, QuietTree
<1> QED BY <1>4 DEF TreeInv

(***************************************************************************)
(* The steps that fill in an item change no list.                          *)
(***************************************************************************)
Filled(c) ==
    /\ UNCHANGED <<stack, root, text>>
    /\ DOMAIN nodes' = DOMAIN nodes
    /\ \A n \in DOMAIN nodes \ {c} : nodes'[n] = nodes[n]
    /\ nodes'[c].next = nodes[c].next
    /\ nodes'[c].prev = nodes[c].prev
    /\ nodes'[c].child = nodes[c].child
    /\ DOMAIN strings \subseteq DOMAIN strings'
    /\ \A a \in DOMAIN strings : strings'[a] = strings[a]

LEMMA HeadLive ==
    ASSUME ParserInv, NEW i \in 1..Depth, stack[i].head # 0
    PROVE  stack[i].head \in DOMAIN nodes
<1> DEFINE P == Ptr(root, stack, del, nodes)
           s == <<"head", i>>
<1>1. i \in DOMAIN stack
  BY DEF Depth, ParserInv, ParserTypeOK
<1>2. s \in DOMAIN P /\ P[s] = stack[i].head /\ ~StringSlot(s)
  BY <1>1, HeadSlot
<1>3. WellOwned(P, DOMAIN nodes, DOMAIN strings)
  BY DEF ParserInv, Owned
<1> HIDE DEF P, s
<1> QED BY <1>2, <1>3 DEF WellOwned

LEMMA FillTree ==
    ASSUME ParserInv, Reading, NEW S, NEW W, NEW B, TreeSays(S, W, B),
           Chain(Depth) \in DOMAIN nodes, Filled(Chain(Depth))
    PROVE  /\ Marked(S)' /\ Doubly(S)' /\ Spelt(S, W)'
           /\ \A i : Chain(i)' = Chain(i)
           /\ Depth' = Depth
           /\ \A n \in DOMAIN nodes \ {Chain(Depth)} :
                Name(nodes, strings, n)' = Name(nodes, strings, n)
           /\ \A i \in 1..Depth : i # Depth => Begun(W, i)' = Begun(W, i)
<1> DEFINE c == Chain(Depth)
<1>1. (\A i : Chain(i)' = Chain(i)) /\ Depth' = Depth
  BY DEF Filled, Chain, Depth
<1>2. \A n \in DOMAIN nodes : /\ nodes'[n].next = nodes[n].next
                              /\ nodes'[n].prev = nodes[n].prev
                              /\ nodes'[n].child = nodes[n].child
  BY DEF Filled
<1>3. /\ LiveLinks(nodes, strings) /\ Depth \in Nat /\ Depth \in 0..Depth
      /\ W \in Spelling(nodes)
  BY TreeTypes DEF Telling
<1>4. DOMAIN nodes' = DOMAIN nodes
  BY DEF Filled
<1>5. Marked(S)'
  BY <1>1, <1>2, <1>4 DEF TreeSays, Marked, Filled
<1>6. Doubly(S)'
  <2>1. ASSUME NEW n \in DOMAIN nodes
        PROVE  /\ nodes'[n].next # 0 => nodes'[nodes'[n].next].prev = n
               /\ nodes'[n].child # 0 =>
                    /\ nodes'[nodes'[n].child].prev \in DOMAIN nodes'
                    /\ S[nodes'[nodes'[n].child].prev] = -1
                    /\ nodes'[nodes'[nodes'[n].child].prev].next = 0
    <3>1. /\ nodes[n].next # 0 => nodes[n].next \in DOMAIN nodes
          /\ nodes[n].child # 0 => nodes[n].child \in DOMAIN nodes
      BY <1>3 DEF LiveLinks
    <3>2. /\ nodes[n].next # 0 => nodes[nodes[n].next].prev = n
          /\ nodes[n].child # 0 =>
              /\ nodes[nodes[n].child].prev \in DOMAIN nodes
              /\ S[nodes[nodes[n].child].prev] = -1
              /\ nodes[nodes[nodes[n].child].prev].next = 0
      BY DEF TreeSays, Doubly
    <3> QED BY <1>2, <1>4, <3>1, <3>2
  <2>2. ASSUME NEW i \in 1..Depth, stack[i].head # 0
        PROVE  nodes'[stack[i].head].prev = 0
    <3>1. nodes[stack[i].head].prev = 0
      BY <2>2 DEF TreeSays, Doubly
    <3>2. stack[i].head \in DOMAIN nodes
      BY <2>2, HeadLive
    <3> QED BY <1>2, <3>1, <3>2
  <2> QED BY <1>1, <2>1, <2>2, <1>4 DEF Doubly, Filled
<1>7. \A n \in DOMAIN nodes \ {c} : Name(nodes, strings, n)' = Name(nodes, strings, n)
  <2> SUFFICES ASSUME NEW n \in DOMAIN nodes \ {c}
               PROVE  Name(nodes', strings', n) = Name(nodes, strings, n)
    OBVIOUS
  <2>1. nodes'[n] = nodes[n]
    BY DEF Filled
  <2>2. nodes[n].string # 0 => strings'[nodes[n].string] = strings[nodes[n].string]
    BY <1>3 DEF LiveLinks, Filled
  <2> QED BY <2>1, <2>2 DEF Name
<1>8. \A n \in DOMAIN nodes \ {c} :
        Value(nodes', strings', W, n) = Value(nodes, strings, W, n)
  <2> SUFFICES ASSUME NEW n \in DOMAIN nodes \ {c}
               PROVE  Value(nodes', strings', W, n) = Value(nodes, strings, W, n)
    OBVIOUS
  <2>1. nodes'[n] = nodes[n]
    BY DEF Filled
  <2>2. nodes[n].valuestring # 0 =>
          strings'[nodes[n].valuestring] = strings[nodes[n].valuestring]
    BY <1>3 DEF LiveLinks, Filled
  <2> QED BY <2>1, <2>2 DEF Value
<1>9. Spelt(S, W)'
  <2>1. \A n : Ends(S, n)' = Ends(S, n)
    BY <1>1 DEF Ends
  <2>2. Ends(S, c)
    <3>1. c # 0
      BY <1>3 DEF LiveLinks
    <3>2. S[c] = Depth
      BY <1>3, <3>1 DEF TreeSays, Marked
    <3> QED BY <1>3, <3>2 DEF Ends
  <2>3. ASSUME NEW n \in DOMAIN nodes
        PROVE  W[n] = IF Ends(S, n) THEN <<>>
                      ELSE Whole(nodes', strings', W, n) \o Rest(nodes', W, n)
    <3>1. CASE n = c
      BY <2>2, <3>1 DEF TreeSays, Spelt
    <3>2. CASE n # c
      <4>1. Whole(nodes', strings', W, n) = Whole(nodes, strings, W, n)
        BY <1>7, <1>8, <3>2 DEF Whole
      <4>2. Rest(nodes', W, n) = Rest(nodes, W, n)
        BY <1>2 DEF Rest
      <4> QED BY <4>1, <4>2 DEF TreeSays, Spelt
    <3> QED BY <3>1, <3>2
  <2>4. W \in Spelling(nodes')
    BY <1>3, <1>4 DEF Spelling
  <2> QED BY <1>4, <2>1, <2>3, <2>4 DEF Spelt
<1>10. \A i \in 1..Depth : i # Depth => Begun(W, i)' = Begun(W, i)
  <2> SUFFICES ASSUME NEW i \in 1..Depth, i # Depth
               PROVE  Begun(W, i)' = Begun(W, i)
    OBVIOUS
  <2>1. i \in 0..Depth-1 /\ i \in 0..Depth /\ i < Depth
    BY <1>3
  <2>2. ChainInv
    BY DEF ParserInv
  <2>3. Chain(i) # 0 /\ Chain(i) \in DOMAIN nodes
    BY <2>1, <2>2 DEF ChainInv
  <2>4. Chain(i) # c
    <3>1. c # 0
      BY <1>3 DEF LiveLinks
    <3>2. Chain(i) < c
      BY <1>3, <2>1, <2>2, <3>1 DEF ChainInv
    <3>3. Chain(i) \in Nat
      BY <2>3 DEF ParserInv, ParserTypeOK
    <3> QED BY <3>2, <3>3
  <2>5. Name(nodes, strings, Chain(i))' = Name(nodes, strings, Chain(i))
    <3>1. Chain(i) \in DOMAIN nodes \ {c}
      BY <2>3, <2>4
    <3>2. Name(nodes', strings', Chain(i)) = Name(nodes, strings, Chain(i))
      BY <3>1, <1>7
    <3> QED BY <1>1, <3>2
  <2> QED BY <2>5 DEF Begun, Filled
<1> HIDE DEF c
<1> QED BY <1>1, <1>5, <1>6, <1>7, <1>9, <1>10 DEF c

LEMMA ValueTree ==
    ASSUME ParserInv, pc = "value", NEW S, NEW W, NEW B, TreeSays(S, W, B),
           Filled(Chain(Depth)), pc' = "after", pos' - 1 >= AfterBom, pos' \in Nat,
           nodes'[Chain(Depth)].string = nodes[Chain(Depth)].string,
           Significant[pos' - 1]
             = B[Depth] \o Value(nodes', strings', W, Chain(Depth))
    PROVE  TreeSays(S, W, B)'
<1> DEFINE c == Chain(Depth)
<1>1. /\ c \in DOMAIN nodes /\ Depth \in Nat /\ Depth \in 0..Depth
      /\ LiveLinks(nodes, strings)
  BY TreeTypes DEF Telling, Reading
<1>2. /\ Marked(S)' /\ Doubly(S)' /\ Spelt(S, W)' /\ Depth' = Depth
      /\ \A i : Chain(i)' = Chain(i)
      /\ \A i \in 1..Depth : i # Depth => Begun(W, i)' = Begun(W, i)
  BY <1>1, FillTree DEF Reading
<1>3. Name(nodes', strings', c) = Name(nodes, strings, c)
  <2>1. nodes[c].string # 0 => strings'[nodes[c].string] = strings[nodes[c].string]
    BY <1>1 DEF LiveLinks, Filled
  <2> QED BY <2>1 DEF Name
<1>4. \A i \in 1..Depth : Begun(W, i)' = Begun(W, i)
  <2>1. ASSUME NEW i \in 1..Depth, i = Depth
        PROVE  Begun(W, i)' = Begun(W, i)
    BY <1>2, <1>3, <2>1 DEF Begun, Filled
  <2> QED BY <1>2, <2>1
<1>5. Beginnings(W, B)'
  BY <1>2, <1>4 DEF TreeSays, Beginnings
<1>6. nodes'[root].string = 0 /\ root' = root
  <2>1. nodes[root].string = 0
    BY DEF TreeSays
  <2>2. root \in DOMAIN nodes
    <3>1. 0 \in 0..Depth /\ Chain(0) = root
      BY <1>1 DEF Chain
    <3>2. CASE Depth = 0
      BY <1>1, <3>1, <3>2
    <3>3. CASE Depth # 0
      <4>1. 0 \in 0..Depth-1 /\ ChainInv
        BY <1>1, <3>3 DEF ParserInv, Reading
      <4>2. Chain(0) # 0
        BY <4>1 DEF ChainInv
      <4> QED BY <3>1, <4>1, <4>2 DEF ChainInv
    <3> QED BY <3>2, <3>3
  <2> QED BY <2>1, <2>2 DEF Filled
<1>7. ReadSoFar(W, B)'
  <2>1. Significant' = Significant /\ AfterBom' = AfterBom
    BY SameReading DEF Filled
  <2>2. LastValue(W)' = Value(nodes', strings', W, c)
    BY <1>2 DEF LastValue
  <2>3. AfterBom \in Nat
    BY TextEnds DEF AfterBom
  <2>4. pos' >= AfterBom'
    <3>1. pos' >= AfterBom
      BY <2>3
    <3> QED BY <2>1, <3>1
  <2>5. Significant'[pos' - 1] = B[Depth'] \o LastValue(W)'
    BY <1>2, <2>1, <2>2
  <2> QED BY <2>4, <2>5 DEF ReadSoFar
<1> QED BY <1>2, <1>5, <1>6, <1>7 DEF TreeSays

\* The token at pos is read.
LEMMA ReadOne ==
    ASSUME ParserInv, pos >= AfterBom, pos <= Len(text), text[pos] \notin Blanks
    PROVE  /\ pos \in Nat /\ pos + 1 \in Nat /\ (pos + 1) - 1 = pos
           /\ Significant[pos] = Significant[pos - 1] \o <<text[pos]>>
<1>1. ParserTypeOK /\ pos \in Nat
  BY TextEnds DEF ParserInv
<1> QED BY <1>1, OneMore

LEMMA ReadPlainTree == ParserInv /\ TreeInv /\ ReadPlain => TreeInv'
<1> SUFFICES ASSUME ParserInv, TreeInv, ReadPlain
             PROVE  TreeInv'
  OBVIOUS
<1>0. /\ pc = "value" /\ pos <= Len(text) /\ text[pos] \in Plain
      /\ nodes' = [nodes EXCEPT ![Item].type = text[pos]]
      /\ pos' = pos + 1 /\ pc' = "after"
      /\ UNCHANGED <<root, stack, strings, text>>
  BY DEF ReadPlain, At, CanAccess, Unchanged
<1>1. PICK S, W, B : TreeSays(S, W, B)
  BY <1>0 DEF TreeInv, Telling, Reading
<1>2. /\ Item \in DOMAIN nodes /\ nodes[Item] \in Nodes /\ Item = Chain(Depth)
      /\ nodes \in [DOMAIN nodes -> Nodes]
  BY <1>0, CurrentItem, ItemIsLast DEF ParserInv, ParserTypeOK
<1>3. Filled(Item) /\ nodes'[Item].string = nodes[Item].string
      /\ nodes'[Item].type = text[pos]
  BY <1>0, <1>2 DEF Filled, Nodes
<1>4. Significant[pos - 1] = B[Depth] /\ pos >= AfterBom
  BY <1>0, <1>1 DEF TreeSays, ReadSoFar
<1>5. Value(nodes', strings', W, Item) = <<text[pos]>>
  <2>1. text[pos] \notin {"String", "Object", "Array"}
    BY <1>0, ParserAssumption DEF Plain
  <2> QED BY <1>3, <2>1 DEF Value
<1>6. text[pos] \notin Blanks
  BY <1>0, NotBlank
<1>7. TreeSays(S, W, B)'
  <2>1. /\ pos' \in Nat /\ pos' - 1 = pos
        /\ Significant[pos' - 1] = B[Depth] \o <<text[pos]>>
    BY <1>0, <1>4, <1>6, ReadOne
  <2> QED BY <1>0, <1>1, <1>2, <1>3, <1>4, <1>5, <2>1, ValueTree
<1> QED BY <1>7 DEF TreeInv

LEMMA ReadStringTree == ParserInv /\ TreeInv /\ ReadString => TreeInv'
<1> SUFFICES ASSUME ParserInv, TreeInv, ReadString
             PROVE  TreeInv'
  OBVIOUS
<1>0. /\ pc = "value" /\ pos <= Len(text) /\ text[pos] \in Strings
      /\ nodes' = [nodes EXCEPT ![Item].type = "String",
                                ![Item].valuestring = fresh]
      /\ strings' = Alloc(strings, text[pos])
      /\ pos' = pos + 1 /\ pc' = "after"
      /\ UNCHANGED <<root, stack, text>>
  BY DEF ReadString, At, CanAccess, Unchanged
<1>1. PICK S, W, B : TreeSays(S, W, B)
  BY <1>0 DEF TreeInv, Telling, Reading
<1>2. /\ Item \in DOMAIN nodes /\ nodes[Item] \in Nodes /\ Item = Chain(Depth)
      /\ nodes \in [DOMAIN nodes -> Nodes]
      /\ fresh \notin DOMAIN strings /\ fresh # 0
  BY <1>0, CurrentItem, ItemIsLast DEF ParserInv, ParserTypeOK
<1>3. /\ \A a \in DOMAIN strings : strings'[a] = strings[a]
      /\ DOMAIN strings \subseteq DOMAIN strings'
      /\ strings'[fresh] = text[pos]
  BY <1>0, <1>2 DEF Alloc
<1>4. /\ Filled(Item) /\ nodes'[Item].string = nodes[Item].string
      /\ nodes'[Item].type = "String" /\ nodes'[Item].valuestring = fresh
  <2>1. /\ nodes'[Item].string = nodes[Item].string
        /\ nodes'[Item].type = "String" /\ nodes'[Item].valuestring = fresh
        /\ nodes'[Item].next = nodes[Item].next
        /\ nodes'[Item].prev = nodes[Item].prev
        /\ nodes'[Item].child = nodes[Item].child
        /\ DOMAIN nodes' = DOMAIN nodes
        /\ \A n \in DOMAIN nodes \ {Item} : nodes'[n] = nodes[n]
    BY <1>0, <1>2 DEF Nodes
  <2> QED BY <1>0, <1>3, <2>1 DEF Filled
<1>5. Significant[pos - 1] = B[Depth] /\ pos >= AfterBom
  BY <1>0, <1>1 DEF TreeSays, ReadSoFar
<1>6. Value(nodes', strings', W, Item) = <<text[pos]>>
  BY <1>2, <1>3, <1>4 DEF Value
<1>7. text[pos] \notin Blanks
  BY <1>0, NotBlank DEF Literals
<1>8. TreeSays(S, W, B)'
  <2>1. /\ pos' \in Nat /\ pos' - 1 = pos
        /\ Significant[pos' - 1] = B[Depth] \o <<text[pos]>>
    BY <1>0, <1>5, <1>7, ReadOne
  <2> QED BY <1>0, <1>1, <1>2, <1>4, <1>5, <1>6, <2>1, ValueTree
<1> QED BY <1>8 DEF TreeInv

\* An opening bracket and the blanks behind it.
LEMMA PassOpener ==
    ASSUME ParserInv, NEW object \in BOOLEAN, Opening(object),
           NEW q \in pos+1..Len(text), SkipsTo(pos + 1, q), pos >= AfterBom
    PROVE  /\ pc = "value" /\ q \in Nat /\ q - 1 \in Nat /\ q - 1 >= AfterBom
           /\ q <= Len(text)
           /\ Significant[q - 1] = Significant[pos - 1] \o <<Opener(object)>>
<1>1. pc = "value" /\ pos <= Len(text) /\ text[pos] = Opener(object)
  BY DEF Opening, Bracket, At, CanAccess
<1>2. ParserTypeOK /\ pos \in Nat /\ Len(text) \in Nat /\ AfterBom \in Nat
  BY TextEnds DEF ParserInv, AfterBom
<1>3. q \in Nat /\ pos + 1 <= q /\ q <= Len(text) /\ q - 1 \in Nat /\ q - 1 >= AfterBom
  BY <1>2
<1>4. text[pos] \notin Blanks
  BY <1>1, NotBlank DEF Opener
<1>5. Significant[q - 1] = Significant[(pos + 1) - 1]
  <2>1. AfterBom <= pos + 1 /\ pos + 1 <= Len(text) + 1 /\ pos + 1 \in Nat
    BY <1>1, <1>2
  <2> QED BY <1>2, <2>1, SkippedOver
<1>6. /\ Significant[pos] = Significant[pos - 1] \o <<text[pos]>>
      /\ (pos + 1) - 1 = pos
  BY <1>1, <1>4, ReadOne
<1> QED BY <1>1, <1>3, <1>5, <1>6

LEMMA OpenEmptyTree == ParserInv /\ TreeInv /\ OpenEmpty => TreeInv'
<1> SUFFICES ASSUME ParserInv, TreeInv, OpenEmpty
             PROVE  TreeInv'
  OBVIOUS
<1>0. PICK object \in BOOLEAN, q \in pos+1..Len(text) :
        /\ Opening(object)
        /\ SkipsTo(pos + 1, q)
        /\ text[q] = Closer(object)
        /\ nodes' = [nodes EXCEPT
                       ![Item].type = IF object THEN "Object" ELSE "Array",
                       ![Item].child = 0]
        /\ pos' = q + 1
        /\ pc' = "after"
        /\ UNCHANGED <<root, stack, strings, fresh>> /\ Unchanged
  BY DEF OpenEmpty
<1>1. pc = "value"
  BY <1>0 DEF Opening, Bracket
<1>2. PICK S, W, B : TreeSays(S, W, B)
  BY <1>1 DEF TreeInv, Telling, Reading
<1>3. /\ Item \in DOMAIN nodes /\ nodes[Item] \in Nodes /\ Item = Chain(Depth)
      /\ nodes \in [DOMAIN nodes -> Nodes] /\ nodes[Item].child = 0
  BY <1>1, CurrentItem, ItemIsLast DEF ParserInv, ParserTypeOK
<1>4. Significant[pos - 1] = B[Depth] /\ pos >= AfterBom
  BY <1>1, <1>2 DEF TreeSays, ReadSoFar
<1>5. /\ q \in Nat /\ q - 1 \in Nat /\ q - 1 >= AfterBom /\ q <= Len(text)
      /\ Significant[q - 1] = B[Depth] \o <<Opener(object)>>
  BY <1>0, <1>4, PassOpener
<1>6. Significant[q] = (B[Depth] \o <<Opener(object)>>) \o <<Closer(object)>>
  <2>1. text[q] \notin Blanks
    BY <1>0, NotBlank DEF Closer
  <2>2. ParserTypeOK /\ AfterBom \in Nat
    BY TextEnds DEF ParserInv, AfterBom
  <2>3. q >= AfterBom
    BY <1>5, <2>2
  <2>4. Significant[q] = Significant[q - 1] \o <<text[q]>>
    BY <1>5, <2>1, <2>2, <2>3, OneMore
  <2> QED BY <1>0, <1>5, <2>4
<1> DEFINE type == IF object THEN "Object" ELSE "Array"
<1>7. /\ Filled(Item) /\ nodes'[Item].string = nodes[Item].string
      /\ nodes'[Item].type = type /\ nodes'[Item].child = 0
  <2>1. /\ nodes' = [nodes EXCEPT ![Item].type = type, ![Item].child = 0]
        /\ UNCHANGED <<root, stack, strings, text>>
    BY <1>0 DEF Unchanged
  <2> HIDE DEF type
  <2> QED BY <1>3, <2>1 DEF Filled, Nodes
<1>8. Value(nodes', strings', W, Item)
        = <<Opener(object)>> \o <<>> \o <<Closer(object)>>
  <2>1. type \in {"Object", "Array"} /\ type # "String" /\ (type = "Object") = object
    OBVIOUS
  <2> HIDE DEF type
  <2> QED BY <1>7, <2>1 DEF Value
<1>9. Significant[q] = B[Depth] \o Value(nodes', strings', W, Item)
  <2>1. B[Depth] \in Seq(Words)
    BY <1>1, <1>2, TreeTypes DEF Telling, Reading
  <2> DEFINE op == Opener(object)
             cl == Closer(object)
             b == B[Depth]
  <2>2. op \in Words /\ cl \in Words
    BY WordKinds
  <2> HIDE DEF op, cl, b
  <2>3. b \in Seq(Words)
    BY <2>1 DEF b
  <2>4. (b \o <<op>>) \o <<cl>> = b \o (<<op>> \o <<>> \o <<cl>>)
    BY <2>2, <2>3
  <2> QED BY <1>6, <1>8, <2>4 DEF op, cl, b
<1>10. TreeSays(S, W, B)'
  <2>1. pos' \in Nat /\ pos' - 1 = q /\ pos' - 1 >= AfterBom
    <3>1. AfterBom \in Nat
      BY TextEnds DEF ParserInv, AfterBom
    <3> QED BY <1>0, <1>5, <3>1
  <2> QED BY <1>0, <1>1, <1>2, <1>3, <1>7, <1>9, <2>1, ValueTree
<1> QED BY <1>10 DEF TreeInv

LEMMA RootLive ==
    ASSUME ParserInv, Reading
    PROVE  /\ Chain(0) = root
           /\ root \in DOMAIN nodes \/ (Depth = 0 /\ pc = "element")
           /\ Depth > 0 /\ Chain(Depth) # 0 => root # Chain(Depth)
<1>1. ChainInv /\ Current /\ Depth \in Nat
  BY DEF ParserInv, ParserTypeOK, Depth
<1>2. Chain(0) = root
  BY DEF Chain
<1>3. CASE Depth = 0
  <2>1. 0 \in 0..Depth
    BY <1>3
  <2> QED BY <1>1, <1>2, <1>3, <2>1 DEF ChainInv, Current
<1>4. CASE Depth # 0
  <2>1. 0 \in 0..Depth-1 /\ 0 \in 0..Depth /\ Depth \in 0..Depth /\ 0 < Depth
    BY <1>1, <1>4
  <2>2. Chain(0) # 0
    BY <1>1, <2>1 DEF ChainInv
  <2>3. root \in DOMAIN nodes
    BY <1>1, <1>2, <2>1, <2>2 DEF ChainInv
  <2>4. Chain(Depth) # 0 => Chain(0) < Chain(Depth)
    BY <1>1, <2>1 DEF ChainInv
  <2>5. root \in Nat
    BY DEF ParserInv, ParserTypeOK
  <2> QED BY <1>2, <2>3, <2>4, <2>5
<1> QED BY <1>3, <1>4

LEMMA ReadNameTree == ParserInv /\ TreeInv /\ ReadName => TreeInv'
<1> SUFFICES ASSUME ParserInv, TreeInv, ReadName
             PROVE  TreeInv'
  OBVIOUS
<1>0. /\ pc = "name" /\ pos <= Len(text) /\ text[pos] \in Strings
      /\ nodes' = [nodes EXCEPT ![Item].type = "String",
                                ![Item].string = fresh,
                                ![Item].valuestring = 0]
      /\ strings' = Alloc(strings, text[pos])
      /\ SkipPast(pos) /\ pc' = "colon" /\ Depth > 0
      /\ UNCHANGED <<root, stack, text>>
  BY DEF ReadName, ReadNameLeaving, Unchanged, ParserInv, Placed, NameInBounds,
         CanAccess
<1>1. PICK S, W, B : TreeSays(S, W, B)
  BY <1>0 DEF TreeInv, Telling, Reading
<1>2. /\ Item \in DOMAIN nodes /\ nodes[Item] \in Nodes /\ Item = Chain(Depth)
      /\ nodes \in [DOMAIN nodes -> Nodes] /\ nodes[Item].string = 0
      /\ fresh \notin DOMAIN strings /\ fresh # 0 /\ Item # 0
  BY <1>0, CurrentItem, ItemIsLast DEF ParserInv, ParserTypeOK
<1>3. /\ \A a \in DOMAIN strings : strings'[a] = strings[a]
      /\ DOMAIN strings \subseteq DOMAIN strings'
      /\ strings'[fresh] = text[pos]
  BY <1>0, <1>2 DEF Alloc
<1>4. Filled(Item) /\ nodes'[Item].string = fresh
  <2>1. /\ nodes'[Item].string = fresh
        /\ nodes'[Item].next = nodes[Item].next
        /\ nodes'[Item].prev = nodes[Item].prev
        /\ nodes'[Item].child = nodes[Item].child
        /\ DOMAIN nodes' = DOMAIN nodes
        /\ \A n \in DOMAIN nodes \ {Item} : nodes'[n] = nodes[n]
    BY <1>0, <1>2 DEF Nodes
  <2> QED BY <1>0, <1>3, <2>1 DEF Filled
<1>5. Significant[pos - 1] = B[Depth] /\ pos >= AfterBom
  BY <1>0, <1>1 DEF TreeSays, ReadSoFar
<1>6. /\ Depth \in Nat /\ Depth \in 1..Depth /\ Depth \in 0..Depth
      /\ B[Depth] \in Seq(Words) /\ B \in [0..Depth -> Seq(Words)]
      /\ W \in Spelling(nodes)
  <2>1. Depth \in Nat /\ B[Depth] \in Seq(Words) /\ W \in Spelling(nodes)
    BY <1>0, <1>1, TreeTypes DEF Telling, Reading
  <2>2. B \in [0..Depth -> Seq(Words)]
    BY <1>1 DEF TreeSays, Beginnings
  <2> QED BY <1>0, <2>1, <2>2
<1>7. /\ Marked(S)' /\ Doubly(S)' /\ Spelt(S, W)' /\ Depth' = Depth
      /\ \A i : Chain(i)' = Chain(i)
      /\ \A i \in 1..Depth : i # Depth => Begun(W, i)' = Begun(W, i)
  BY <1>0, <1>1, <1>2, <1>4, FillTree DEF Reading
<1> DEFINE name == <<text[pos], ":">>
           H == stack[Depth].head
           op == Opener(stack[Depth].object)
<1>17. PICK B2 : B2 = [B EXCEPT ![Depth] = B[Depth] \o name]
  OBVIOUS
<1>8. Name(nodes, strings, Item) = <<>> /\ Name(nodes', strings', Item) = name
  BY <1>2, <1>3, <1>4 DEF Name
<1>9. name \in Seq(Words)
  <2>1. text[pos] \in Words /\ ":" \in Words
    BY <1>0, WordKinds
  <2> QED BY <2>1, FewWords
<1>10. H # 0 /\ W[H] \in Seq(Words)
  <2>1. ChainInv
    BY <1>0 DEF ParserInv, Reading
  <2>2. H # 0
    BY <1>2, <1>6, <2>1 DEF ChainInv
  <2>3. H \in DOMAIN nodes
    BY <1>6, <2>2, HeadLive
  <2> QED BY <1>6, <2>2, <2>3 DEF Spelling
<1>11. Begun(W, Depth) = <<op>> \o W[H]
  <2>1. Begun(W, Depth) = <<op>> \o (W[H] \o <<>>)
    BY <1>2, <1>8, <1>10 DEF Begun
  <2> QED BY <1>10, <2>1, ConcatEmptySeq
<1>12. Begun(W, Depth)' = <<op>> \o (W[H] \o name)
  <2>1. Name(nodes, strings, Chain(Depth))' = name
    BY <1>2, <1>7, <1>8
  <2>2. Depth' = Depth /\ stack' = stack
    BY <1>0, <1>7
  <2>3. stack'[Depth'].head # 0
    BY <1>10, <2>2
  <2> HIDE DEF name
  <2> QED BY <1>10, <2>1, <2>2, <2>3 DEF Begun
<1>13. Begun(W, Depth)' = Begun(W, Depth) \o name
  <2>1. op \in Words
    BY WordKinds
  <2>2. <<op>> \in Seq(Words)
    BY <2>1, FewWords
  <2> DEFINE w == W[H]
             o == <<op>>
  <2>3. w \in Seq(Words) /\ o \in Seq(Words)
    BY <1>10, <2>2
  <2> HIDE DEF w, o, name
  <2>4. (o \o w) \o name = o \o (w \o name)
    BY <1>9, <2>3, ConcatAssociative
  <2> QED BY <1>11, <1>12, <2>4 DEF w, o
<1>14. Beginnings(W, B2)'
  <2> DEFINE b == Begun(W, Depth)
             a == B[Depth - 1]
  <2>1. B2 \in [0..Depth -> Seq(Words)]
    <3> HIDE DEF name
    <3>1. B[Depth] \o name \in Seq(Words)
      BY <1>6, <1>9, Joined
    <3> QED BY <1>6, <1>17, <3>1
  <2>2. B2[0] = <<>>
    BY <1>0, <1>1, <1>6, <1>17 DEF TreeSays, Beginnings
  <2>3. ASSUME NEW i \in 1..Depth
        PROVE  B2[i] = B2[i - 1] \o Begun(W, i)'
    <3>0. i - 1 \in 0..Depth /\ i - 1 # Depth /\ B2[i - 1] = B[i - 1]
      BY <1>6, <1>17
    <3>1. CASE i = Depth
      <4>1. B[Depth] = a \o b
        BY <1>1, <1>6 DEF TreeSays, Beginnings
      <4>2. B2[Depth] = (a \o b) \o name
        BY <1>6, <1>17, <4>1
      <4>3. a \in Seq(Words) /\ b \in Seq(Words)
        <5>1. a \in Seq(Words)
          BY <1>6, <3>0, <3>1
        <5>2. <<op>> \in Seq(Words)
          BY WordKinds, FewWords
        <5>3. <<op>> \o W[H] \in Seq(Words)
          <6> HIDE DEF op, H
          <6> QED BY <1>10, <5>2, Joined
        <5> QED BY <1>11, <5>1, <5>3
      <4> HIDE DEF a, b, name
      <4>4. B2[Depth] = a \o (b \o name)
        BY <1>9, <4>2, <4>3, ConcatAssociative
      <4>5. B2[i - 1] = a
        BY <3>0, <3>1 DEF a
      <4>6. Begun(W, i)' = b \o name
        BY <1>13, <3>1, <1>7 DEF b
      <4> QED BY <3>1, <4>4, <4>5, <4>6
    <3>2. CASE i # Depth
      <4>1. B2[i] = B[i]
        BY <1>6, <1>17, <3>2
      <4>2. B[i] = B[i - 1] \o Begun(W, i)
        BY <1>1 DEF TreeSays, Beginnings
      <4> QED BY <1>7, <3>0, <3>2, <4>1, <4>2
    <3> QED BY <3>1, <3>2
  <2> QED BY <1>7, <2>1, <2>2, <2>3 DEF Beginnings
<1>15. nodes'[root].string = 0 /\ root' = root
  <2>1. nodes[root].string = 0
    BY <1>1 DEF TreeSays
  <2>2. root \in DOMAIN nodes \ {Item}
    BY <1>0, <1>2, RootLive DEF Reading
  <2> QED BY <1>4, <2>1, <2>2 DEF Filled
<1>16. ReadSoFar(W, B2)'
  <2>1. text[pos] \notin Blanks
    BY <1>0, NotBlank DEF Literals
  <2>2. /\ Significant[pos' - 1] = Significant[pos - 1] \o <<text[pos]>>
        /\ pos' >= AfterBom
    BY <1>0, <1>5, <2>1, PassToken
  <2>3. Significant' = Significant /\ AfterBom' = AfterBom
    BY <1>0, SameReading
  <2>4. B2[Depth] = B[Depth] \o name
    BY <1>6, <1>17
  <2>5. (B[Depth] \o <<text[pos]>>) \o <<":">> = B[Depth] \o name
    <3> DEFINE b == B[Depth]
               t == text[pos]
    <3>1. b \in Seq(Words) /\ t \in Words /\ ":" \in Words
      BY <1>0, <1>6, WordKinds
    <3> HIDE DEF b, t
    <3>2. (b \o <<t>>) \o <<":">> = b \o <<t, ":">>
      BY <3>1
    <3> QED BY <3>2 DEF b, t
  <2>6. Significant'[pos' - 1] \o <<":">> = B2[Depth']
    <3> HIDE DEF name
    <3> QED BY <1>5, <1>7, <2>2, <2>3, <2>4, <2>5
  <2> QED BY <1>0, <2>2, <2>3, <2>6 DEF ReadSoFar
<1>18. TreeSays(S, W, B2)'
  BY <1>7, <1>14, <1>15, <1>16 DEF TreeSays
<1> QED BY <1>18 DEF TreeInv

LEMMA BeginTree == ParserInv /\ Begin => TreeInv'
<1> SUFFICES ASSUME ParserInv, Begin
             PROVE  TreeInv'
  OBVIOUS
<1>1. /\ stack = <<>> /\ DOMAIN nodes = {} /\ fresh \in Nat \ {0}
      /\ root' = fresh /\ stack' = <<>> /\ text' = text /\ strings' = strings
      /\ pc' = "value" /\ nodes' = Alloc(nodes, Blank)
      /\ SkipPast(AfterBom - 1)
  BY DEF Begin, Unchanged, ParserInv, Placed, ParserTypeOK
<1>2. DOMAIN nodes' = {fresh} /\ nodes'[fresh] = Blank
  BY <1>1 DEF Alloc
<1>3. /\ Blank.next = 0 /\ Blank.child = 0 /\ Blank.string = 0
  BY DEF Blank
<1>4. PICK n : n = fresh
  OBVIOUS
<1> DEFINE S == [m \in {n} |-> 0]
           W == [m \in {n} |-> <<>>]
           B == [i \in 0..0 |-> <<>>]
<1>5. Depth' = 0 /\ Chain(0)' = n /\ n \in Nat \ {0}
  BY <1>1, <1>4 DEF Depth, Chain
<1>6. \A i \in 0..Depth' : i = 0
  BY <1>5
<1>7. \A i \in 1..Depth' : FALSE
  BY <1>5
<1>8. Marked(S)'
  <2>1. \A m \in DOMAIN nodes' : m = n /\ S[m] = 0 /\ nodes'[m] = Blank
    BY <1>2, <1>4
  <2>2. S \in [DOMAIN nodes' -> Int]
    BY <1>2, <1>4
  <2>3. \A m \in DOMAIN nodes' : m = Chain(0)'
    BY <1>5, <2>1
  <2>4. S[n] = 0
    OBVIOUS
  <2> HIDE DEF S
  <2> QED BY <1>3, <1>5, <1>6, <1>7, <2>1, <2>2, <2>3, <2>4 DEF Marked
<1>9. Doubly(S)'
  BY <1>2, <1>3, <1>7 DEF Doubly
<1>10. Spelt(S, W)'
  <2>1. \A m \in DOMAIN nodes' : m = n /\ S[m] = 0 /\ W[m] = <<>>
    BY <1>2, <1>4
  <2>2. W \in Spelling(nodes')
    BY <1>2, <1>4, NoWords DEF Spelling
  <2>3. \A m \in DOMAIN nodes' : m = Chain(0)'
    BY <1>5, <2>1
  <2> HIDE DEF S, W
  <2>4. \A m \in DOMAIN nodes' : Ends(S, m)'
    BY <2>1, <2>3 DEF Ends
  <2> QED BY <2>1, <2>2, <2>4 DEF Spelt
<1>11. Beginnings(W, B)'
  <2>1. B \in [0..0 -> Seq(Words)] /\ B[0] = <<>>
    BY NoWords
  <2> HIDE DEF B
  <2> QED BY <1>5, <1>7, <2>1 DEF Beginnings
<1>12. ReadSoFar(W, B)'
  <2>1. /\ ParserTypeOK /\ AfterBom \in Nat \ {0} /\ Len(text) \in Nat
        /\ AfterBom <= Len(text) + 1
    BY TextEnds DEF ParserInv, AfterBom
  <2>2. SkipsTo(AfterBom, pos')
    <3>1. (AfterBom - 1) + 1 = AfterBom
      BY <2>1
    <3> QED BY <1>1, <3>1 DEF SkipPast
  <2>3. /\ pos' \in Nat /\ AfterBom <= pos'
        /\ Significant[pos' - 1] = Significant[AfterBom - 1]
    BY <2>1, <2>2, SkippedOver
  <2>4. Significant[AfterBom - 1] = <<>>
    <3>1. AfterBom - 1 \in 0..Len(text) /\ AfterBom - 1 < AfterBom
      BY <2>1
    <3> QED BY <2>1, <3>1, SignificantIs
  <2>5. Significant' = Significant /\ AfterBom' = AfterBom
    BY <1>1, SameReading
  <2>6. pos' >= AfterBom'
    <3>1. pos' >= AfterBom
      BY <2>1, <2>3
    <3> QED BY <2>5, <3>1
  <2>7. Significant'[pos' - 1] = B[Depth']
    <3>1. B[0] = <<>>
      OBVIOUS
    <3> HIDE DEF B
    <3> QED BY <1>5, <2>3, <2>4, <2>5, <3>1
  <2> HIDE DEF B, W
  <2> QED BY <1>1, <2>6, <2>7 DEF ReadSoFar
<1>13. TreeSays(S, W, B)'
  <2>1. nodes'[root'].string = 0
    BY <1>1, <1>2, <1>3
  <2> HIDE DEF S, W, B
  <2> QED BY <1>8, <1>9, <1>10, <1>11, <1>12, <2>1 DEF TreeSays
<1> HIDE DEF S, W, B
<1> QED BY <1>13 DEF TreeInv

LEMMA OpenTree == ParserInv /\ TreeInv /\ Open => TreeInv'
<1> SUFFICES ASSUME ParserInv, TreeInv, Open
             PROVE  TreeInv'
  OBVIOUS
<1>0. PICK object \in BOOLEAN, q \in pos+1..Len(text) :
        /\ Opening(object)
        /\ SkipsTo(pos + 1, q)
        /\ stack' = Append(stack, [object |-> object, head |-> 0, last |-> 0])
        /\ pos' = q - 1
        /\ pc' = "element"
        /\ UNCHANGED <<root, nodes, strings, fresh>> /\ Unchanged
  BY DEF Open
<1>1. /\ pc = "value" /\ text' = text /\ root' = root /\ nodes' = nodes
      /\ strings' = strings
  BY <1>0 DEF Opening, Bracket, Unchanged
<1>2. PICK S, W, B : TreeSays(S, W, B)
  BY <1>1 DEF TreeInv, Telling, Reading
<1>3. PICK d : d = Depth
  OBVIOUS
<1>4. /\ stack \in Seq(Frames) /\ d \in Nat /\ Depth' = d + 1
      /\ \A i \in 1..d : stack'[i] = stack[i]
      /\ stack'[d + 1] = [object |-> object, head |-> 0, last |-> 0]
  BY <1>0, <1>3 DEF ParserInv, ParserTypeOK, Depth
<1>5. /\ \A i \in 0..d : Chain(i)' = Chain(i)
      /\ \A i : i = d + 1 => Chain(i)' = 0
  BY <1>1, <1>4 DEF Chain
<1>6. \A i \in 0..d+1 : i \in 0..d \/ i = d + 1
  BY <1>4
<1>7. \A i \in 1..d+1 : i \in 1..d \/ i = d + 1
  BY <1>4
<1>8. /\ q - 1 >= AfterBom /\ q - 1 \in Nat
      /\ Significant[q - 1] = B[d] \o <<Opener(object)>>
  <2>1. Significant[pos - 1] = B[Depth] /\ pos >= AfterBom
    BY <1>1, <1>2 DEF TreeSays, ReadSoFar
  <2> QED BY <1>0, <1>3, <2>1, PassOpener
<1>9. \A n \in DOMAIN nodes : /\ S[n] \in Int /\ S[n] >= -1 /\ S[n] <= d
                              /\ S[n] # -1 => S[n] \in 0..d
  BY <1>2, <1>3, <1>4 DEF TreeSays, Marked
<1>10. Marked(S)'
  <2>1. \A n \in DOMAIN nodes :
         /\ S[n] >= -1 /\ S[n] <= Depth'
         /\ nodes[n].next # 0 => S[nodes[n].next] = S[n]
         /\ nodes[n].child # 0 => S[nodes[n].child] = -1
         /\ S[n] # -1 => n = Chain(S[n])' \/ nodes[n].next # 0
    <3> SUFFICES ASSUME NEW n \in DOMAIN nodes
                 PROVE  /\ S[n] >= -1 /\ S[n] <= Depth'
                        /\ S[n] # -1 => n = Chain(S[n])' \/ nodes[n].next # 0
      BY <1>2 DEF TreeSays, Marked
    <3>1. S[n] >= -1 /\ S[n] <= Depth'
      BY <1>4, <1>9
    <3>2. S[n] # -1 => n = Chain(S[n]) \/ nodes[n].next # 0
      BY <1>2 DEF TreeSays, Marked
    <3> QED BY <1>5, <1>9, <3>1, <3>2
  <2>2. \A i \in 0..Depth' : Chain(i)' # 0 => S[Chain(i)'] = i
    BY <1>2, <1>3, <1>4, <1>5, <1>6 DEF TreeSays, Marked
  <2>3. \A i \in 1..Depth' : stack'[i].head # 0 => S[stack'[i].head] = i
    BY <1>2, <1>3, <1>4, <1>7 DEF TreeSays, Marked
  <2>4. S \in [DOMAIN nodes -> Int]
    BY <1>2 DEF TreeSays, Marked
  <2> QED BY <1>1, <2>1, <2>2, <2>3, <2>4 DEF Marked
<1>11. Doubly(S)'
  <2>1. \A i \in 1..Depth' : stack'[i].head # 0 => nodes[stack'[i].head].prev = 0
    BY <1>2, <1>3, <1>4, <1>7 DEF TreeSays, Doubly
  <2> QED BY <1>1, <1>2, <2>1 DEF TreeSays, Doubly
<1>12. Spelt(S, W)'
  <2>1. \A n \in DOMAIN nodes : Ends(S, n)' <=> Ends(S, n)
    BY <1>5, <1>9 DEF Ends
  <2> QED BY <1>1, <1>2, <2>1 DEF TreeSays, Spelt
<1>13. B[d] \in Seq(Words) /\ B \in [0..d -> Seq(Words)]
  BY <1>2, <1>3, <1>4 DEF TreeSays, Beginnings
<1>14. PICK op : op = Opener(object)
  OBVIOUS
<1>15. <<op>> \in Seq(Words)
  BY <1>14, WordKinds, FewWords
<1> DEFINE C == [i \in 0..d+1 |-> IF i = d + 1 THEN B[d] \o <<op>> ELSE B[i]]
<1>16. /\ C \in [0..d+1 -> Seq(Words)] /\ C[d + 1] = B[d] \o <<op>>
       /\ \A i \in 0..d : C[i] = B[i]
  <2>1. B[d] \o <<op>> \in Seq(Words)
    BY <1>13, <1>15, Joined
  <2>2. \A i \in 0..d : i # d + 1 /\ i \in 0..d+1
    BY <1>4
  <2>3. \A i \in 0..d+1 : (IF i = d + 1 THEN B[d] \o <<op>> ELSE B[i]) \in Seq(Words)
    BY <1>6, <1>13, <2>1
  <2>4. d + 1 \in 0..d+1
    BY <1>4
  <2> QED BY <2>2, <2>3, <2>4
<1> HIDE DEF C
<1>17. Beginnings(W, C)'
  <2>1. C[0] = <<>>
    <3>1. 0 \in 0..d
      BY <1>4
    <3> QED BY <1>2, <1>16, <3>1 DEF TreeSays, Beginnings
  <2>2. ASSUME NEW i \in 1..d
        PROVE  C[i] = C[i - 1] \o Begun(W, i)'
    <3>1. i \in 0..d /\ i - 1 \in 0..d
      BY <1>4
    <3>2. Begun(W, i)' = Begun(W, i)
      BY <1>1, <1>4, <1>5, <3>1 DEF Begun
    <3>3. B[i] = B[i - 1] \o Begun(W, i)
      BY <1>2, <1>3 DEF TreeSays, Beginnings
    <3> QED BY <1>16, <3>1, <3>2, <3>3
  <2>3. ASSUME NEW i \in 1..d+1, i = d + 1
        PROVE  C[i] = C[i - 1] \o Begun(W, i)'
    <3>1. Begun(W, i)' = <<op>> \o <<>>
      <4>1. stack'[i].object = object /\ stack'[i].head = 0
        BY <1>4, <2>3
      <4> QED BY <1>14, <4>1 DEF Begun
    <3>2. Begun(W, i)' = <<op>>
      BY <1>15, <3>1, ConcatEmptySeq
    <3>3. i - 1 = d /\ d \in 0..d
      BY <1>4, <2>3
    <3> QED BY <1>16, <2>3, <3>2, <3>3
  <2>4. \A i \in 1..d+1 : C[i] = C[i - 1] \o Begun(W, i)'
    BY <1>7, <2>2, <2>3
  <2> QED BY <1>4, <1>16, <2>1, <2>4 DEF Beginnings
<1>18. ReadSoFar(W, C)'
  <2>1. Significant' = Significant /\ AfterBom' = AfterBom
    BY <1>1, SameReading
  <2>2. Top'.head = 0
    BY <1>4 DEF Top
  <2>3. pos' = q - 1 /\ pc' = "element"
    BY <1>0
  <2>4. Significant'[pos'] = C[Depth']
    BY <1>4, <1>8, <1>14, <1>16, <2>1, <2>3
  <2>5. pos' >= AfterBom'
    BY <1>8, <2>1, <2>3
  <2> QED BY <2>2, <2>3, <2>4, <2>5 DEF ReadSoFar
<1>19. TreeSays(S, W, C)'
  BY <1>1, <1>2, <1>10, <1>11, <1>12, <1>17, <1>18 DEF TreeSays
<1> QED BY <1>19 DEF TreeInv

(***************************************************************************)
(* A new item at the end of the list.                                      *)
(***************************************************************************)
Appended(L, f, d) ==
    /\ f \in Nat \ {0} /\ f \notin DOMAIN nodes
    /\ DOMAIN nodes' = DOMAIN nodes \cup {f}
    /\ nodes'[f] = [Blank EXCEPT !.prev = L]
    /\ \A n \in DOMAIN nodes : n # L => nodes'[n] = nodes[n]
    /\ L # 0 => /\ L \in DOMAIN nodes /\ nodes[L].next = 0
                /\ nodes'[L] = [nodes[L] EXCEPT !.next = f]
    /\ Chain(d)' = f /\ stack'[d].object = stack[d].object
    /\ stack'[d].head = (IF L = 0 THEN f ELSE stack[d].head)
    /\ \A i \in 1..d : i # d => stack'[i] = stack[i]
    /\ \A i \in 0..d : i # d => Chain(i)' = Chain(i)

LEMMA NextElementAdds ==
    ASSUME ParserInv, NextElement
    PROVE  /\ Appended(Chain(Depth), fresh, Depth)
           /\ Depth \in Nat /\ Depth > 0 /\ Depth' = Depth
           /\ Chain(Depth) = 0 <=> stack[Depth].head = 0
           /\ nodes' \in [DOMAIN nodes' -> Nodes]
           /\ pc' \in {"name", "value"} /\ SkipPast(pos) /\ pos < Len(text)
           /\ UNCHANGED <<root, strings, text, del, starved>>
<1> USE DEF ParserInv
<1> DEFINE L == Chain(Depth)
           H == stack[Depth].head
           new == [Blank EXCEPT !.prev = L]
           added == Alloc(nodes, new)
<1>1. /\ pc = "element" /\ del = <<>> /\ Depth > 0 /\ pos < Len(text)
      /\ ChainInv /\ Current
  BY DEF NextElement, AddElement, Placed, Reading
<1>2. /\ stack \in Seq(Frames) /\ Depth \in Nat /\ Depth = Len(stack)
      /\ DOMAIN stack = 1..Depth /\ Depth \in 1..Depth /\ Depth \in 0..Depth
      /\ fresh \in Nat \ {0}
      /\ DOMAIN nodes \subseteq 1..fresh-1 /\ DOMAIN strings \subseteq 1..fresh-1
      /\ nodes \in [DOMAIN nodes -> Nodes]
  BY <1>1 DEF ParserTypeOK, Depth
<1>3. L = Top.last /\ H = Top.head /\ Top = stack[Depth] /\ Top \in Frames
  BY <1>1, <1>2 DEF Chain, Top
<1>4. /\ L \in Nat /\ H \in Nat /\ (H = 0 <=> L = 0)
      /\ L # 0 => L \in DOMAIN nodes /\ nodes[L].next = 0
  <2>1. L \in Nat /\ H \in Nat
    BY <1>3 DEF Frames
  <2> QED BY <1>1, <1>2, <2>1 DEF ChainInv
<1>5. /\ nodes' = IF H = 0 THEN added ELSE [added EXCEPT ![L].next = fresh]
      /\ stack' = [stack EXCEPT ![Depth].head = IF H = 0 THEN fresh ELSE @,
                                ![Depth].last = fresh]
      /\ fresh' = fresh + 1
      /\ pc' \in {"name", "value"} /\ SkipPast(pos)
      /\ root' = root /\ strings' = strings /\ text' = text /\ del' = del
      /\ starved' = starved
  BY <1>1, <1>3 DEF NextElement, AddElement, Unchanged
<1>6. /\ new \in Nodes /\ new.next = 0 /\ new.child = 0
      /\ new.valuestring = 0 /\ new.string = 0
  BY <1>4 DEF Blank, Nodes, Types
<1>7. /\ DOMAIN added = DOMAIN nodes \cup {fresh} /\ added[fresh] = new
      /\ \A n \in DOMAIN nodes : added[n] = nodes[n]
      /\ fresh \notin DOMAIN nodes
      /\ added \in [DOMAIN nodes \cup {fresh} -> Nodes]
  <2> HIDE DEF new
  <2>1. fresh \notin DOMAIN nodes
    BY <1>2
  <2> QED BY <1>2, <1>6, <2>1 DEF Alloc
<1> HIDE DEF L, H, new, added
<1>8. /\ DOMAIN nodes' = DOMAIN nodes \cup {fresh}
      /\ nodes'[fresh] = new
      /\ \A n \in DOMAIN nodes : n # L => nodes'[n] = nodes[n]
      /\ L # 0 => nodes'[L] = [nodes[L] EXCEPT !.next = fresh]
      /\ nodes' \in [DOMAIN nodes' -> Nodes]
  <2>1. CASE H = 0
    BY <1>4, <1>5, <1>7, <2>1
  <2>2. CASE H # 0
    <3>1. nodes' = [added EXCEPT ![L].next = fresh]
      BY <1>5, <2>2
    <3>2. L \in DOMAIN nodes /\ L # fresh /\ added[L] = nodes[L]
      BY <1>4, <1>7, <2>2
    <3>3. [nodes[L] EXCEPT !.next = fresh] \in Nodes
      BY <1>2, <3>2 DEF Nodes
    <3>4. nodes' = [added EXCEPT ![L] = [nodes[L] EXCEPT !.next = fresh]]
      BY <3>1, <3>2
    <3> QED BY <1>7, <3>2, <3>3, <3>4
  <2> QED BY <2>1, <2>2
<1>9. /\ Depth' = Depth /\ stack' \in Seq(Frames) /\ DOMAIN stack' = 1..Depth
      /\ \A i \in 1..Depth : i # Depth => stack'[i] = stack[i]
      /\ stack'[Depth].head = (IF H = 0 THEN fresh ELSE H)
      /\ stack'[Depth].last = fresh
      /\ stack'[Depth].object = Top.object
  <2> DEFINE h2 == IF H = 0 THEN fresh ELSE H
             g == [Top EXCEPT !.head = h2]
             f2 == [g EXCEPT !.last = fresh]
             mid == [stack EXCEPT ![Depth] = g]
  <2>1. h2 \in Nat /\ fresh \in Nat
    BY <1>2, <1>4
  <2>2. g \in Frames /\ g.head = h2 /\ g.object = Top.object
    <3> HIDE DEF h2
    <3> QED BY <1>3, <2>1 DEF Frames
  <2>3. f2 \in Frames /\ f2.head = h2 /\ f2.last = fresh /\ f2.object = Top.object
    <3> HIDE DEF h2, g
    <3> QED BY <2>1, <2>2 DEF Frames
  <2>4. stack' = [stack EXCEPT ![Depth].head = h2, ![Depth].last = fresh]
    BY <1>3, <1>5
  <2>5. stack' = [mid EXCEPT ![Depth].last = fresh]
    <3> HIDE DEF h2
    <3> QED BY <1>3, <2>4
  <2> HIDE DEF h2
  <2>6. mid \in Seq(Frames) /\ mid[Depth] = g /\ DOMAIN mid = 1..Depth
    <3> HIDE DEF g
    <3> QED BY <1>2, <2>2
  <2>7. \A i \in 1..Depth : i # Depth => mid[i] = stack[i]
    BY <1>2
  <2> HIDE DEF g, mid
  <2>8. stack' = [mid EXCEPT ![Depth] = f2]
    BY <2>5, <2>6
  <2> HIDE DEF f2
  <2>9. stack' \in Seq(Frames) /\ stack'[Depth] = f2 /\ DOMAIN stack' = 1..Depth
    BY <1>2, <2>3, <2>6, <2>8
  <2>10. \A i \in 1..Depth : i # Depth => stack'[i] = mid[i]
    BY <2>6, <2>8
  <2>11. Depth' = Depth
    BY <1>2, <2>9 DEF Depth
  <2> QED BY <2>3, <2>7, <2>9, <2>10, <2>11 DEF h2
<1>13. \A i \in 0..Depth : i # Depth => Chain(i)' = Chain(i)
  BY <1>2, <1>5, <1>9 DEF Chain
<1>14. Chain(Depth)' = fresh
  BY <1>1, <1>9 DEF Chain
<1>15. Appended(L, fresh, Depth)
  <2>1. \A i \in 0..Depth : i # Depth => Chain(i)' = Chain(i)
    BY <1>13
  <2>2. nodes'[fresh] = [Blank EXCEPT !.prev = L]
    BY <1>8 DEF new
  <2>3. stack'[Depth].head = (IF L = 0 THEN fresh ELSE stack[Depth].head)
    BY <1>4, <1>9 DEF H
  <2>4. stack'[Depth].object = stack[Depth].object
    BY <1>3, <1>9
  <2> QED BY <1>2, <1>4, <1>7, <1>8, <1>9, <1>14, <2>1, <2>2, <2>3, <2>4 DEF Appended
<1> QED BY <1>1, <1>2, <1>4, <1>5, <1>8, <1>9, <1>15 DEF L, H

LEMMA Associative ==
    ASSUME NEW x \in Seq(Words), NEW y \in Seq(Words), NEW z \in Seq(Words)
    PROVE  (x \o y) \o z = x \o (y \o z)
OBVIOUS

LEMMA NextElementTree == ParserInv /\ TreeInv /\ NextElement => TreeInv'
<1> SUFFICES ASSUME ParserInv, TreeInv, NextElement
             PROVE  TreeInv'
  OBVIOUS
<1>1. /\ pc = "element" /\ ChainInv /\ Reading
  BY DEF NextElement, AddElement, ParserInv, Reading
<1>2. PICK S, W, B : TreeSays(S, W, B)
  BY <1>1 DEF TreeInv, Telling
<1>3. PICK d, f, L : d = Depth /\ f = fresh /\ L = Chain(Depth)
  OBVIOUS
<1>4. /\ d \in Nat /\ d > 0 /\ Depth' = d /\ (L = 0 <=> stack[d].head = 0)
      /\ pc' \in {"name", "value"} /\ SkipPast(pos) /\ pos < Len(text)
      /\ UNCHANGED <<root, strings, text>>
  BY <1>3, NextElementAdds
<1>5. Appended(L, f, d)
  <2>1. Appended(Chain(Depth), fresh, Depth)
    BY NextElementAdds
  <2> QED BY <1>3, <1>4, <2>1 DEF Appended
<1>6. /\ f \in Nat \ {0} /\ f \notin DOMAIN nodes
      /\ DOMAIN nodes' = DOMAIN nodes \cup {f}
      /\ Chain(d)' = f /\ stack'[d].object = stack[d].object
      /\ stack'[d].head = (IF L = 0 THEN f ELSE stack[d].head)
      /\ \A i \in 1..d : i # d => stack'[i] = stack[i]
      /\ \A i \in 0..d : i # d => Chain(i)' = Chain(i)
  BY <1>5 DEF Appended
<1>7. /\ nodes'[f].next = 0 /\ nodes'[f].child = 0 /\ nodes'[f].string = 0
      /\ nodes'[f].prev = L
  BY <1>5 DEF Appended, Blank
<1>8. /\ LiveLinks(nodes, strings) /\ W \in Spelling(nodes) /\ B[d] \in Seq(Words)
      /\ d \in 0..d /\ d \in 1..d
      /\ L \in DOMAIN nodes => LastValue(W) \in Seq(Words)
  BY <1>1, <1>2, <1>3, <1>4, TreeTypes DEF Telling
<1>9. /\ \A n \in DOMAIN nodes : nodes[n] \in Nodes
      /\ 0 \notin DOMAIN nodes
  BY <1>8 DEF LiveLinks
<1>10. L # 0 => /\ L \in DOMAIN nodes /\ nodes[L].next = 0 /\ nodes'[L].next = f
                /\ S[L] = d
  <2> SUFFICES ASSUME L # 0
               PROVE  /\ L \in DOMAIN nodes /\ nodes[L].next = 0
                      /\ nodes'[L].next = f /\ S[L] = d
    OBVIOUS
  <2>1. /\ L \in DOMAIN nodes /\ nodes[L].next = 0
        /\ nodes'[L] = [nodes[L] EXCEPT !.next = f]
    BY <1>5 DEF Appended
  <2>2. nodes'[L].next = f
    BY <1>9, <2>1 DEF Nodes
  <2>3. S[L] = d
    BY <1>2, <1>3, <1>8 DEF TreeSays, Marked
  <2> QED BY <2>1, <2>2, <2>3
<1>11. ASSUME NEW n \in DOMAIN nodes
       PROVE  /\ nodes'[n].prev = nodes[n].prev /\ nodes'[n].child = nodes[n].child
              /\ nodes'[n].type = nodes[n].type
              /\ nodes'[n].string = nodes[n].string
              /\ nodes'[n].valuestring = nodes[n].valuestring
              /\ n # L => nodes'[n].next = nodes[n].next
  <2>1. CASE n # L
    BY <1>5, <2>1 DEF Appended
  <2>2. CASE n = L
    <3>1. nodes'[L] = [nodes[L] EXCEPT !.next = f]
      BY <1>5, <1>9, <2>2 DEF Appended
    <3> QED BY <1>9, <2>2, <3>1 DEF Nodes
  <2> QED BY <2>1, <2>2
<1>12. PICK X : X = IF L = 0 THEN <<>> ELSE Whole(nodes, strings, W, L) \o <<",">>
  OBVIOUS
<1>13. X \in Seq(Words)
  <2>1. CASE L = 0
    BY <1>12, <2>1, NoWords
  <2>2. CASE L # 0
    <3>1. Whole(nodes, strings, W, L) \in Seq(Words)
      BY <1>8, <1>10, <2>2, SpeltInWords
    <3>2. <<",">> \in Seq(Words)
      BY WordKinds, FewWords
    <3> QED BY <1>12, <2>2, <3>1, <3>2, Joined
  <2> QED BY <2>1, <2>2
<1>14. PICK M : M = DOMAIN nodes
  OBVIOUS
<1> DEFINE T == [n \in M \cup {f} |-> IF n = f THEN d ELSE S[n]]
           V == [n \in M \cup {f} |->
                   IF n = f THEN <<>> ELSE IF S[n] = d THEN W[n] \o X ELSE W[n]]
<1>15. /\ T[f] = d /\ \A n \in DOMAIN nodes : T[n] = S[n]
       /\ T \in [DOMAIN nodes' -> Int]
  <2>1. S \in [DOMAIN nodes -> Int]
    BY <1>2 DEF TreeSays, Marked
  <2> QED BY <1>4, <1>6, <1>14, <2>1
<1>16. /\ V[f] = <<>>
       /\ \A n \in DOMAIN nodes : V[n] = IF S[n] = d THEN W[n] \o X ELSE W[n]
       /\ V \in Spelling(nodes')
  <2>1. V[f] = <<>>
        /\ \A n \in DOMAIN nodes : V[n] = IF S[n] = d THEN W[n] \o X ELSE W[n]
    BY <1>6, <1>14
  <2>2. \A n \in DOMAIN nodes : W[n] \in Seq(Words)
    BY <1>8 DEF Spelling
  <2>3. \A n \in DOMAIN nodes : W[n] \o X \in Seq(Words)
    BY <1>13, <2>2, Joined
  <2>4. DOMAIN V = DOMAIN nodes' /\ V = [n \in DOMAIN V |-> V[n]]
    BY <1>6, <1>14
  <2> HIDE DEF V
  <2>5. \A n \in DOMAIN nodes' : V[n] \in Seq(Words)
    BY <1>6, <2>1, <2>2, <2>3, NoWords
  <2> QED BY <2>1, <2>4, <2>5 DEF Spelling
<1> HIDE DEF T, V
<1>17. ASSUME NEW n \in DOMAIN nodes
       PROVE  /\ S[n] >= -1 /\ S[n] <= d /\ S[n] \in Int
              /\ nodes[n].next # 0 => S[nodes[n].next] = S[n]
              /\ nodes[n].child # 0 => S[nodes[n].child] = -1
              /\ S[n] # -1 => n = Chain(S[n]) \/ nodes[n].next # 0
              /\ nodes[n].next # 0 => nodes[n].next \in DOMAIN nodes
              /\ nodes[n].child # 0 => nodes[n].child \in DOMAIN nodes
              /\ S[n] # -1 => S[n] \in 0..d
  <2>1. /\ S[n] >= -1 /\ S[n] <= d /\ S[n] \in Int
        /\ nodes[n].next # 0 => S[nodes[n].next] = S[n]
        /\ nodes[n].child # 0 => S[nodes[n].child] = -1
        /\ S[n] # -1 => n = Chain(S[n]) \/ nodes[n].next # 0
    BY <1>2, <1>3 DEF TreeSays, Marked
  <2>2. /\ nodes[n].next # 0 => nodes[n].next \in DOMAIN nodes
        /\ nodes[n].child # 0 => nodes[n].child \in DOMAIN nodes
    BY <1>8 DEF LiveLinks
  <2> QED BY <1>4, <2>1, <2>2
<1>18. ASSUME NEW i \in 1..d, stack[i].head # 0
       PROVE  stack[i].head \in DOMAIN nodes /\ S[stack[i].head] = i
  <2>1. stack[i].head \in DOMAIN nodes
    BY <1>3, <1>18, HeadLive
  <2>2. S[stack[i].head] = i
    BY <1>2, <1>3, <1>18 DEF TreeSays, Marked
  <2> QED BY <2>1, <2>2
<1>19. ASSUME NEW i \in 0..d, i # d
       PROVE  Chain(i) # 0 /\ Chain(i) \in DOMAIN nodes /\ S[Chain(i)] = i
  <2>1. i \in 0..Depth-1 /\ i \in 0..Depth
    BY <1>3, <1>4, <1>19
  <2>2. Chain(i) # 0
    BY <1>1, <2>1 DEF ChainInv
  <2> QED BY <1>1, <1>2, <2>1, <2>2 DEF ChainInv, TreeSays, Marked
<1>20. Marked(T)'
  <2>1. ASSUME NEW n \in DOMAIN nodes'
        PROVE  /\ T[n] >= -1 /\ T[n] <= d
               /\ nodes'[n].next # 0 => T[nodes'[n].next] = T[n]
               /\ nodes'[n].child # 0 => T[nodes'[n].child] = -1
               /\ T[n] # -1 => n = Chain(T[n])' \/ nodes'[n].next # 0
    <3>1. CASE n = f
      BY <1>4, <1>6, <1>7, <1>15, <3>1
    <3>2. CASE n # f
      <4>1. n \in DOMAIN nodes /\ T[n] = S[n]
        BY <1>6, <1>15, <3>2
      <4>2. nodes'[n].child # 0 => T[nodes'[n].child] = -1
        BY <1>11, <1>15, <1>17, <4>1
      <4>3. CASE n = L
        <5>1. nodes'[n].next = f /\ f # 0 /\ S[n] = d
          BY <1>6, <1>9, <1>10, <4>1, <4>3
        <5> QED BY <1>15, <1>17, <4>1, <4>2, <5>1
      <4>4. CASE n # L
        <5>1. nodes'[n].next = nodes[n].next
          BY <1>11, <4>1, <4>4
        <5>2. nodes[n].next # 0 => T[nodes[n].next] = T[n]
          BY <1>15, <1>17, <4>1
        <5>3. T[n] # -1 => n = Chain(T[n])' \/ nodes[n].next # 0
          <6>1. CASE S[n] = d
            BY <1>3, <1>17, <4>1, <4>4, <6>1
          <6>2. CASE S[n] # d
            BY <1>6, <1>17, <4>1, <6>2
          <6> QED BY <6>1, <6>2
        <5> QED BY <1>17, <4>1, <4>2, <5>1, <5>2, <5>3
      <4> QED BY <4>3, <4>4
    <3> QED BY <3>1, <3>2
  <2>2. ASSUME NEW i \in 0..d, Chain(i)' # 0
        PROVE  T[Chain(i)'] = i
    <3>1. CASE i = d
      BY <1>6, <1>15, <3>1
    <3>2. CASE i # d
      BY <1>6, <1>15, <1>19, <3>2
    <3> QED BY <3>1, <3>2
  <2>3. ASSUME NEW i \in 1..d, stack'[i].head # 0
        PROVE  T[stack'[i].head] = i
    <3>1. CASE i = d
      <4>1. CASE L = 0
        BY <1>6, <1>15, <3>1, <4>1
      <4>2. CASE L # 0
        <5>1. stack'[i].head = stack[i].head
          BY <1>6, <3>1, <4>2
        <5> QED BY <1>15, <1>18, <2>3, <5>1
      <4> QED BY <4>1, <4>2
    <3>2. CASE i # d
      <4>1. stack'[i].head = stack[i].head
        BY <1>6, <3>2
      <4> QED BY <1>15, <1>18, <2>3, <4>1
    <3> QED BY <3>1, <3>2
  <2> QED BY <1>4, <1>15, <2>1, <2>2, <2>3 DEF Marked
<1>21. Doubly(T)'
  <2>1. ASSUME NEW n \in DOMAIN nodes'
        PROVE  /\ nodes'[n].next # 0 => nodes'[nodes'[n].next].prev = n
               /\ nodes'[n].child # 0 =>
                    /\ nodes'[nodes'[n].child].prev \in DOMAIN nodes'
                    /\ T[nodes'[nodes'[n].child].prev] = -1
                    /\ nodes'[nodes'[nodes'[n].child].prev].next = 0
    <3>1. CASE n = f
      BY <1>7, <3>1
    <3>2. CASE n # f
      <4>1. n \in DOMAIN nodes
        BY <1>6, <3>2
      <4>2. /\ nodes[n].next # 0 => nodes[nodes[n].next].prev = n
            /\ nodes[n].child # 0 =>
                 /\ nodes[nodes[n].child].prev \in DOMAIN nodes
                 /\ S[nodes[nodes[n].child].prev] = -1
                 /\ nodes[nodes[nodes[n].child].prev].next = 0
        BY <1>2, <4>1 DEF TreeSays, Doubly
      <4>3. nodes'[n].next # 0 => nodes'[nodes'[n].next].prev = n
        <5>1. CASE n = L
          BY <1>7, <1>9, <1>10, <4>1, <5>1
        <5>2. CASE n # L
          BY <1>11, <1>17, <4>1, <4>2, <5>2
        <5> QED BY <5>1, <5>2
      <4>4. ASSUME nodes'[n].child # 0
            PROVE  /\ nodes'[nodes'[n].child].prev \in DOMAIN nodes'
                   /\ T[nodes'[nodes'[n].child].prev] = -1
                   /\ nodes'[nodes'[nodes'[n].child].prev].next = 0
        <5> DEFINE k == nodes[n].child
                   p == nodes[k].prev
        <5>1. nodes'[n].child = k /\ k # 0 /\ k \in DOMAIN nodes
          BY <1>11, <1>17, <4>1, <4>4
        <5>2. nodes'[k].prev = p
          BY <1>11, <5>1
        <5>3. p \in DOMAIN nodes /\ S[p] = -1 /\ nodes[p].next = 0
          BY <4>2, <5>1
        <5> HIDE DEF k, p
        <5>4. p # L
          <6>1. L # 0 => S[L] # -1
            BY <1>4, <1>10
          <6> QED BY <1>9, <5>3, <6>1
        <5>5. T[p] = -1 /\ nodes'[p].next = 0 /\ p \in DOMAIN nodes'
          BY <1>6, <1>11, <1>15, <5>3, <5>4
        <5> QED BY <5>1, <5>2, <5>5
      <4> QED BY <4>3, <4>4
    <3> QED BY <3>1, <3>2
  <2>2. ASSUME NEW i \in 1..d, stack'[i].head # 0
        PROVE  nodes'[stack'[i].head].prev = 0
    <3>1. CASE i = d /\ L = 0
      BY <1>6, <1>7, <3>1
    <3>2. CASE ~(i = d /\ L = 0)
      <4>1. stack'[i].head = stack[i].head
        BY <1>6, <3>2
      <4>2. stack[i].head \in DOMAIN nodes
        BY <1>18, <2>2, <4>1
      <4>3. nodes[stack[i].head].prev = 0
        BY <1>2, <1>3, <2>2, <4>1 DEF TreeSays, Doubly
      <4> QED BY <1>11, <4>1, <4>2, <4>3
    <3> QED BY <3>1, <3>2
  <2> QED BY <1>4, <2>1, <2>2 DEF Doubly
<1>22. \A n \in DOMAIN nodes :
         /\ Name(nodes', strings', n) = Name(nodes, strings, n)
         /\ Value(nodes', strings', V, n) = Value(nodes, strings, W, n)
  <2> SUFFICES ASSUME NEW n \in DOMAIN nodes
               PROVE  /\ Name(nodes', strings', n) = Name(nodes, strings, n)
                      /\ Value(nodes', strings', V, n) = Value(nodes, strings, W, n)
    OBVIOUS
  <2>1. Name(nodes', strings', n) = Name(nodes, strings, n)
    BY <1>4, <1>11 DEF Name
  <2>2. nodes[n].child # 0 => V[nodes[n].child] = W[nodes[n].child]
    <3>1. -1 # d
      BY <1>4
    <3> QED BY <1>16, <1>17, <3>1
  <2>3. Value(nodes', strings', V, n) = Value(nodes, strings, W, n)
    BY <1>4, <1>11, <2>2 DEF Value
  <2> QED BY <2>1, <2>3
<1>23. Spelt(T, V)'
  <2>1. Ends(T, f)'
    <3>1. d # -1
      BY <1>4
    <3> QED BY <1>6, <1>15, <3>1 DEF Ends
  <2>2. ASSUME NEW n \in DOMAIN nodes
        PROVE  V[n] = IF Ends(T, n)' THEN <<>>
                      ELSE Whole(nodes', strings', V, n) \o Rest(nodes', V, n)
    <3>1. T[n] = S[n]
      BY <1>15
    <3> DEFINE whole == Whole(nodes, strings, W, n)
    <3>2. Whole(nodes', strings', V, n) = whole /\ whole \in Seq(Words)
      BY <1>8, <1>22, SpeltInWords DEF Whole
    <3>3. <<",">> \in Seq(Words)
      BY WordKinds, FewWords
    <3>4. W[n] = IF Ends(S, n) THEN <<>> ELSE whole \o Rest(nodes, W, n)
      BY <1>2 DEF TreeSays, Spelt
    <3> HIDE DEF whole
    <3>5. CASE n = L
      <4>1. L # 0 /\ L \in DOMAIN nodes /\ S[L] = d /\ nodes'[L].next = f
        BY <1>9, <1>10, <3>5
      <4>2. Ends(S, L)
        <5>1. d # -1
          BY <1>4
        <5> QED BY <1>3, <4>1, <5>1 DEF Ends
      <4>3. W[L] = <<>>
        BY <3>4, <3>5, <4>2
      <4>4. V[L] = X
        <5>1. V[L] = <<>> \o X
          BY <1>16, <4>1, <4>3
        <5> QED BY <1>13, <5>1, ConcatEmptySeq
      <4>5. ~Ends(T, n)'
        <5>1. n # f
          BY <1>6
        <5> QED BY <1>6, <3>1, <3>5, <4>1, <5>1 DEF Ends
      <4>6. X = whole \o <<",">>
        BY <1>12, <3>5, <4>1 DEF whole
      <4>7. Rest(nodes', V, n) = <<",">> \o <<>>
        BY <1>6, <1>16, <3>5, <4>1 DEF Rest
      <4>8. Rest(nodes', V, n) = <<",">>
        BY <3>3, <4>7, ConcatEmptySeq
      <4> QED BY <3>2, <3>5, <4>4, <4>5, <4>6, <4>8
    <3>6. CASE n # L
      <4>1. nodes'[n].next = nodes[n].next
        BY <1>11, <3>6
      <4>2. Ends(T, n)' <=> Ends(S, n)
        <5>1. CASE S[n] = d
          <6>1. n # f
            BY <1>6
          <6>2. ~Ends(T, n)'
            BY <1>6, <3>1, <5>1, <6>1 DEF Ends
          <6>3. ~Ends(S, n)
            BY <1>3, <3>6, <5>1 DEF Ends
          <6> QED BY <6>2, <6>3
        <5>2. CASE S[n] # d
          <6>1. S[n] # -1 => Chain(S[n])' = Chain(S[n])
            BY <1>6, <1>17, <5>2
          <6> QED BY <3>1, <6>1 DEF Ends
        <5> QED BY <5>1, <5>2
      <4>3. CASE S[n] = d
        <5>1. nodes[n].next # 0 /\ ~Ends(S, n)
          <6>1. d # -1
            BY <1>4
          <6> QED BY <1>3, <1>17, <3>6, <4>3, <6>1 DEF Ends
        <5> DEFINE r == W[nodes[n].next]
        <5>2. /\ nodes[n].next \in DOMAIN nodes /\ S[nodes[n].next] = d
              /\ r \in Seq(Words)
          BY <1>8, <1>17, <4>3, <5>1 DEF Spelling
        <5>3. V[nodes[n].next] = r \o X
          BY <1>16, <5>2
        <5>4. Rest(nodes', V, n) = <<",">> \o (r \o X)
          BY <4>1, <5>1, <5>3 DEF Rest
        <5>5. W[n] = whole \o (<<",">> \o r)
          BY <3>4, <5>1 DEF Rest
        <5>6. V[n] = W[n] \o X
          BY <1>16, <4>3
        <5> DEFINE c == <<",">>
        <5> HIDE DEF r, c
        <5>7. c \in Seq(Words)
          BY <3>3 DEF c
        <5>8. (whole \o (c \o r)) \o X = whole \o (c \o (r \o X))
          <6>1. (whole \o (c \o r)) \o X = whole \o ((c \o r) \o X)
            <7>1. c \o r \in Seq(Words)
              BY <5>2, <5>7, Joined
            <7> QED BY <1>13, <3>2, <7>1, ConcatAssociative
          <6>2. (c \o r) \o X = c \o (r \o X)
            BY <1>13, <5>2, <5>7, ConcatAssociative
          <6> QED BY <6>1, <6>2
        <5> QED BY <3>2, <4>2, <5>1, <5>4, <5>5, <5>6, <5>8 DEF c
      <4>4. CASE S[n] # d
        <5>1. V[n] = W[n]
          BY <1>16, <4>4
        <5>2. Rest(nodes', V, n) = Rest(nodes, W, n)
          <6>1. nodes[n].next # 0 => V[nodes[n].next] = W[nodes[n].next]
            BY <1>16, <1>17, <4>4
          <6> QED BY <4>1, <6>1 DEF Rest
        <5> QED BY <3>2, <3>4, <4>2, <5>1, <5>2
      <4> QED BY <4>3, <4>4
    <3> QED BY <3>5, <3>6
  <2> QED BY <1>6, <1>16, <2>1, <2>2 DEF Spelt
<1>24. PICK op : op = <<Opener(stack[d].object)>>
  OBVIOUS
<1>25. op \in Seq(Words)
  BY <1>24, WordKinds, FewWords
<1>26. PICK H : H = IF stack[d].head = 0 THEN <<>> ELSE W[stack[d].head]
  OBVIOUS
<1>27. H \in Seq(Words)
  <2>1. CASE stack[d].head = 0
    BY <1>26, <2>1, NoWords
  <2>2. CASE stack[d].head # 0
    BY <1>8, <1>18, <1>26, <2>2 DEF Spelling
  <2> QED BY <2>1, <2>2
<1>28. Begun(V, d)' = op \o (H \o X)
  <2>1. Name(nodes', strings', f) = <<>>
    BY <1>7 DEF Name
  <2>2. (IF stack'[d].head = 0 THEN <<>> ELSE V[stack'[d].head] \o <<>>) = H \o X
    <3>1. CASE L = 0
      <4>1. H = <<>> /\ X = <<>> /\ V[stack'[d].head] = <<>> /\ stack'[d].head # 0
        BY <1>4, <1>6, <1>12, <1>16, <1>26, <3>1
      <4> QED BY <4>1, NoWords, ConcatEmptySeq
    <3>2. CASE L # 0
      <4>1. stack'[d].head = stack[d].head /\ stack[d].head # 0
        BY <1>4, <1>6, <3>2
      <4>2. V[stack[d].head] = W[stack[d].head] \o X /\ H = W[stack[d].head]
        BY <1>8, <1>16, <1>18, <1>26, <4>1
      <4>3. H \o X \in Seq(Words)
        BY <1>13, <1>27, Joined
      <4> QED BY <4>1, <4>2, <4>3, ConcatEmptySeq
    <3> QED BY <3>1, <3>2
  <2> QED BY <1>4, <1>6, <1>24, <2>1, <2>2 DEF Begun
<1>29. \A i \in 1..d : i # d => Begun(V, i)' = Begun(W, i)
  <2> SUFFICES ASSUME NEW i \in 1..d, i # d
               PROVE  Begun(V, i)' = Begun(W, i)
    OBVIOUS
  <2>1. i \in 0..d /\ stack'[i] = stack[i] /\ Chain(i)' = Chain(i)
    BY <1>6
  <2>2. Name(nodes', strings', Chain(i)) = Name(nodes, strings, Chain(i))
    BY <1>19, <1>22, <2>1
  <2>3. stack[i].head # 0 => V[stack[i].head] = W[stack[i].head]
    BY <1>16, <1>18
  <2> QED BY <2>1, <2>2, <2>3 DEF Begun
<1>30. PICK a : a = B[d - 1]
  OBVIOUS
<1>31. a \in Seq(Words) /\ B \in [0..d -> Seq(Words)]
  <2>1. B \in [0..d -> Seq(Words)]
    BY <1>2, <1>3 DEF TreeSays, Beginnings
  <2> QED BY <1>4, <1>30, <2>1
<1>32. a \o (op \o (H \o X)) \in Seq(Words)
  BY <1>13, <1>25, <1>27, <1>31, Joined
<1>33. PICK C : C = [B EXCEPT ![d] = a \o (op \o (H \o X))]
  OBVIOUS
<1>34. /\ C \in [0..d -> Seq(Words)] /\ C[d] = a \o (op \o (H \o X))
       /\ \A i \in 0..d : i # d => C[i] = B[i]
  BY <1>8, <1>31, <1>32, <1>33
<1>35. Beginnings(V, C)'
  <2>1. C[0] = <<>>
    BY <1>2, <1>4, <1>34 DEF TreeSays, Beginnings
  <2>2. ASSUME NEW i \in 1..d
        PROVE  C[i] = C[i - 1] \o Begun(V, i)'
    <3>1. C[i - 1] = B[i - 1]
      BY <1>4, <1>34
    <3>2. CASE i = d
      BY <1>28, <1>30, <1>34, <3>1, <3>2
    <3>3. CASE i # d
      <4>1. C[i] = B[i] /\ Begun(V, i)' = Begun(W, i)
        BY <1>29, <1>34, <3>3
      <4>2. B[i] = B[i - 1] \o Begun(W, i)
        BY <1>2, <1>3 DEF TreeSays, Beginnings
      <4> QED BY <3>1, <4>1, <4>2
    <3> QED BY <3>2, <3>3
  <2> QED BY <1>4, <1>34, <2>1, <2>2 DEF Beginnings
<1>36. Significant[pos] = C[d]
  <2>1. Significant[pos] = IF stack[d].head = 0 THEN B[d]
                           ELSE (B[d] \o LastValue(W)) \o <<",">>
    BY <1>1, <1>2, <1>3 DEF TreeSays, ReadSoFar, Top
  <2>2. B[d] = a \o Begun(W, d)
    BY <1>2, <1>3, <1>8, <1>30 DEF TreeSays, Beginnings
  <2>3. CASE L = 0
    <3>1. stack[d].head = 0 /\ H = <<>> /\ X = <<>>
      BY <1>4, <1>12, <1>26, <2>3
    <3>2. Begun(W, d) = op \o <<>>
      BY <1>24, <3>1 DEF Begun
    <3>3. H \o X = <<>>
      BY <3>1, NoWords, ConcatEmptySeq
    <3> QED BY <1>34, <2>1, <2>2, <3>1, <3>2, <3>3
  <2>4. CASE L # 0
    <3>1. stack[d].head # 0 /\ H = W[stack[d].head] /\ L \in DOMAIN nodes
      BY <1>4, <1>10, <1>26, <2>4
    <3> DEFINE name == Name(nodes, strings, L)
               value == LastValue(W)
               c == <<",">>
    <3>2. Begun(W, d) = op \o (H \o name)
      BY <1>3, <1>24, <3>1 DEF Begun
    <3>3. X = (name \o value) \o c
      BY <1>3, <1>12, <2>4 DEF Whole, LastValue
    <3>4. name \in Seq(Words) /\ value \in Seq(Words) /\ c \in Seq(Words)
      BY <1>8, <3>1, SpeltInWords, WordKinds, FewWords
    <3> HIDE DEF name, value, c
    <3>5. Significant[pos] = ((a \o (op \o (H \o name))) \o value) \o c
      BY <2>1, <2>2, <3>1, <3>2 DEF value, c
    <3>6. PICK p, q, r, g : /\ p = H \o name /\ q = op \o p /\ r = a \o q
                            /\ g = value \o c
      OBVIOUS
    <3>7. p \in Seq(Words) /\ g \in Seq(Words)
      BY <1>27, <3>4, <3>6, Joined
    <3>8. q \in Seq(Words)
      BY <1>25, <3>6, <3>7, Joined
    <3>9. r \in Seq(Words)
      BY <1>31, <3>6, <3>8, Joined
    <3>10. (r \o value) \o c = r \o (value \o c)
      BY ONLY <3>4, <3>9, Associative
    <3>11. (a \o q) \o g = a \o (q \o g)
      BY ONLY <1>31, <3>7, <3>8, Associative
    <3>12. (op \o p) \o g = op \o (p \o g)
      BY ONLY <1>25, <3>7, Associative
    <3>13. (H \o name) \o g = H \o (name \o g)
      BY ONLY <1>27, <3>4, <3>7, Associative
    <3>14. (name \o value) \o c = name \o (value \o c)
      BY ONLY <3>4, Associative
    <3> QED BY <1>34, <3>3, <3>5, <3>6, <3>10, <3>11, <3>12, <3>13, <3>14
  <2> QED BY <2>3, <2>4
<1>37. ReadSoFar(V, C)'
  <2>1. /\ ParserTypeOK /\ pos \in Nat /\ AfterBom \in Nat /\ Len(text) \in Nat
        /\ pos >= AfterBom
    BY <1>2, TextEnds DEF ParserInv, AfterBom, TreeSays, ReadSoFar
  <2>2. AfterBom <= pos + 1 /\ pos + 1 <= Len(text) + 1 /\ pos + 1 \in Nat
        /\ (pos + 1) - 1 = pos
    BY <1>4, <2>1
  <2>3. SkipsTo(pos + 1, pos')
    BY <1>4 DEF SkipPast
  <2>4. /\ pos' \in Nat /\ pos + 1 <= pos'
        /\ Significant[pos' - 1] = Significant[pos]
    BY <2>1, <2>2, <2>3, SkippedOver
  <2>5. Significant' = Significant /\ AfterBom' = AfterBom
    BY <1>4, SameReading
  <2>6. pos' >= AfterBom'
    <3>1. pos' >= AfterBom
      BY <2>1, <2>4
    <3> QED BY <2>5, <3>1
  <2>7. Significant'[pos' - 1] = C[Depth']
    BY <1>4, <1>36, <2>4, <2>5
  <2>8. pc' \in {"name", "value"}
    BY <1>4
  <2> QED BY <2>6, <2>7, <2>8 DEF ReadSoFar
<1>38. nodes'[root'].string = 0
  <2>1. root \in DOMAIN nodes
    <3>1. Depth # 0
      BY <1>3, <1>4
    <3> QED BY <1>1, <3>1, RootLive
  <2>2. nodes[root].string = 0
    BY <1>2 DEF TreeSays
  <2> QED BY <1>4, <1>11, <2>1, <2>2
<1>39. TreeSays(T, V, C)'
  BY <1>20, <1>21, <1>23, <1>35, <1>37, <1>38 DEF TreeSays
<1> QED BY <1>39 DEF TreeInv

(***************************************************************************)
(* A list is complete: item C gets it.                                     *)
(***************************************************************************)
Completed(C, H, L, d, object) ==
    /\ DOMAIN nodes' = DOMAIN nodes
    /\ H \in DOMAIN nodes /\ C \in DOMAIN nodes /\ L \in DOMAIN nodes /\ C # H
    /\ \A n \in DOMAIN nodes :
         /\ nodes'[n].next = nodes[n].next
         /\ nodes'[n].valuestring = nodes[n].valuestring
         /\ nodes'[n].string = nodes[n].string
         /\ n # C => /\ nodes'[n].child = nodes[n].child
                     /\ nodes'[n].type = nodes[n].type
         /\ n # H => nodes'[n].prev = nodes[n].prev
    /\ nodes'[C].child = H
    /\ nodes'[C].type = (IF object THEN "Object" ELSE "Array")
    /\ nodes'[H].prev = L
    /\ \A i \in 1..d-1 : stack'[i] = stack[i]
    /\ \A i \in 0..d-1 : Chain(i)' = Chain(i)

LEMMA CloseCompletes ==
    ASSUME ParserInv, Close
    PROVE  /\ pc = "after" /\ pc' = "after" /\ Depth \in Nat /\ Depth > 0
           /\ Depth' = Depth - 1 /\ Top = stack[Depth] /\ Top.object \in BOOLEAN
           /\ Completed(Chain(Depth - 1), stack[Depth].head, Chain(Depth), Depth,
                        Top.object)
           /\ \E q \in pos..Len(text) : /\ SkipsTo(pos, q) /\ pos' = q + 1
                                        /\ text[q] = Closer(Top.object)
           /\ UNCHANGED <<root, strings, text, del, fresh, starved>>
<1> USE DEF ParserInv
<1> DEFINE L == Chain(Depth)
           C == Chain(Depth - 1)
           H == stack[Depth].head
           type == IF Top.object THEN "Object" ELSE "Array"
<1>1. PICK q \in pos..Len(text) :
        /\ Behind(q)
        /\ text[q] = Closer(Top.object)
        /\ nodes' = [nodes EXCEPT ![Top.head].prev = Top.last,
                                  ![Container].type = type,
                                  ![Container].child = Top.head]
        /\ stack' = Front(stack)
        /\ pos' = q + 1
        /\ pc' = "after"
        /\ UNCHANGED <<root, strings, fresh>> /\ Unchanged
  BY DEF Close, CloseAs
<1>2. /\ pc = "after" /\ Depth > 0 /\ del = <<>> /\ del' = del
      /\ ChainInv /\ Current /\ text' = text /\ starved' = starved
      /\ SkipsTo(pos, q)
  BY <1>1 DEF Behind, Placed, Reading, Unchanged
<1>3. /\ stack \in Seq(Frames) /\ Depth \in Nat /\ Depth = Len(stack)
      /\ DOMAIN stack = 1..Depth /\ Depth \in 1..Depth /\ Depth \in 0..Depth
      /\ Depth - 1 \in 0..Depth-1 /\ Depth - 1 \in 0..Depth
      /\ Depth - 1 < Depth
      /\ DOMAIN nodes \subseteq 1..fresh-1 /\ fresh \in Nat \ {0}
      /\ nodes \in [DOMAIN nodes -> Nodes]
  BY <1>2 DEF ParserTypeOK, Depth
<1>4. /\ L = Top.last /\ H = Top.head /\ Top = stack[Depth] /\ Top \in Frames
      /\ C = Container
  <2>1. Depth = 1 <=> Depth - 1 = 0
    BY <1>3
  <2> QED BY <1>2, <1>3, <2>1 DEF Chain, Top, Container
<1>5. /\ L # 0 /\ H # 0 /\ C # 0 /\ C < H
      /\ C \in DOMAIN nodes /\ L \in DOMAIN nodes
  BY <1>2, <1>3 DEF Current, ChainInv
<1>6. H \in DOMAIN nodes
  BY <1>3, <1>5, HeadLive
<1>7. /\ nodes' = [nodes EXCEPT ![H].prev = L, ![C].type = type, ![C].child = H]
      /\ C # H
  <2>1. L \in Nat /\ H \in Nat
    BY <1>4 DEF Frames
  <2>2. C \in Nat
    BY <1>3, <1>5
  <2>3. nodes' = [nodes EXCEPT ![H].prev = L, ![C].type = type, ![C].child = H]
    BY <1>1, <1>4
  <2> HIDE DEF L, C, H, type
  <2>4. C # H
    BY <1>5, <2>1, <2>2
  <2> QED BY <2>3, <2>4
<1> HIDE DEF L, C, H, type
<1>8. /\ DOMAIN nodes' = DOMAIN nodes
      /\ \A n \in DOMAIN nodes : /\ nodes'[n].next = nodes[n].next
                                 /\ nodes'[n].valuestring = nodes[n].valuestring
                                 /\ nodes'[n].string = nodes[n].string
                                 /\ n # C => /\ nodes'[n].child = nodes[n].child
                                             /\ nodes'[n].type = nodes[n].type
                                 /\ n # H => nodes'[n].prev = nodes[n].prev
      /\ nodes'[C].child = H /\ nodes'[C].type = type /\ nodes'[H].prev = L
  <2> DEFINE h == [nodes[H] EXCEPT !.prev = L]
             c == [nodes[C] EXCEPT !.type = type, !.child = H]
  <2>1. nodes[H] \in Nodes /\ nodes[C] \in Nodes
    BY <1>3, <1>5, <1>6
  <2>2. /\ h.next = nodes[H].next /\ h.child = nodes[H].child
        /\ h.valuestring = nodes[H].valuestring /\ h.string = nodes[H].string
        /\ h.type = nodes[H].type /\ h.prev = L
    BY <2>1 DEF Nodes
  <2>3. /\ c.next = nodes[C].next /\ c.child = H /\ c.type = type
        /\ c.valuestring = nodes[C].valuestring /\ c.string = nodes[C].string
        /\ c.prev = nodes[C].prev
    BY <2>1 DEF Nodes
  <2>4. nodes'[H] = h /\ nodes'[C] = c /\ DOMAIN nodes' = DOMAIN nodes
        /\ \A n \in DOMAIN nodes : n # H /\ n # C => nodes'[n] = nodes[n]
    BY <1>3, <1>5, <1>6, <1>7
  <2> HIDE DEF h, c
  <2>5. \A n \in DOMAIN nodes : /\ nodes'[n].next = nodes[n].next
                                /\ nodes'[n].valuestring = nodes[n].valuestring
                                /\ nodes'[n].string = nodes[n].string
                                /\ n # C => /\ nodes'[n].child = nodes[n].child
                                            /\ nodes'[n].type = nodes[n].type
                                /\ n # H => nodes'[n].prev = nodes[n].prev
    BY <2>2, <2>3, <2>4
  <2> QED BY <2>2, <2>3, <2>4, <2>5
<1>9. /\ Depth' = Depth - 1 /\ \A i \in 1..Depth-1 : stack'[i] = stack[i]
  BY <1>1, <1>2, <1>3, FrontFrames DEF Depth
<1>10. \A i \in 0..Depth-1 : Chain(i)' = Chain(i)
  BY <1>1, <1>3, <1>9 DEF Chain
<1>11. Completed(C, H, L, Depth, Top.object)
  BY <1>5, <1>6, <1>7, <1>8, <1>9, <1>10 DEF Completed, type
<1>12. Top.object \in BOOLEAN
  BY <1>4 DEF Frames
<1> QED BY <1>1, <1>2, <1>3, <1>4, <1>9, <1>11, <1>12 DEF L, C, H

LEMMA CloseTree == ParserInv /\ TreeInv /\ Close => TreeInv'
<1> SUFFICES ASSUME ParserInv, TreeInv, Close
             PROVE  TreeInv'
  OBVIOUS
<1>1. /\ pc = "after" /\ ChainInv /\ Current /\ Reading
  BY CloseCompletes DEF ParserInv, Reading
<1>2. PICK S, W, B : TreeSays(S, W, B)
  BY <1>1 DEF TreeInv, Telling
<1>3. PICK d, C, H, L, object :
        /\ d = Depth /\ C = Chain(Depth - 1) /\ H = stack[Depth].head
        /\ L = Chain(Depth) /\ object = Top.object
  OBVIOUS
<1>4. /\ d \in Nat /\ d > 0 /\ Depth' = d - 1 /\ object \in BOOLEAN /\ pc' = "after"
      /\ stack[d].object = object
      /\ UNCHANGED <<root, strings, text>>
  BY <1>3, CloseCompletes
<1>5. Completed(C, H, L, d, object)
  BY <1>3, CloseCompletes
<1>6. /\ DOMAIN nodes' = DOMAIN nodes
      /\ H \in DOMAIN nodes /\ C \in DOMAIN nodes /\ L \in DOMAIN nodes /\ C # H
      /\ nodes'[C].child = H /\ nodes'[H].prev = L
      /\ nodes'[C].type = (IF object THEN "Object" ELSE "Array")
      /\ \A i \in 1..d-1 : stack'[i] = stack[i]
      /\ \A i \in 0..d-1 : Chain(i)' = Chain(i)
  BY <1>5 DEF Completed
<1>7. \A n \in DOMAIN nodes :
         /\ nodes'[n].next = nodes[n].next
         /\ nodes'[n].valuestring = nodes[n].valuestring
         /\ nodes'[n].string = nodes[n].string
         /\ n # C => /\ nodes'[n].child = nodes[n].child
                     /\ nodes'[n].type = nodes[n].type
         /\ n # H => nodes'[n].prev = nodes[n].prev
  BY <1>5 DEF Completed
<1>8. /\ LiveLinks(nodes, strings) /\ W \in Spelling(nodes) /\ B[d] \in Seq(Words)
      /\ d \in 0..d /\ d \in 1..d /\ d - 1 \in 0..d /\ d - 1 \in 0..d-1
      /\ -1 # d /\ d - 1 # d /\ d - 1 # -1
      /\ LastValue(W) \in Seq(Words)
  BY <1>1, <1>2, <1>3, <1>4, <1>6, TreeTypes DEF Telling
<1>9. 0 \notin DOMAIN nodes
  BY <1>8 DEF LiveLinks
<1>10. /\ nodes[L].next = 0 /\ S[L] = d /\ S[H] = d
       /\ S[C] = d - 1
  <2>1. Chain(d) # 0 /\ stack[d].head # 0 /\ Chain(d - 1) # 0
    BY <1>3, <1>6, <1>9
  <2> QED BY <1>1, <1>2, <1>3, <1>8, <2>1 DEF ChainInv, TreeSays, Marked
<1>11. PICK X : X = Whole(nodes, strings, W, L)
  OBVIOUS
<1>12. X \in Seq(Words)
  BY <1>6, <1>8, <1>11, SpeltInWords
<1>13. PICK M : M = DOMAIN nodes
  OBVIOUS
<1> DEFINE T == [n \in M |-> IF S[n] = d THEN -1 ELSE S[n]]
           V == [n \in M |-> IF S[n] = d THEN W[n] \o X ELSE W[n]]
<1>14. ASSUME NEW n \in DOMAIN nodes
       PROVE  /\ S[n] >= -1 /\ S[n] <= d /\ S[n] \in Int
              /\ nodes[n].next # 0 => S[nodes[n].next] = S[n]
              /\ nodes[n].child # 0 => S[nodes[n].child] = -1
              /\ S[n] # -1 => n = Chain(S[n]) \/ nodes[n].next # 0
              /\ nodes[n].next # 0 => nodes[n].next \in DOMAIN nodes
              /\ nodes[n].child # 0 => nodes[n].child \in DOMAIN nodes
              /\ S[n] # -1 /\ S[n] # d => S[n] \in 0..d-1
  <2>1. /\ S[n] >= -1 /\ S[n] <= d /\ S[n] \in Int
        /\ nodes[n].next # 0 => S[nodes[n].next] = S[n]
        /\ nodes[n].child # 0 => S[nodes[n].child] = -1
        /\ S[n] # -1 => n = Chain(S[n]) \/ nodes[n].next # 0
    BY <1>2, <1>3 DEF TreeSays, Marked
  <2>2. /\ nodes[n].next # 0 => nodes[n].next \in DOMAIN nodes
        /\ nodes[n].child # 0 => nodes[n].child \in DOMAIN nodes
    BY <1>8 DEF LiveLinks
  <2> QED BY <1>4, <2>1, <2>2
<1>15. /\ \A n \in DOMAIN nodes : T[n] = IF S[n] = d THEN -1 ELSE S[n]
       /\ T \in [DOMAIN nodes -> Int]
  BY <1>13, <1>14
<1>16. /\ \A n \in DOMAIN nodes : V[n] = IF S[n] = d THEN W[n] \o X ELSE W[n]
       /\ V \in Spelling(nodes)
  <2>1. \A n \in DOMAIN nodes : V[n] = IF S[n] = d THEN W[n] \o X ELSE W[n]
    BY <1>13
  <2>2. \A n \in DOMAIN nodes : W[n] \in Seq(Words)
    BY <1>8 DEF Spelling
  <2>3. \A n \in DOMAIN nodes : W[n] \o X \in Seq(Words)
    BY <1>12, <2>2, Joined
  <2>4. DOMAIN V = DOMAIN nodes /\ V = [n \in DOMAIN V |-> V[n]]
    BY <1>13
  <2> HIDE DEF V
  <2>5. \A n \in DOMAIN nodes : V[n] \in Seq(Words)
    BY <2>1, <2>2, <2>3
  <2> QED BY <2>1, <2>4, <2>5 DEF Spelling
<1> HIDE DEF T, V
<1>17. ASSUME NEW i \in 1..d, stack[i].head # 0
       PROVE  stack[i].head \in DOMAIN nodes /\ S[stack[i].head] = i
  <2>1. stack[i].head \in DOMAIN nodes
    BY <1>3, <1>17, HeadLive
  <2>2. S[stack[i].head] = i
    BY <1>2, <1>3, <1>17 DEF TreeSays, Marked
  <2> QED BY <2>1, <2>2
<1>18. ASSUME NEW i \in 0..d-1
       PROVE  Chain(i) # 0 /\ Chain(i) \in DOMAIN nodes /\ S[Chain(i)] = i /\ i # d
  <2>1. i \in 0..Depth-1 /\ i \in 0..Depth
    BY <1>3, <1>4
  <2>2. Chain(i) # 0
    BY <1>1, <2>1 DEF ChainInv
  <2>3. i # d
    BY <1>4
  <2> QED BY <1>1, <1>2, <2>1, <2>2, <2>3 DEF ChainInv, TreeSays, Marked
<1>19. \A i \in 1..d-1 : i \in 1..d /\ i # d /\ i \in 0..d-1
  BY <1>4
<1>20. Marked(T)'
  <2>1. ASSUME NEW n \in DOMAIN nodes
        PROVE  /\ T[n] >= -1 /\ T[n] <= d - 1
               /\ nodes'[n].next # 0 => T[nodes'[n].next] = T[n]
               /\ nodes'[n].child # 0 => T[nodes'[n].child] = -1
               /\ T[n] # -1 => n = Chain(T[n])' \/ nodes'[n].next # 0
    <3>1. T[n] >= -1 /\ T[n] <= d - 1
      BY <1>4, <1>14, <1>15
    <3>2. nodes'[n].next # 0 => T[nodes'[n].next] = T[n]
      BY <1>7, <1>14, <1>15
    <3>3. nodes'[n].child # 0 => T[nodes'[n].child] = -1
      <4>1. CASE n = C
        BY <1>6, <1>10, <1>15, <4>1
      <4>2. CASE n # C
        BY <1>7, <1>14, <1>15, <4>2
      <4> QED BY <4>1, <4>2
    <3>4. T[n] # -1 => n = Chain(T[n])' \/ nodes'[n].next # 0
      <4> SUFFICES ASSUME T[n] # -1
                   PROVE  n = Chain(T[n])' \/ nodes'[n].next # 0
        OBVIOUS
      <4>1. T[n] = S[n] /\ S[n] # d /\ S[n] # -1 /\ S[n] \in 0..d-1
        BY <1>14, <1>15
      <4>2. Chain(T[n])' = Chain(S[n])
        BY <1>6, <4>1
      <4> QED BY <1>7, <1>14, <4>1, <4>2
    <3> QED BY <3>1, <3>2, <3>3, <3>4
  <2>2. ASSUME NEW i \in 0..d-1
        PROVE  T[Chain(i)'] = i
    BY <1>6, <1>15, <1>18
  <2>3. ASSUME NEW i \in 1..d-1, stack'[i].head # 0
        PROVE  T[stack'[i].head] = i
    <3>1. stack'[i] = stack[i] /\ i \in 1..d /\ i # d
      BY <1>6, <1>19
    <3> QED BY <1>15, <1>17, <2>3, <3>1
  <2> QED BY <1>4, <1>6, <1>15, <2>1, <2>2, <2>3 DEF Marked
<1>21. Doubly(T)'
  <2>1. ASSUME NEW n \in DOMAIN nodes
        PROVE  /\ nodes'[n].next # 0 => nodes'[nodes'[n].next].prev = n
               /\ nodes'[n].child # 0 =>
                    /\ nodes'[nodes'[n].child].prev \in DOMAIN nodes
                    /\ T[nodes'[nodes'[n].child].prev] = -1
                    /\ nodes'[nodes'[nodes'[n].child].prev].next = 0
    <3>1. /\ nodes[n].next # 0 => nodes[nodes[n].next].prev = n
          /\ nodes[n].child # 0 =>
               /\ nodes[nodes[n].child].prev \in DOMAIN nodes
               /\ S[nodes[nodes[n].child].prev] = -1
               /\ nodes[nodes[nodes[n].child].prev].next = 0
      BY <1>2 DEF TreeSays, Doubly
    <3>2. nodes'[n].next # 0 => nodes'[nodes'[n].next].prev = n
      <4> SUFFICES ASSUME nodes[n].next # 0
                   PROVE  nodes'[nodes[n].next].prev = n
        BY <1>7
      <4>1. nodes[H].prev = 0
        <5>1. stack[d].head # 0 /\ stack[d].head = H
          BY <1>3, <1>6, <1>9
        <5> QED BY <1>2, <1>3, <1>8, <5>1 DEF TreeSays, Doubly
      <4>2. nodes[n].next # H
        BY <1>9, <3>1, <4>1
      <4> QED BY <1>7, <1>14, <3>1, <4>2
    <3>3. ASSUME nodes'[n].child # 0
          PROVE  /\ nodes'[nodes'[n].child].prev \in DOMAIN nodes
                 /\ T[nodes'[nodes'[n].child].prev] = -1
                 /\ nodes'[nodes'[nodes'[n].child].prev].next = 0
      <4>1. CASE n = C
        <5>1. nodes'[n].child = H /\ nodes'[H].prev = L
          BY <1>6, <4>1
        <5>2. T[L] = -1 /\ nodes'[L].next = 0
          BY <1>6, <1>7, <1>10, <1>15
        <5> QED BY <1>6, <5>1, <5>2
      <4>2. CASE n # C
        <5> DEFINE k == nodes[n].child
                   p == nodes[k].prev
        <5>1. nodes'[n].child = k /\ k # 0 /\ k \in DOMAIN nodes /\ S[k] = -1
          BY <1>7, <1>14, <3>3, <4>2
        <5>2. p \in DOMAIN nodes /\ S[p] = -1 /\ nodes[p].next = 0
          BY <3>1, <5>1
        <5> HIDE DEF p
        <5>3. k # H
          BY <1>8, <1>10, <5>1
        <5>4. nodes'[k].prev = p
          BY <1>7, <5>1, <5>3 DEF p
        <5> HIDE DEF k
        <5>5. T[p] = -1 /\ nodes'[p].next = 0
          BY <1>7, <1>15, <5>2
        <5> QED BY <5>1, <5>2, <5>4, <5>5
      <4> QED BY <4>1, <4>2
    <3> QED BY <3>2, <3>3
  <2>2. ASSUME NEW i \in 1..d-1, stack'[i].head # 0
        PROVE  nodes'[stack'[i].head].prev = 0
    <3>1. stack'[i] = stack[i] /\ i \in 1..d /\ i # d
      BY <1>6, <1>19
    <3>2. stack[i].head \in DOMAIN nodes /\ S[stack[i].head] = i
      BY <1>17, <2>2, <3>1
    <3>3. stack[i].head # H
      BY <1>10, <3>1, <3>2
    <3>4. nodes[stack[i].head].prev = 0
      BY <1>2, <1>3, <2>2, <3>1 DEF TreeSays, Doubly
    <3> QED BY <1>7, <3>1, <3>2, <3>3, <3>4
  <2> QED BY <1>4, <1>6, <2>1, <2>2 DEF Doubly
<1>22. \A n \in DOMAIN nodes :
         /\ Name(nodes', strings', n) = Name(nodes, strings, n)
         /\ n # C => Value(nodes', strings', V, n) = Value(nodes, strings, W, n)
  <2> SUFFICES ASSUME NEW n \in DOMAIN nodes
               PROVE  /\ Name(nodes', strings', n) = Name(nodes, strings, n)
                      /\ n # C => Value(nodes', strings', V, n)
                                    = Value(nodes, strings, W, n)
    OBVIOUS
  <2>1. Name(nodes', strings', n) = Name(nodes, strings, n)
    BY <1>4, <1>7 DEF Name
  <2>2. nodes[n].child # 0 => V[nodes[n].child] = W[nodes[n].child]
    BY <1>8, <1>16, <1>14
  <2>3. n # C => Value(nodes', strings', V, n) = Value(nodes, strings, W, n)
    BY <1>4, <1>7, <2>2 DEF Value
  <2> QED BY <2>1, <2>3
<1>23. Spelt(T, V)'
  <2>2. ASSUME NEW n \in DOMAIN nodes
        PROVE  V[n] = IF Ends(T, n)' THEN <<>>
                      ELSE Whole(nodes', strings', V, n) \o Rest(nodes', V, n)
    <3> DEFINE whole == Whole(nodes, strings, W, n)
    <3>1. whole \in Seq(Words)
      BY <1>8, SpeltInWords
    <3>2. n # C => Whole(nodes', strings', V, n) = whole
      BY <1>22 DEF Whole
    <3>3. <<",">> \in Seq(Words)
      BY WordKinds, FewWords
    <3>4. W[n] = IF Ends(S, n) THEN <<>> ELSE whole \o Rest(nodes, W, n)
      BY <1>2 DEF TreeSays, Spelt
    <3>5. nodes'[n].next = nodes[n].next
      BY <1>7
    <3>6. n = L => X = whole
      BY <1>11
    <3> HIDE DEF whole
    <3>7. CASE S[n] = d
      <4>1. n # C
        BY <1>8, <1>10, <3>7
      <4>2. T[n] = -1 /\ V[n] = W[n] \o X
        BY <1>15, <1>16, <3>7
      <4>3. ~Ends(T, n)'
        BY <4>2 DEF Ends
      <4>4. CASE n = L
        <5>1. Ends(S, L)
          BY <1>3, <1>8, <1>10 DEF Ends
        <5>2. V[n] = X
          BY <1>12, <3>4, <4>2, <4>4, <5>1, ConcatEmptySeq
        <5>3. Rest(nodes', V, n) = <<>>
          BY <1>10, <3>5, <4>4 DEF Rest
        <5>4. whole \o <<>> = whole
          BY <3>1, ConcatEmptySeq
        <5> QED BY <3>2, <3>6, <4>1, <4>3, <4>4, <5>2, <5>3, <5>4
      <4>5. CASE n # L
        <5>1. nodes[n].next # 0 /\ ~Ends(S, n)
          BY <1>3, <1>8, <1>14, <3>7, <4>5 DEF Ends
        <5> DEFINE r == W[nodes[n].next]
        <5>2. /\ nodes[n].next \in DOMAIN nodes /\ S[nodes[n].next] = d
              /\ r \in Seq(Words)
          BY <1>8, <1>14, <3>7, <5>1 DEF Spelling
        <5>3. V[nodes[n].next] = r \o X
          BY <1>16, <5>2
        <5>4. Rest(nodes', V, n) = <<",">> \o (r \o X)
          BY <3>5, <5>1, <5>3 DEF Rest
        <5>5. W[n] = whole \o (<<",">> \o r)
          BY <3>4, <5>1 DEF Rest
        <5> DEFINE c == <<",">>
        <5> HIDE DEF r, c
        <5>6. c \in Seq(Words)
          BY <3>3 DEF c
        <5>7. (whole \o (c \o r)) \o X = whole \o (c \o (r \o X))
          <6>1. PICK cr : cr = c \o r
            OBVIOUS
          <6>2. cr \in Seq(Words)
            BY <5>2, <5>6, <6>1, Joined
          <6>3. (whole \o cr) \o X = whole \o (cr \o X)
            BY ONLY <1>12, <3>1, <6>2, Associative
          <6>4. (c \o r) \o X = c \o (r \o X)
            BY ONLY <1>12, <5>2, <5>6, Associative
          <6> QED BY <6>1, <6>3, <6>4
        <5> QED BY <3>2, <4>1, <4>2, <4>3, <5>4, <5>5, <5>7 DEF c
      <4> QED BY <4>4, <4>5
    <3>8. CASE S[n] # d
      <4>1. T[n] = S[n] /\ V[n] = W[n]
        BY <1>15, <1>16, <3>8
      <4>2. Ends(T, n)' <=> Ends(S, n)
        <5>1. S[n] # -1 => Chain(S[n])' = Chain(S[n])
          BY <1>6, <1>14, <3>8
        <5> QED BY <4>1, <5>1 DEF Ends
      <4>3. Rest(nodes', V, n) = Rest(nodes, W, n)
        <5>1. nodes[n].next # 0 => V[nodes[n].next] = W[nodes[n].next]
          BY <1>14, <1>16, <3>8
        <5> QED BY <3>5, <5>1 DEF Rest
      <4>4. n = C => Ends(S, n)
        BY <1>3, <1>8, <1>10 DEF Ends
      <4> QED BY <3>2, <3>4, <4>1, <4>2, <4>3, <4>4
    <3> QED BY <3>7, <3>8
  <2>3. V \in Spelling(nodes')
    BY <1>6, <1>16 DEF Spelling
  <2> QED BY <1>6, <2>2, <2>3 DEF Spelt
<1>24. /\ \A i \in 1..d-1 : Begun(V, i)' = Begun(W, i)
  <2> SUFFICES ASSUME NEW i \in 1..d-1
               PROVE  Begun(V, i)' = Begun(W, i)
    OBVIOUS
  <2>1. i \in 0..d-1 /\ i \in 1..d /\ i # d
    BY <1>19
  <2>2. stack'[i] = stack[i] /\ Chain(i)' = Chain(i)
    BY <1>6, <2>1
  <2>3. Name(nodes', strings', Chain(i)) = Name(nodes, strings, Chain(i))
    BY <1>18, <1>22, <2>1
  <2>4. stack[i].head # 0 => V[stack[i].head] = W[stack[i].head]
    BY <1>16, <1>17, <2>1
  <2> QED BY <2>2, <2>3, <2>4 DEF Begun
<1>25. PICK A : A = [i \in 0..d-1 |-> B[i]]
  OBVIOUS
<1>26. B \in [0..d -> Seq(Words)]
  BY <1>2, <1>3 DEF TreeSays, Beginnings
<1>27. /\ A \in [0..d-1 -> Seq(Words)]
       /\ \A i \in 0..d-1 : A[i] = B[i]
  <2>1. \A i \in 0..d-1 : i \in 0..d
    BY <1>4
  <2> QED BY <1>25, <1>26, <2>1
<1>28. Beginnings(V, A)'
  <2>1. A[0] = <<>>
    <3>1. 0 \in 0..d-1
      BY <1>4
    <3> QED BY <1>2, <1>27, <3>1 DEF TreeSays, Beginnings
  <2>2. ASSUME NEW i \in 1..d-1
        PROVE  A[i] = A[i - 1] \o Begun(V, i)'
    <3>1. i \in 0..d-1 /\ i - 1 \in 0..d-1 /\ i \in 1..d
      BY <1>4
    <3>2. B[i] = B[i - 1] \o Begun(W, i)
      BY <1>2, <1>3, <3>1 DEF TreeSays, Beginnings
    <3> QED BY <1>24, <1>27, <3>1, <3>2
  <2> QED BY <1>4, <1>27, <2>1, <2>2 DEF Beginnings
<1>29. PICK q \in pos..Len(text) : /\ SkipsTo(pos, q) /\ pos' = q + 1
                                   /\ text[q] = Closer(object)
  BY <1>3, CloseCompletes
<1>30. /\ q \in Nat /\ q >= AfterBom /\ q + 1 \in Nat /\ (q + 1) - 1 = q
       /\ q + 1 >= AfterBom
       /\ Significant[q] = (B[d] \o LastValue(W)) \o <<Closer(object)>>
  <2>1. /\ ParserTypeOK /\ pos \in Nat /\ AfterBom \in Nat /\ Len(text) \in Nat
        /\ pos <= Len(text) + 1
    BY TextEnds DEF ParserInv, AfterBom
  <2>2. pos >= AfterBom /\ Significant[pos - 1] = B[d] \o LastValue(W)
    BY <1>1, <1>2, <1>3 DEF TreeSays, ReadSoFar
  <2>3. q \in Nat /\ pos <= q /\ q <= Len(text)
    BY <2>1
  <2>4. Significant[q - 1] = Significant[pos - 1]
    BY <1>29, <2>1, <2>2, SkippedOver
  <2>5. text[q] \notin Blanks
    BY <1>29, NotBlank DEF Closer
  <2>6. q >= AfterBom
    BY <2>1, <2>2, <2>3
  <2>7. Significant[q] = Significant[q - 1] \o <<text[q]>>
    BY <2>1, <2>3, <2>5, <2>6, OneMore
  <2> QED BY <1>29, <2>1, <2>2, <2>3, <2>4, <2>6, <2>7
<1>31. PICK op, cl, head, name, value, a :
         /\ op = <<Opener(object)>> /\ cl = <<Closer(object)>>
         /\ head = W[H] /\ name = Name(nodes, strings, L)
         /\ value = LastValue(W) /\ a = B[d - 1]
  OBVIOUS
<1>32. /\ op \in Seq(Words) /\ cl \in Seq(Words) /\ head \in Seq(Words)
       /\ name \in Seq(Words) /\ value \in Seq(Words) /\ a \in Seq(Words)
  <2>1. op \in Seq(Words) /\ cl \in Seq(Words)
    BY <1>31, WordKinds, FewWords
  <2>2. head \in Seq(Words)
    BY <1>6, <1>8, <1>31 DEF Spelling
  <2>3. name \in Seq(Words)
    BY <1>6, <1>8, <1>31, SpeltInWords
  <2>4. a \in Seq(Words)
    BY <1>8, <1>26, <1>31
  <2> QED BY <1>8, <1>31, <2>1, <2>2, <2>3, <2>4
<1>33. Value(nodes', strings', V, C) = (op \o (head \o X)) \o cl
  <2>1. H # 0 /\ V[H] = head \o X
    BY <1>6, <1>9, <1>10, <1>16, <1>31
  <2> DEFINE type == IF object THEN "Object" ELSE "Array"
  <2>2. type \in {"Object", "Array"} /\ type # "String" /\ (type = "Object") = object
    BY <1>4
  <2>3. nodes'[C].type = type /\ nodes'[C].child = H
    BY <1>6
  <2> HIDE DEF type
  <2> QED BY <1>31, <2>1, <2>2, <2>3 DEF Value
<1>34. Significant[q] = a \o Value(nodes', strings', V, C)
  <2>1. B[d] = a \o (op \o (head \o name))
    <3>1. stack[d].head # 0 /\ stack[d].head = H
      BY <1>3, <1>6, <1>9
    <3>2. Begun(W, d) = op \o (head \o name)
      BY <1>3, <1>4, <1>31, <3>1 DEF Begun
    <3>3. B[d] = a \o Begun(W, d)
      BY <1>2, <1>3, <1>8, <1>31 DEF TreeSays, Beginnings
    <3> QED BY <3>2, <3>3
  <2>2. X = name \o value
    BY <1>3, <1>11, <1>31 DEF Whole, LastValue
  <2>3. PICK p, r, y, z : /\ p = head \o name /\ r = op \o p
                          /\ y = head \o X /\ z = op \o y
    OBVIOUS
  <2>4. p \in Seq(Words) /\ y \in Seq(Words)
    BY <1>12, <1>32, <2>3, Joined
  <2>5. r \in Seq(Words) /\ z \in Seq(Words)
    BY <1>32, <2>3, <2>4, Joined
  <2>6. (head \o name) \o value = head \o (name \o value)
    BY ONLY <1>32, Associative
  <2>7. (op \o p) \o value = op \o (p \o value)
    <3>1. op \in Seq(Words) /\ p \in Seq(Words) /\ value \in Seq(Words)
      BY <1>32, <2>4
    <3> QED BY ONLY <3>1, Associative
  <2>8. (a \o r) \o value = a \o (r \o value)
    BY ONLY <1>32, <2>5, Associative
  <2>9. (a \o z) \o cl = a \o (z \o cl)
    BY ONLY <1>32, <2>5, Associative
  <2>10. (a \o r) \o value = a \o z
    BY <2>2, <2>3, <2>6, <2>7, <2>8
  <2>11. Significant[q] = ((a \o r) \o value) \o cl
    BY <1>30, <1>31, <2>1, <2>3
  <2> QED BY <1>33, <2>3, <2>9, <2>10, <2>11
<1>35. ReadSoFar(V, A)'
  <2>1. Significant' = Significant /\ AfterBom' = AfterBom
    BY <1>4, SameReading
  <2>2. pos' = q + 1 /\ pos' >= AfterBom /\ pos' - 1 = q
    BY <1>29, <1>30
  <2>3. LastValue(V)' = Value(nodes', strings', V, C)
    <3>1. Chain(Depth)' = C
      BY <1>3, <1>4, <1>6, <1>8
    <3> QED BY <3>1 DEF LastValue
  <2>4. A[Depth'] = a
    BY <1>4, <1>8, <1>27, <1>31
  <2>5. Significant'[pos' - 1] = A[Depth'] \o LastValue(V)'
    BY <1>34, <2>1, <2>2, <2>3, <2>4
  <2>6. pos' >= AfterBom'
    BY <2>1, <2>2
  <2> QED BY <1>4, <2>5, <2>6 DEF ReadSoFar
<1>36. nodes'[root'].string = 0
  <2>1. root \in DOMAIN nodes
    <3>1. Depth # 0
      BY <1>3, <1>4
    <3> QED BY <1>1, <3>1, RootLive
  <2>2. nodes[root].string = 0
    BY <1>2 DEF TreeSays
  <2> QED BY <1>4, <1>7, <2>1, <2>2
<1>37. TreeSays(T, V, A)'
  BY <1>20, <1>21, <1>23, <1>28, <1>35, <1>36 DEF TreeSays
<1> QED BY <1>37 DEF TreeInv

\* Nothing is behind the root.
RootLast == pc = "done" /\ root # 0 => nodes[root].next = 0

Tree == TreeInv /\ RootLast

LEMMA NotTelling ==
    ASSUME pc \notin {"value", "element", "name", "colon", "after"}, pc = "done" => root = 0
    PROVE  Tree
BY DEF Tree, TreeInv, Telling, Reading, RootLast

LEMMA TreeStep == ParserInv /\ Tree /\ [ParserNext]_parserVars => Tree'
<1> SUFFICES ASSUME ParserInv, Tree, [ParserNext]_parserVars
             PROVE  Tree'
  OBVIOUS
<1>0. TreeInv
  BY DEF Tree
<1>1. CASE \/ Begin \/ ReadPlain \/ ReadString \/ OpenEmpty \/ Open
           \/ NextElement \/ ReadName \/ ReadColon \/ Comma \/ Close
  <2>1. TreeInv'
    BY <1>0, <1>1, BeginTree, ReadPlainTree, ReadStringTree, OpenEmptyTree, OpenTree,
       NextElementTree, ReadNameTree, ReadColonTree, CommaTree, CloseTree
  <2>2. pc' # "done"
    <3>1. pc' \in {"value", "after", "element", "name", "colon"}
      BY <1>1 DEF Begin, ReadPlain, ReadString, OpenEmpty, Open, NextElement, AddElement,
                  ReadName, ReadNameLeaving, ReadColon, Comma, Close, CloseAs
    <3> QED BY <3>1
  <2> QED BY <2>1, <2>2 DEF Tree, RootLast
<1>2. CASE Finish
  <2>1. TreeInv'
    BY <1>0, <1>2, FinishTree
  <2>2. pc = "after" /\ Depth = 0 /\ UNCHANGED <<root, nodes>>
    BY <1>2 DEF Finish
  <2>3. Chain(0) # 0 => nodes[Chain(0)].next = 0
    <3>1. 0 \in 0..Depth /\ ChainInv
      BY <2>2 DEF ParserInv, Reading
    <3> QED BY <3>1 DEF ChainInv
  <2>4. RootLast'
    BY <2>2, <2>3 DEF RootLast, Chain
  <2> QED BY <2>1, <2>4 DEF Tree
<1>3. CASE Starve \/ Refuse \/ Unwind \/ DeleteRoot
  <2>1. pc' = "fail"
    BY <1>3 DEF Starve, Refuse, Fails, Unwind, UnwindWith, DeleteRoot, Failing
  <2> QED BY <2>1 DEF Tree, TreeInv, Telling, Reading, RootLast
<1>4. CASE ReturnNull
  <2>1. pc' = "done" /\ root' = 0
    BY <1>4 DEF ReturnNull
  <2> QED BY <2>1 DEF Tree, TreeInv, Telling, Reading, RootLast
<1>5. CASE DeleteChild \/ DeleteItem \/ DeleteReturns
  <2>1. pc' = pc /\ pc = "fail"
    BY <1>5 DEF DeleteChild, DeleteItem, DeleteReturns, Deleting, ParserInv, Placed
  <2> QED BY <2>1 DEF Tree, TreeInv, Telling, Reading, RootLast
<1>6. CASE UNCHANGED parserVars
  <2>1. Telling' = Telling /\ RootLast' = RootLast
    BY <1>6 DEF Telling, Reading, RootLast, parserVars
  <2>2. ASSUME Telling
        PROVE  \E S, W, B : TreeSays(S, W, B)'
    <3>1. PICK S, W, B : TreeSays(S, W, B)
      BY <1>0, <2>2 DEF TreeInv
    <3>2. ReadSoFar(W, B)'
      <4>1. /\ Depth' = Depth /\ Significant' = Significant /\ AfterBom' = AfterBom
            /\ LastValue(W)' = LastValue(W) /\ Top' = Top
        BY <1>6, SameReading DEF Depth, LastValue, Chain, Top, parserVars
      <4>2. pc' = pc /\ pos' = pos
        BY <1>6 DEF parserVars
      <4> QED BY <3>1, <4>1, <4>2 DEF TreeSays, ReadSoFar
    <3>3. TreeSays(S, W, B)'
      BY <1>6, <3>1, <3>2, QuietTree DEF parserVars
    <3> QED BY <3>3
  <2> QED BY <1>6, <2>1, <2>2 DEF Tree, TreeInv
<1> QED BY <1>1, <1>2, <1>3, <1>4, <1>5, <1>6 DEF ParserNext

\* The equation that Rendered solves.
Told(h, s, g, n) ==
    IF n \notin DOMAIN h THEN <<>> ELSE Whole(h, s, g, n) \o Rest(h, g, n)

Tells(h, s, g) == g = [n \in Nat |-> Told(h, s, g, n)]

\* It has at most one solution, because links lead to younger items.
LEMMA ToldOnce ==
    ASSUME NEW h, NEW s, LiveLinks(h, s), NEW c \in Nat, DOMAIN h \subseteq 1..c-1,
           \A n \in DOMAIN h : /\ h[n].next # 0 => n < h[n].next
                               /\ h[n].child # 0 => n < h[n].child,
           NEW f, NEW g, Tells(h, s, f), Tells(h, s, g)
    PROVE  f = g
<1>1. /\ \A n \in Nat : f[n] = Told(h, s, f, n) /\ g[n] = Told(h, s, g, n)
      /\ f = [n \in Nat |-> f[n]] /\ g = [n \in Nat |-> g[n]]
  <2>1. /\ \A n \in Nat : f[n] = Told(h, s, f, n)
        /\ DOMAIN f = Nat /\ f = [n \in DOMAIN f |-> f[n]]
    BY DEF Tells
  <2>2. /\ \A n \in Nat : g[n] = Told(h, s, g, n)
        /\ DOMAIN g = Nat /\ g = [n \in DOMAIN g |-> g[n]]
    BY DEF Tells
  <2> QED BY <2>1, <2>2
<1> DEFINE D == {k \in Nat : \E n \in DOMAIN h : k = c - n /\ f[n] # g[n]}
<1>2. D = {}
  <2> SUFFICES ASSUME D # {}
               PROVE  FALSE
    OBVIOUS
  <2>1. PICK k \in D : \A j \in D : k <= j
    <3>1. D \subseteq Nat
      OBVIOUS
    <3> HIDE DEF D
    <3> QED BY <3>1, LeastNatural
  <2>2. PICK n \in DOMAIN h : k = c - n /\ f[n] # g[n]
    BY <2>1
  <2>3. n \in Nat
    BY <2>2
  <2>4. ASSUME NEW m \in DOMAIN h, n < m
        PROVE  f[m] = g[m]
    <3> SUFFICES ASSUME f[m] # g[m]
                 PROVE  FALSE
      OBVIOUS
    <3>1. m \in Nat /\ c - m \in Nat
      BY <2>4
    <3>2. c - m \in D
      BY <3>1
    <3>3. k <= c - m
      BY <2>1, <3>2
    <3> QED BY <2>2, <2>3, <2>4, <3>1, <3>3
  <2>5. h[n].next # 0 => f[h[n].next] = g[h[n].next]
    BY <2>4 DEF LiveLinks
  <2>6. h[n].child # 0 => f[h[n].child] = g[h[n].child]
    BY <2>4 DEF LiveLinks
  <2>7. Whole(h, s, f, n) = Whole(h, s, g, n)
    <3>1. Value(h, s, f, n) = Value(h, s, g, n)
      BY <2>6 DEF Value
    <3> QED BY <3>1 DEF Whole
  <2>8. Rest(h, f, n) = Rest(h, g, n)
    BY <2>5 DEF Rest
  <2>9. Told(h, s, f, n) = Told(h, s, g, n)
    BY <2>7, <2>8 DEF Told
  <2> QED BY <1>1, <2>2, <2>3, <2>9
<1>3. ASSUME NEW n \in Nat
      PROVE  f[n] = g[n]
  <2>1. CASE n \in DOMAIN h
    <3>1. c - n \in Nat /\ n \in Nat
      BY <2>1
    <3>2. c - n \notin D
      <4> HIDE DEF D
      <4> QED BY <1>2
    <3> QED BY <2>1, <3>1, <3>2
  <2>2. CASE n \notin DOMAIN h
    BY <1>1, <2>2 DEF Told
  <2> QED BY <2>1, <2>2
<1> QED BY <1>1, <1>3

LEMMA RenderedIs ==
    ASSUME ParserInv, pc # "fail", NEW R, Tells(nodes, strings, R)
    PROVE  Rendered = R
<1> DEFINE Is(g) ==
      g = [n \in Nat |->
             IF n \notin DOMAIN nodes THEN <<>>
             ELSE LET item == nodes[n]
                  IN  (IF item.string = 0 THEN <<>> ELSE <<strings[item.string], ":">>)
                      \o (IF item.type = "String" /\ item.valuestring # 0
                          THEN <<strings[item.valuestring]>>
                          ELSE IF item.type \in {"Object", "Array"}
                          THEN LET object == item.type = "Object"
                               IN  <<Opener(object)>> \o g[item.child]
                                     \o <<Closer(object)>>
                          ELSE <<item.type>>)
                      \o (IF item.next = 0 THEN <<>> ELSE <<",">> \o g[item.next])]
<1>1. LiveLinks(nodes, strings)
  BY LinksLive
<1>2. 0 \notin DOMAIN nodes
  BY <1>1 DEF LiveLinks
<1>3. ASSUME NEW g
      PROVE  Is(g) <=> Tells(nodes, strings, g)
  <2>1. ASSUME g[0] = <<>>, NEW n \in Nat
        PROVE  Told(nodes, strings, g, n) =
             IF n \notin DOMAIN nodes THEN <<>>
             ELSE LET item == nodes[n]
                  IN  (IF item.string = 0 THEN <<>> ELSE <<strings[item.string], ":">>)
                      \o (IF item.type = "String" /\ item.valuestring # 0
                          THEN <<strings[item.valuestring]>>
                          ELSE IF item.type \in {"Object", "Array"}
                          THEN LET object == item.type = "Object"
                               IN  <<Opener(object)>> \o g[item.child]
                                     \o <<Closer(object)>>
                          ELSE <<item.type>>)
                      \o (IF item.next = 0 THEN <<>> ELSE <<",">> \o g[item.next])
    <3>1. (IF nodes[n].child = 0 THEN <<>> ELSE g[nodes[n].child]) = g[nodes[n].child]
      BY <2>1
    <3> QED BY <3>1 DEF Told, Whole, Name, Value, Rest
  <2>2. Is(g) => g[0] = <<>>
    BY <1>2
  <2>3. Tells(nodes, strings, g) => g[0] = <<>>
    BY <1>2 DEF Tells, Told
  <2> QED BY <2>1, <2>2, <2>3 DEF Tells
<1>4. Rendered = CHOOSE g : Is(g)
  BY DEF Rendered
<1>5. Is(R)
  BY <1>3
<1>6. Is(Rendered)
  <2> HIDE DEF Is
  <2> QED BY <1>4, <1>5
<1>7. Tells(nodes, strings, Rendered)
  <2> HIDE DEF Is
  <2> QED BY <1>3, <1>6
<1>8. /\ fresh \in Nat /\ DOMAIN nodes \subseteq 1..fresh-1
      /\ \A n \in DOMAIN nodes : /\ nodes[n].next # 0 => n < nodes[n].next
                                 /\ nodes[n].child # 0 => n < nodes[n].child
  BY DEF ParserInv, ParserTypeOK, Growing
<1> HIDE DEF Is
<1> QED BY <1>1, <1>7, <1>8, ToldOnce

\* When the parser returns, what it has read is how the root is spelt.
LEMMA TreeSpells ==
    ASSUME ParserInv, Tree, pc = "done", root # 0
    PROVE  /\ Rendered[root] = Significant[pos - 1]
           /\ Rendered \in [Nat -> Seq(Words)]
           /\ Tells(nodes, strings, Rendered)
           /\ nodes[root].next = 0 /\ nodes[root].string = 0
           /\ root \in DOMAIN nodes
<1>1. PICK S, W, B : TreeSays(S, W, B)
  BY DEF Tree, TreeInv, Telling
<1>2. /\ stack = <<>> /\ Depth = 0 /\ Chain(Depth) = root /\ Chain(0) = root
      /\ nodes[root].next = 0 /\ nodes[root].string = 0
      /\ Significant[pos - 1] = B[Depth] \o LastValue(W) /\ B[Depth] = <<>>
  BY <1>1 DEF ParserInv, Placed, Depth, Chain, Tree, RootLast, TreeSays, ReadSoFar,
              Beginnings
<1>3. /\ LiveLinks(nodes, strings) /\ W \in Spelling(nodes)
      /\ root \in DOMAIN nodes /\ LastValue(W) \in Seq(Words)
  BY <1>1, <1>2, TreeTypes DEF Telling
<1>4. S[root] = 0 /\ Ends(S, root)
  BY <1>1, <1>2 DEF TreeSays, Marked, Ends
<1>5. ASSUME NEW n \in DOMAIN nodes, S[n] # -1
      PROVE  S[n] = 0 /\ (n # root => nodes[n].next # 0 /\ ~Ends(S, n))
  BY <1>1, <1>2, <1>5 DEF TreeSays, Marked, Ends
<1>6. PICK v \in Seq(Words) : v = LastValue(W)
  BY <1>3
<1> DEFINE R == [n \in Nat |-> IF n \notin DOMAIN nodes THEN <<>>
                              ELSE IF S[n] = 0 THEN W[n] \o v ELSE W[n]]
<1>7. DOMAIN nodes \subseteq Nat
  BY DEF ParserInv, ParserTypeOK
<1>8. ASSUME NEW n \in DOMAIN nodes
      PROVE  /\ S[n] = 0 => R[n] = W[n] \o v
             /\ S[n] # 0 => R[n] = W[n]
  BY <1>7
<1>9. ASSUME NEW n \in Nat \ DOMAIN nodes
      PROVE  R[n] = <<>>
  OBVIOUS
<1> HIDE DEF R
<1>10. ASSUME NEW n \in DOMAIN nodes
       PROVE  /\ Value(nodes, strings, R, n) = Value(nodes, strings, W, n)
              /\ Whole(nodes, strings, R, n) = Whole(nodes, strings, W, n)
  <2>1. nodes[n].child # 0 => R[nodes[n].child] = W[nodes[n].child]
    <3> SUFFICES ASSUME nodes[n].child # 0
                 PROVE  R[nodes[n].child] = W[nodes[n].child]
      OBVIOUS
    <3>1. nodes[n].child \in DOMAIN nodes /\ S[nodes[n].child] = -1
      BY <1>1, <1>3 DEF TreeSays, Marked, LiveLinks
    <3> QED BY <3>1, <1>8
  <2>2. Value(nodes, strings, R, n) = Value(nodes, strings, W, n)
    BY <2>1 DEF Value
  <2> QED BY <2>2 DEF Whole
<1>11. ASSUME NEW n \in DOMAIN nodes
       PROVE  R[n] = Whole(nodes, strings, R, n) \o Rest(nodes, R, n)
  <2>1. CASE n = root
    <3>1. W[n] = <<>>
      BY <1>1, <1>4, <2>1 DEF TreeSays, Spelt
    <3>2. R[n] = v
      BY <1>4, <1>6, <1>8, <2>1, <3>1
    <3>3. Name(nodes, strings, n) = <<>> /\ Rest(nodes, R, n) = <<>>
      BY <1>2, <2>1 DEF Name, Rest
    <3>4. Value(nodes, strings, R, n) = v
      BY <1>2, <1>6, <1>10, <2>1 DEF LastValue
    <3> QED BY <3>2, <3>3, <3>4 DEF Whole
  <2>2. CASE n # root /\ S[n] # -1
    <3>1. S[n] = 0 /\ nodes[n].next # 0 /\ ~Ends(S, n)
      BY <1>5, <2>2
    <3>2. nodes[n].next \in DOMAIN nodes /\ S[nodes[n].next] = 0
      BY <1>1, <1>3, <3>1 DEF TreeSays, Marked, LiveLinks
    <3>3. PICK w \in Seq(Words) : w = W[nodes[n].next]
      BY <1>3, <3>2 DEF Spelling
    <3>4. PICK a \in Seq(Words) : a = Whole(nodes, strings, W, n)
      BY <1>3, SpeltInWords
    <3>5. <<",">> \in Seq(Words)
      BY WordKinds, FewWords
    <3>6. W[n] = a \o (<<",">> \o w)
      BY <1>1, <3>1, <3>3, <3>4 DEF TreeSays, Spelt, Rest
    <3>7. Rest(nodes, R, n) = <<",">> \o (w \o v)
      BY <1>8, <3>1, <3>2, <3>3 DEF Rest
    <3>8. R[n] = (a \o (<<",">> \o w)) \o v
      BY <1>8, <3>1, <3>6
    <3>9. PICK c \in Seq(Words) : c = <<",">>
      BY <3>5
    <3>10. (a \o (c \o w)) \o v = a \o ((c \o w) \o v)
      <4>1. c \o w \in Seq(Words)
        OBVIOUS
      <4> QED BY ONLY <4>1, a \in Seq(Words), v \in Seq(Words), Associative
    <3>11. (c \o w) \o v = c \o (w \o v)
      BY ONLY c \in Seq(Words), w \in Seq(Words), v \in Seq(Words), Associative
    <3> QED BY <1>10, <3>4, <3>7, <3>8, <3>9, <3>10, <3>11
  <2>3. CASE S[n] = -1
    <3>1. ~Ends(S, n) /\ n # root
      BY <1>4, <2>3 DEF Ends
    <3>2. W[n] = Whole(nodes, strings, W, n) \o Rest(nodes, W, n)
      BY <1>1, <3>1 DEF TreeSays, Spelt
    <3>3. R[n] = W[n]
      BY <1>8, <2>3
    <3>4. nodes[n].next # 0 => R[nodes[n].next] = W[nodes[n].next]
      <4> SUFFICES ASSUME nodes[n].next # 0
                   PROVE  R[nodes[n].next] = W[nodes[n].next]
        OBVIOUS
      <4>1. nodes[n].next \in DOMAIN nodes /\ S[nodes[n].next] = -1
        BY <1>1, <1>3, <2>3 DEF TreeSays, Marked, LiveLinks
      <4> QED BY <4>1, <1>8
    <3>5. Rest(nodes, R, n) = Rest(nodes, W, n)
      BY <3>4 DEF Rest
    <3> QED BY <1>10, <3>2, <3>3, <3>5
  <2> QED BY <2>1, <2>2, <2>3
<1>12. Tells(nodes, strings, R)
  <2>1. \A n \in Nat : R[n] = Told(nodes, strings, R, n)
    BY <1>9, <1>11 DEF Told
  <2>2. R = [n \in Nat |-> R[n]]
    BY DEF R
  <2> QED BY <2>1, <2>2 DEF Tells
<1>13. Rendered = R
  BY <1>12, RenderedIs
<1>14. R[root] = <<>> \o v
  <2>1. W[root] = <<>>
    BY <1>1, <1>3, <1>4 DEF TreeSays, Spelt
  <2> QED BY <1>3, <1>4, <1>8, <2>1
<1>15. ASSUME NEW n \in Nat
       PROVE  R[n] \in Seq(Words)
  <2>1. CASE n \in DOMAIN nodes
    <3>1. W[n] \in Seq(Words)
      BY <1>3, <2>1 DEF Spelling
    <3>2. W[n] \o v \in Seq(Words)
      BY <3>1, Joined
    <3> QED BY <1>8, <2>1, <3>1, <3>2
  <2>2. CASE n \notin DOMAIN nodes
    BY <1>9, <2>2, NoWords
  <2> QED BY <2>1, <2>2
<1>16. R \in [Nat -> Seq(Words)]
  <2>1. R = [n \in Nat |-> R[n]]
    BY DEF R
  <2> QED BY <1>15, <2>1
<1> QED BY <1>2, <1>3, <1>6, <1>12, <1>13, <1>14, <1>16

LEMMA TreeLinked ==
    ASSUME ParserInv, Tree, pc = "done", root # 0
    PROVE  Linked
<1>1. PICK S, W, B : TreeSays(S, W, B)
  BY DEF Tree, TreeInv, Telling
<1> QED BY <1>1 DEF TreeSays, Doubly, Linked

LEMMA TreeFaithful == ParserInv /\ Tree => Faithful
BY TreeSpells, TreeLinked DEF Faithful

LEMMA StartTree ==
    ASSUME pc = "start" \/ (pc = "done" /\ root = 0)
    PROVE  Tree
BY NotTelling

\* The tree that cJSON_Parse returns says what it has read of the text, no
\* more and no less, and in its order; its lists are linked both ways.
THEOREM TreeSaysText == ParserSpec => []Faithful
<1>1. ParserInit => Tree
  BY StartTree DEF ParserInit
<1>2. ParserInv /\ ParserInv' /\ Tree /\ [ParserNext]_parserVars => Tree'
  BY TreeStep
<1>3. ParserSpec => []Tree
  BY <1>1, <1>2, InvAlways, PTL DEF ParserSpec
<1> QED BY <1>3, InvAlways, TreeFaithful, PTL

LEMMA ConfigTreeStep == ConfigInv /\ Tree /\ [Next]_vars => Tree'
<1> SUFFICES ASSUME ConfigInv, Tree, [Next]_vars
             PROVE  Tree'
  OBVIOUS
<1>1. CASE ReadFile \/ ReceiveStream
  <2>1. pc' = "start"
    BY <1>1 DEF ReadFile, ReceiveStream, Parse
  <2> QED BY <2>1 DEF Tree, TreeInv, Telling, Reading, RootLast
<1>2. CASE Parsing
  BY <1>2, TreeStep DEF Parsing, ConfigInv
<1>3. CASE ~(ReadFile \/ ReceiveStream \/ Parsing)
  <2>1. UNCHANGED parserVars
    BY <1>3 DEF Next, Parsed, LookUpPointer, LookUpNumber, Store, NullPointer, Unchecked,
                Crash, Configured, NoAddress, CallFails, Proceed, Stopped, vars,
                configVars, SendStream
  <2> QED BY <2>1, TreeStep DEF ConfigInv
<1> QED BY <1>1, <1>2, <1>3

\* So it does in each program that parses a configuration, on a file without
\* an end and on what a recv() has cut off.
THEOREM ConfigTreeSaysText == Spec => []Faithful
<1>1. Init => Tree
  BY StartTree DEF Init
<1>2. Spec => []Tree
  BY <1>1, ConfigTreeStep, ConfigAlways, PTL DEF Spec
<1>3. ConfigInv /\ Tree => Faithful
  BY TreeFaithful DEF ConfigInv
<1> QED BY <1>2, <1>3, ConfigAlways, PTL

(***************************************************************************)
(* What a tree says, it says in one way: the beginning of a text cannot be *)
(* read as two different trees.                                            *)
(***************************************************************************)
Closers == {"}", "]"}
Openers == {"{", "["}
Marks   == Closers \cup Openers \cup {",", ":"}

Atoms == {<<k>> : k \in Words \ Marks}
Names == {<<>>} \cup {<<k, ":">> : k \in Strings}
Rests(L) == {<<>>} \cup {<<",">> \o l : l \in L}
Enclosed(o, w) == (<<Opener(o)>> \o w) \o <<Closer(o)>>

\* A name or none, a value, and what is behind it.
Items(V, L) == Names \X V \X Rests(L)
Spell(m) == (m[1] \o m[2]) \o m[3]

\* V are values and L lists of items: a value is one token or a list in
\* brackets, and an item is a value with or without a name.
Language(V, L) ==
    /\ V \subseteq Seq(Words) /\ L \subseteq Seq(Words)
    /\ \A v \in V : v \in Atoms \/ \E o \in BOOLEAN, w \in L \cup {<<>>} : v = Enclosed(o, w)
    /\ \A l \in L : \E m \in Items(V, L) : l = Spell(m)

\* The list ends here.
Ended == {x \in Seq(Words) : \E k \in Closers, z \in Seq(Words) : x = <<k>> \o z}

LEMMA NoMark ==
    ASSUME NEW k \in Strings \cup Types
    PROVE  k \in Words \ Marks
<1>1. k \in Words
  BY WordKinds
<1>2. CASE k \in Strings \cup Numbers
  BY <1>1, <1>2, ParserAssumption DEF Marks, Closers, Openers, Brackets
<1>3. CASE k \in Types \ Numbers
  BY <1>1, <1>3 DEF Types, Plain, Marks, Closers, Openers
<1> QED BY <1>2, <1>3

LEMMA MarksAreWords ==
    /\ Marks \subseteq Words
    /\ \A o : Opener(o) \in Openers /\ Closer(o) \in Closers
    /\ Openers \cap Closers = {} /\ "," \notin Openers \cup Closers
    /\ ":" \notin Openers \cup Closers /\ "," # ":"
<1>1. Marks \subseteq Words
  BY WordKinds DEF Marks, Closers, Openers
<1>2. \A o : Opener(o) \in Openers /\ Closer(o) \in Closers
  BY DEF Opener, Closer, Openers, Closers
<1> QED BY <1>1, <1>2 DEF Openers, Closers

\* The first word, and what is behind it.
LEMMA Heads ==
    ASSUME NEW k \in Words, NEW x \in Seq(Words)
    PROVE  /\ (<<k>> \o x)[1] = k /\ Tail(<<k>> \o x) = x
           /\ Len(<<k>> \o x) = Len(x) + 1 /\ Len(x) \in Nat
<1>5. Len(<<k>> \o x) = Len(x) + 1 /\ Len(x) \in Nat
  OBVIOUS
<1>1. (<<k>> \o x)[1] = k /\ <<k>> \o x # <<>>
  OBVIOUS
<1>2. PICK y \in Seq(Words) : y = Tail(<<k>> \o x)
  OBVIOUS
<1>3. Len(y) = Len(x) /\ \A i \in 1..Len(x) : y[i] = x[i]
  BY <1>2
<1>4. y = x
  BY <1>3, SeqEqual
<1> QED BY <1>1, <1>2, <1>4, <1>5

LEMMA Cancelled ==
    ASSUME NEW v \in Seq(Words), NEW x \in Seq(Words), NEW y \in Seq(Words),
           v \o x = v \o y
    PROVE  x = y
BY ConcatSimplifications

LEMMA TwoWords ==
    ASSUME NEW k \in Words, NEW l \in Words, NEW x \in Seq(Words)
    PROVE  <<k, l>> \o x = <<k>> \o (<<l>> \o x)
<1>0. <<k>> \in Seq(Words) /\ <<l>> \in Seq(Words)
  BY FewWords
<1>1. PICK a \in Seq(Words) : a = <<k>>
  BY <1>0
<1>2. PICK b \in Seq(Words) : b = <<l>>
  BY <1>0
<1>3. <<k, l>> = a \o b
  <2>1. /\ <<k, l>> \in Seq(Words) /\ Len(<<k, l>>) = 2
        /\ <<k, l>>[1] = k /\ <<k, l>>[2] = l
    OBVIOUS
  <2>2. /\ Len(a) = 1 /\ Len(b) = 1 /\ a[1] = k /\ b[1] = l
    BY <1>1, <1>2
  <2>3. /\ a \o b \in Seq(Words) /\ Len(a \o b) = 2
        /\ \A i \in 1..2 : (a \o b)[i] = IF i <= 1 THEN a[i] ELSE b[i - 1]
    BY <2>2, ConcatProperties
  <2>4. (a \o b)[1] = k /\ (a \o b)[2] = l
    BY <2>2, <2>3
  <2>5. \A i \in 1..2 : <<k, l>>[i] = (a \o b)[i]
    <3>1. \A i \in 1..2 : i = 1 \/ i = 2
      OBVIOUS
    <3> QED BY <2>1, <2>4, <3>1
  <2>6. PICK c \in Seq(Words) : c = <<k, l>>
    BY <2>1
  <2>7. PICK d \in Seq(Words) : d = a \o b
    BY <2>3
  <2>8. \A i \in 1..2 : c[i] = d[i]
    BY <2>5, <2>6, <2>7
  <2>9. Len(c) = 2 /\ Len(d) = 2
    BY <2>1, <2>3, <2>6, <2>7
  <2>10. c = d
    BY ONLY c \in Seq(Words), d \in Seq(Words), <2>8, <2>9, SeqEqual
  <2> QED BY <2>6, <2>7, <2>10
<1>4. (a \o b) \o x = a \o (b \o x)
  BY Associative
<1> QED BY <1>1, <1>2, <1>3, <1>4

LEMMA SealedList ==
    ASSUME NEW a \in Words, NEW w \in Seq(Words), NEW b \in Words
    PROVE  \A x \in Seq(Words) :
             /\ ((<<a>> \o w) \o <<b>>) \o x = <<a>> \o (w \o (<<b>> \o x))
             /\ w \o (<<b>> \o x) \in Seq(Words)
<1> SUFFICES ASSUME NEW x \in Seq(Words)
             PROVE  /\ ((<<a>> \o w) \o <<b>>) \o x = <<a>> \o (w \o (<<b>> \o x))
                    /\ w \o (<<b>> \o x) \in Seq(Words)
  OBVIOUS
<1>1. <<a>> \in Seq(Words) /\ <<b>> \in Seq(Words)
  BY FewWords
<1>2. PICK u \in Seq(Words) : u = <<a>>
  BY <1>1
<1>3. PICK v \in Seq(Words) : v = <<b>>
  BY <1>1
<1>4. u \o w \in Seq(Words) /\ v \o x \in Seq(Words)
  BY Joined
<1>5. ((u \o w) \o v) \o x = (u \o w) \o (v \o x)
  BY ONLY u \o w \in Seq(Words), v \in Seq(Words), x \in Seq(Words), <1>4, Associative
<1>6. (u \o w) \o (v \o x) = u \o (w \o (v \o x))
  BY ONLY u \in Seq(Words), w \in Seq(Words), <1>4, Associative
<1>7. w \o (v \o x) \in Seq(Words)
  BY <1>4, Joined
<1> QED BY <1>2, <1>3, <1>4, <1>5, <1>6, <1>7

LEMMA SameBracket ==
    ASSUME NEW o \in BOOLEAN, NEW p \in BOOLEAN, Opener(o) = Opener(p)
    PROVE  Closer(o) = Closer(p)
BY DEF Opener, Closer

LEMMA HeadMoves ==
    ASSUME NEW k \in Words, NEW z \in Seq(Words), NEW c \in Seq(Words)
    PROVE  /\ (<<k>> \o z) \o c = <<k>> \o (z \o c)
           /\ z \o c \in Seq(Words)
<1>1. PICK u \in Seq(Words) : u = <<k>>
  <2>1. <<k>> \in Seq(Words)
    BY FewWords
  <2> QED BY <2>1
<1>2. (u \o z) \o c = u \o (z \o c)
  BY Associative
<1>3. z \o c \in Seq(Words)
  BY Joined
<1> QED BY <1>1, <1>2, <1>3

LEMMA PartsAreWords ==
    ASSUME NEW V, NEW L, Language(V, L)
    PROVE  /\ Names \subseteq Seq(Words) /\ Rests(L) \subseteq Seq(Words)
           /\ V \subseteq Seq(Words) /\ L \subseteq Seq(Words)
           /\ Atoms \subseteq Seq(Words)
           /\ \A m \in Items(V, L) : /\ m[1] \in Names /\ m[2] \in V /\ m[3] \in Rests(L)
                                    /\ Spell(m) \in Seq(Words)
<1>1. ASSUME NEW k \in Strings
      PROVE  <<k, ":">> \in Seq(Words)
  BY WordKinds, FewWords
<1>2. ASSUME NEW l \in L
      PROVE  <<",">> \o l \in Seq(Words)
  <2>1. l \in Seq(Words) /\ "," \in Words
    BY WordKinds DEF Language
  <2>2. <<",">> \in Seq(Words)
    BY <2>1, FewWords
  <2> QED BY <2>1, <2>2, Joined
<1>3. ASSUME NEW k \in Words
      PROVE  <<k>> \in Seq(Words)
  BY FewWords
<1>4. Names \subseteq Seq(Words)
  BY <1>1, NoWords DEF Names
<1>5. Rests(L) \subseteq Seq(Words)
  BY <1>2, NoWords DEF Rests
<1>6. ASSUME NEW m \in Items(V, L)
      PROVE  /\ m[1] \in Names /\ m[2] \in V /\ m[3] \in Rests(L)
             /\ Spell(m) \in Seq(Words)
  <2>1. m[1] \in Names /\ m[2] \in V /\ m[3] \in Rests(L)
    BY DEF Items
  <2>2. m[1] \in Seq(Words) /\ m[2] \in Seq(Words) /\ m[3] \in Seq(Words)
    BY <1>4, <1>5, <2>1 DEF Language
  <2>3. m[1] \o m[2] \in Seq(Words)
    BY <2>2, Joined
  <2>4. Spell(m) \in Seq(Words)
    BY <2>2, <2>3, Joined DEF Spell
  <2> QED BY <2>1, <2>4
<1> QED BY <1>3, <1>4, <1>5, <1>6 DEF Language, Atoms

\* Whatever follows them, two values that begin alike are the same.
OneValue(V, N) ==
    \A v, u \in V, x, y \in Seq(Words) : Len(v) <= N /\ v \o x = u \o y => v = u

\* And so are two lists, part by part.
OneList(V, L, N) ==
    \A m, n \in Items(V, L), x, y \in Ended :
      Len(Spell(m)) <= N /\ Spell(m) \o x = Spell(n) \o y => m = n

\* No list begins with a closing bracket.
LEMMA ValueBegins ==
    ASSUME NEW V, NEW L, Language(V, L), NEW v \in V
    PROVE  \E k \in Words \ (Closers \cup {",", ":"}), z \in Seq(Words) : v = <<k>> \o z
<1>1. CASE v \in Atoms
  <2>1. PICK k \in Words \ Marks : v = <<k>>
    BY <1>1 DEF Atoms
  <2>2. <<k>> \in Seq(Words)
    BY FewWords
  <2>3. v = v \o <<>>
    BY <2>1, <2>2, ConcatEmptySeq
  <2> QED BY <2>1, <2>3, NoWords DEF Marks
<1>2. CASE v \notin Atoms
  <2>1. PICK o \in BOOLEAN, w \in L \cup {<<>>} : v = Enclosed(o, w)
    BY <1>2 DEF Language
  <2>2. PICK a \in Words \ (Closers \cup {",", ":"}) : a = Opener(o)
    BY WordKinds, MarksAreWords
  <2>3. PICK b \in Words : b = Closer(o)
    BY WordKinds
  <2>4. w \in Seq(Words)
    BY NoWords DEF Language
  <2>5. <<b>> \in Seq(Words)
    BY FewWords
  <2>6. PICK e \in Seq(Words) : e = <<b>>
    BY <2>5
  <2>7. (<<a>> \o w) \o e = <<a>> \o (w \o e) /\ w \o e \in Seq(Words)
    BY <2>4, HeadMoves
  <2> QED BY <2>1, <2>2, <2>3, <2>6, <2>7 DEF Enclosed
<1> QED BY <1>1, <1>2

LEMMA ListBegins ==
    ASSUME NEW V, NEW L, Language(V, L), NEW l \in L
    PROVE  \E k \in Words \ Closers, z \in Seq(Words) : l = <<k>> \o z
<1>0. PICK m \in Items(V, L) : l = Spell(m)
  BY DEF Language
<1>1. PICK a \in Names, v \in V, r \in Rests(L) : l = (a \o v) \o r
  BY <1>0, PartsAreWords DEF Spell
<1>2. a \in Seq(Words) /\ v \in Seq(Words) /\ r \in Seq(Words)
  BY PartsAreWords
<1>3. PICK f \in Seq(Words) : f = v \o r
  BY <1>2, Joined
<1>4. l = a \o f
  BY <1>1, <1>2, <1>3, Associative
<1>5. CASE a = <<>>
  <2>1. l = f
    BY <1>4, <1>5, ConcatEmptySeq
  <2>2. PICK k \in Words \ Closers, z \in Seq(Words) : v = <<k>> \o z
    BY ValueBegins
  <2>3. (<<k>> \o z) \o r = <<k>> \o (z \o r) /\ z \o r \in Seq(Words)
    BY <1>2, HeadMoves
  <2> QED BY <1>3, <2>1, <2>2, <2>3
<1>6. CASE a # <<>>
  <2>1. PICK k \in Strings : a = <<k, ":">>
    BY <1>6 DEF Names
  <2>2. k \in Words \ Closers /\ ":" \in Words
    BY NoMark, WordKinds DEF Marks
  <2>3. <<k, ":">> \o f = <<k>> \o (<<":">> \o f)
    BY <2>2, TwoWords
  <2>4. <<":">> \o f \in Seq(Words)
    BY <2>2, FewWords, Joined
  <2> QED BY <1>4, <2>1, <2>2, <2>3, <2>4
<1> QED BY <1>5, <1>6

\* What a closing bracket follows is empty if it begins with one.
LEMMA EmptyWithin ==
    ASSUME NEW V, NEW L, Language(V, L)
    PROVE  \A w \in L \cup {<<>>}, c \in Seq(Words) : w \o c \in Ended => w = <<>>
<1> SUFFICES ASSUME NEW w \in L \cup {<<>>}, NEW c \in Seq(Words), w \o c \in Ended,
                    w # <<>>
             PROVE  FALSE
  OBVIOUS
<1>1. PICK b \in Closers, x \in Seq(Words) : w \o c = <<b>> \o x
  BY DEF Ended
<1>2. PICK k \in Words \ Closers, z \in Seq(Words) : w = <<k>> \o z
  BY ListBegins
<1>3. (<<k>> \o z) \o c = <<k>> \o (z \o c) /\ z \o c \in Seq(Words)
  BY HeadMoves
<1>4. PICK y \in Seq(Words) : y = z \o c
  BY <1>3
<1>5. <<b>> \o x = <<k>> \o y
  BY <1>1, <1>2, <1>3, <1>4
<1>6. b \in Words
  BY MarksAreWords DEF Marks
<1>7. (<<b>> \o x)[1] = b
  BY <1>6, Heads
<1>8. (<<k>> \o y)[1] = k
  BY Heads
<1> QED BY <1>5, <1>7, <1>8

\* What is in brackets is told by what is read.
LEMMA OneWithin ==
    ASSUME NEW V, NEW L, Language(V, L), NEW N \in Nat, OneList(V, L, N)
    PROVE  \A w, p \in L \cup {<<>>}, c, d \in Ended :
             Len(w) <= N /\ w \o c = p \o d => w = p
<1> SUFFICES ASSUME NEW w \in L \cup {<<>>}, NEW p \in L \cup {<<>>},
                    NEW c \in Ended, NEW d \in Ended, Len(w) <= N, w \o c = p \o d
             PROVE  w = p
  OBVIOUS
<1>0. \A f \in L \cup {<<>>}, e \in Seq(Words) : f \o e \in Ended => f = <<>>
  BY EmptyWithin
<1>1. c \in Seq(Words) /\ d \in Seq(Words)
  BY DEF Ended
<1>2. CASE w = <<>>
  <2>1. w \o c = c
    BY <1>1, <1>2, ConcatEmptySeq
  <2>2. p \o d \in Ended
    BY <2>1
  <2>3. p = <<>>
    BY <1>0, <1>1, <2>2
  <2> QED BY <1>2, <2>3
<1>3. CASE p = <<>>
  <2>1. p \o d = d
    BY <1>1, <1>3, ConcatEmptySeq
  <2>2. w \o c \in Ended
    BY <2>1
  <2>3. w = <<>>
    BY <1>0, <1>1, <2>2
  <2> QED BY <1>3, <2>3
<1>4. CASE w \in L /\ p \in L
  <2>1. PICK m \in Items(V, L) : w = Spell(m)
    BY <1>4 DEF Language
  <2>2. PICK n \in Items(V, L) : p = Spell(n)
    BY <1>4 DEF Language
  <2>3. Spell(m) \o c = Spell(n) \o d /\ Len(Spell(m)) <= N
    BY <2>1, <2>2
  <2>4. m = n
    BY <2>3 DEF OneList
  <2> QED BY <2>1, <2>2, <2>4
<1> QED BY <1>2, <1>3, <1>4

LEMMA AtomOpens ==
    ASSUME NEW k \in Words \ Marks, NEW x \in Seq(Words), NEW o \in BOOLEAN,
           NEW w \in Seq(Words), NEW y \in Seq(Words)
    PROVE  <<k>> \o x # Enclosed(o, w) \o y
<1> SUFFICES ASSUME <<k>> \o x = Enclosed(o, w) \o y
             PROVE  FALSE
  OBVIOUS
<1>1. PICK a \in Words : a = Opener(o)
  BY WordKinds
<1>2. PICK b \in Words : b = Closer(o)
  BY WordKinds
<1>3. \A p \in Seq(Words) :
        /\ ((<<a>> \o w) \o <<b>>) \o p = <<a>> \o (w \o (<<b>> \o p))
        /\ w \o (<<b>> \o p) \in Seq(Words)
  BY SealedList
<1>4. PICK z \in Seq(Words) : z = w \o (<<b>> \o y)
  BY <1>3
<1>5. <<k>> \o x = <<a>> \o z
  BY <1>1, <1>2, <1>3, <1>4 DEF Enclosed
<1>6. (<<k>> \o x)[1] = k
  BY Heads
<1>7. (<<a>> \o z)[1] = a
  BY Heads
<1> QED BY <1>1, <1>5, <1>6, <1>7, MarksAreWords DEF Marks

\* What closing brackets follow, in the same text.
Alike(w, u) == \E c, d \in Ended : w \o c = u \o d

LEMMA TwoEnclosed ==
    ASSUME NEW o \in BOOLEAN, NEW w \in Seq(Words),
           NEW p \in BOOLEAN, NEW u \in Seq(Words)
    PROVE  \A x, y \in Seq(Words) : Enclosed(o, w) \o x = Enclosed(p, u) \o y
             => o = p /\ Alike(w, u)
<1> SUFFICES ASSUME NEW x \in Seq(Words), NEW y \in Seq(Words),
                    Enclosed(o, w) \o x = Enclosed(p, u) \o y
             PROVE  o = p /\ Alike(w, u)
  OBVIOUS
<1>1. PICK a \in Words : a = Opener(o)
  BY WordKinds
<1>2. PICK b \in Words : b = Closer(o)
  BY WordKinds
<1>3. PICK e \in Words : e = Opener(p)
  BY WordKinds
<1>4. PICK f \in Words : f = Closer(p)
  BY WordKinds
<1>5. \A z \in Seq(Words) :
        /\ ((<<a>> \o w) \o <<b>>) \o z = <<a>> \o (w \o (<<b>> \o z))
        /\ w \o (<<b>> \o z) \in Seq(Words)
  BY SealedList
<1>6. \A z \in Seq(Words) :
        /\ ((<<e>> \o u) \o <<f>>) \o z = <<e>> \o (u \o (<<f>> \o z))
        /\ u \o (<<f>> \o z) \in Seq(Words)
  BY SealedList
<1>7. PICK g \in Seq(Words) : g = w \o (<<b>> \o x)
  BY <1>5
<1>8. PICK h \in Seq(Words) : h = u \o (<<f>> \o y)
  BY <1>6
<1>9. <<a>> \o g = <<e>> \o h
  BY <1>1, <1>2, <1>3, <1>4, <1>5, <1>6, <1>7, <1>8 DEF Enclosed
<1>10. a = e /\ g = h
  <2>1. (<<a>> \o g)[1] = a /\ Tail(<<a>> \o g) = g
    BY Heads
  <2>2. (<<e>> \o h)[1] = e /\ Tail(<<e>> \o h) = h
    BY Heads
  <2> QED BY <1>9, <2>1, <2>2
<1>11. o = p
  <2>1. Opener(o) = Opener(p)
    BY <1>1, <1>3, <1>10
  <2>2. "{" # "["
    OBVIOUS
  <2>3. CASE o
    <3>1. Opener(o) = "{"
      BY <2>3 DEF Opener
    <3>2. p
      BY <2>1, <2>2, <3>1 DEF Opener
    <3> QED BY <2>3, <3>2
  <2>4. CASE ~o
    <3>1. Opener(o) = "["
      BY <2>4 DEF Opener
    <3>2. ~p
      BY <2>1, <2>2, <3>1 DEF Opener
    <3> QED BY <2>4, <3>2
  <2> QED BY <2>3, <2>4
<1>12. b \in Closers /\ f \in Closers
  BY <1>2, <1>4, MarksAreWords
<1>13. PICK c \in Seq(Words) : c = <<b>> \o x
  BY FewWords, Joined
<1>14. PICK d \in Seq(Words) : d = <<f>> \o y
  BY FewWords, Joined
<1>15. c \in Ended /\ d \in Ended
  BY <1>12, <1>13, <1>14 DEF Ended
<1> QED BY <1>7, <1>8, <1>10, <1>11, <1>13, <1>14, <1>15 DEF Alike

\* A value that is an atom and one that is not.
LEMMA AtomOrEnclosed ==
    ASSUME NEW V, NEW L, Language(V, L), NEW v \in V
    PROVE  \/ \E k \in Words \ Marks : v = <<k>>
           \/ \E o \in BOOLEAN, w \in L \cup {<<>>} :
                v = Enclosed(o, w) /\ w \in Seq(Words) /\ Len(v) = Len(w) + 2
<1>1. CASE v \in Atoms
  BY <1>1 DEF Atoms
<1>2. CASE v \notin Atoms
  <2>1. PICK o \in BOOLEAN, w \in L \cup {<<>>} : v = Enclosed(o, w)
    BY <1>2 DEF Language
  <2>2. w \in Seq(Words)
    BY NoWords DEF Language
  <2>3. PICK a \in Words : a = Opener(o)
    BY WordKinds
  <2>4. PICK b \in Words : b = Closer(o)
    BY WordKinds
  <2>5. v = (<<a>> \o w) \o <<b>>
    BY <2>1, <2>3, <2>4 DEF Enclosed
  <2>6. Len(v) = Len(w) + 2
    BY <2>2, <2>5
  <2> QED BY <2>1, <2>2, <2>6
<1> QED BY <1>1, <1>2

LEMMA NextValue ==
    ASSUME NEW V, NEW L, Language(V, L), NEW N \in Nat, OneList(V, L, N)
    PROVE  OneValue(V, N + 1)
<1> SUFFICES ASSUME NEW v \in V, NEW u \in V, NEW x \in Seq(Words), NEW y \in Seq(Words),
                    Len(v) <= N + 1, v \o x = u \o y
             PROVE  v = u
  BY DEF OneValue
<1>0. v \in Seq(Words) /\ u \in Seq(Words)
  BY DEF Language
<1>1. CASE \E k \in Words \ Marks : v = <<k>>
  <2>1. PICK k \in Words \ Marks : v = <<k>>
    BY <1>1
  <2>2. CASE \E l \in Words \ Marks : u = <<l>>
    <3>1. PICK l \in Words \ Marks : u = <<l>>
      BY <2>2
    <3>2. (<<k>> \o x)[1] = k
      BY Heads
    <3>3. (<<l>> \o y)[1] = l
      BY Heads
    <3> QED BY <2>1, <3>1, <3>2, <3>3
  <2>3. CASE \E o \in BOOLEAN, w \in L \cup {<<>>} :
                u = Enclosed(o, w) /\ w \in Seq(Words) /\ Len(u) = Len(w) + 2
    <3>1. PICK o \in BOOLEAN, w \in Seq(Words) : u = Enclosed(o, w)
      BY <2>3
    <3>2. <<k>> \o x # Enclosed(o, w) \o y
      BY AtomOpens
    <3> QED BY <2>1, <3>1, <3>2
  <2> QED BY <2>2, <2>3, AtomOrEnclosed
<1>2. CASE \E o \in BOOLEAN, w \in L \cup {<<>>} :
                v = Enclosed(o, w) /\ w \in Seq(Words) /\ Len(v) = Len(w) + 2
  <2>1. PICK o \in BOOLEAN, w \in L \cup {<<>>} :
                v = Enclosed(o, w) /\ w \in Seq(Words) /\ Len(v) = Len(w) + 2
    BY <1>2
  <2>2. CASE \E l \in Words \ Marks : u = <<l>>
    <3>1. PICK l \in Words \ Marks : u = <<l>>
      BY <2>2
    <3>2. w \in Seq(Words)
      BY <2>1
    <3>3. <<l>> \o y # Enclosed(o, w) \o x
      BY <3>2, AtomOpens
    <3> QED BY <2>1, <3>1, <3>3
  <2>3. CASE \E p \in BOOLEAN, z \in L \cup {<<>>} :
                u = Enclosed(p, z) /\ z \in Seq(Words) /\ Len(u) = Len(z) + 2
    <3>1. PICK p \in BOOLEAN, z \in L \cup {<<>>} :
                u = Enclosed(p, z) /\ z \in Seq(Words) /\ Len(u) = Len(z) + 2
      BY <2>3
    <3>2. w \in Seq(Words) /\ z \in Seq(Words) /\ Enclosed(o, w) \o x = Enclosed(p, z) \o y
      BY <2>1, <3>1
    <3>3. o = p /\ Alike(w, z)
      BY <3>2, TwoEnclosed
    <3>4. PICK c \in Ended, d \in Ended : w \o c = z \o d
      BY <3>3 DEF Alike
    <3>5. Len(w) <= N
      BY <2>1
    <3>8. \A f, g \in L \cup {<<>>}, a, b \in Ended :
            Len(f) <= N /\ f \o a = g \o b => f = g
      BY OneWithin
    <3>6. w = z
      BY <3>4, <3>5, <3>8
    <3> QED BY <2>1, <3>1, <3>3, <3>6
  <2> QED BY <2>2, <2>3, AtomOrEnclosed
<1> QED BY <1>1, <1>2, AtomOrEnclosed

Regrouped(m, x) ==
    /\ Spell(m) \o x = m[1] \o (m[2] \o (m[3] \o x))
    /\ m[3] \o x \in Seq(Words)
    /\ Len(Spell(m)) = Len(m[1]) + Len(m[2]) + Len(m[3])

LEMMA Regroup ==
    ASSUME NEW V, NEW L, Language(V, L), NEW m \in Items(V, L), NEW x \in Seq(Words)
    PROVE  Regrouped(m, x)
<1> USE DEF Regrouped
<1>1. m[1] \in Names /\ m[2] \in V /\ m[3] \in Rests(L)
  BY PartsAreWords
<1>2. m[1] \in Seq(Words) /\ m[2] \in Seq(Words) /\ m[3] \in Seq(Words)
  BY <1>1, PartsAreWords
<1>3. PICK a \in Seq(Words) : a = m[1]
  BY <1>2
<1>4. PICK b \in Seq(Words) : b = m[2]
  BY <1>2
<1>5. PICK c \in Seq(Words) : c = m[3]
  BY <1>2
<1>6. PICK d \in Seq(Words) : d = a \o b
  BY Joined
<1>7. PICK e \in Seq(Words) : e = c \o x
  BY Joined
<1>8. (d \o c) \o x = d \o e
  BY <1>7, Associative
<1>9. d \o e = a \o (b \o e)
  BY <1>6, Associative
<1>10. Len(d \o c) = Len(a) + Len(b) + Len(c)
  BY <1>6
<1> QED BY <1>3, <1>4, <1>5, <1>6, <1>7, <1>8, <1>9, <1>10 DEF Spell

\* Behind a value there is a comma or a closing bracket.
Follows(x) == \E k \in (Closers \cup {","}) \cap Words, z \in Seq(Words) : x = <<k>> \o z

LEMMA BehindValue ==
    ASSUME NEW V, NEW L, Language(V, L), NEW r \in Rests(L), NEW x \in Ended
    PROVE  Follows(r \o x)
<1> USE DEF Follows
<1>0. Closers \cup {","} \subseteq Words
  BY MarksAreWords DEF Marks
<1>1. PICK b \in Closers, e \in Seq(Words) : x = <<b>> \o e
  BY DEF Ended
<1>2. x \in Seq(Words)
  BY DEF Ended
<1>3. CASE r = <<>>
  <2>1. r \o x = x
    BY <1>2, <1>3, ConcatEmptySeq
  <2> QED BY <1>0, <1>1, <2>1
<1>4. CASE r # <<>>
  <2>1. PICK l \in L : r = <<",">> \o l
    BY <1>4 DEF Rests
  <2>2. l \in Seq(Words) /\ "," \in Words
    BY WordKinds DEF Language
  <2>3. (<<",">> \o l) \o x = <<",">> \o (l \o x) /\ l \o x \in Seq(Words)
    BY <1>2, <2>2, HeadMoves
  <2>4. PICK z \in Seq(Words) : z = l \o x
    BY <2>3
  <2>5. r \o x = <<",">> \o z
    BY <2>1, <2>3, <2>4
  <2>6. "," \in (Closers \cup {","}) \cap Words
    BY <2>2
  <2> QED BY <2>5, <2>6
<1> QED BY <1>3, <1>4

\* A name is not a value: a colon is behind it.
Unlike(L, u, w) == \A q \in Rests(L), y \in Ended : u \o (q \o y) # w

LEMMA NotNamed ==
    ASSUME NEW V, NEW L, Language(V, L), NEW k \in Strings, NEW f \in Seq(Words),
           NEW u \in V
    PROVE  Unlike(L, u, <<k, ":">> \o f)
<1> USE DEF Unlike
<1>0. ASSUME NEW r \in Rests(L), NEW x \in Ended
      PROVE  Follows(r \o x)
  BY BehindValue
<1> SUFFICES ASSUME NEW q \in Rests(L), NEW y \in Ended, u \o (q \o y) = <<k, ":">> \o f
             PROVE  FALSE
  OBVIOUS
<1>1. k \in Words \ Marks /\ ":" \in Words
  BY NoMark, WordKinds
<1>2. PICK g \in Seq(Words) : g = <<":">> \o f
  BY <1>1, FewWords, Joined
<1>3. <<k, ":">> \o f = <<k>> \o g
  BY <1>1, <1>2, TwoWords
<1>4. PICK j \in (Closers \cup {","}) \cap Words, z \in Seq(Words) : q \o y = <<j>> \o z
  BY <1>0 DEF Follows
<1>5. j \in Words
  BY <1>4, MarksAreWords DEF Marks
<1>6. PICK e \in Seq(Words) : e = <<j>> \o z
  BY <1>5, FewWords, Joined
<1>7. u \o e = <<k>> \o g
  BY <1>3, <1>4, <1>6
<1>8. CASE \E l \in Words \ Marks : u = <<l>>
  <2>1. PICK l \in Words \ Marks : u = <<l>>
    BY <1>8
  <2>2. Tail(<<l>> \o e) = e
    BY Heads
  <2>3. Tail(<<k>> \o g) = g
    BY <1>1, Heads
  <2>4. e = g
    BY <1>7, <2>1, <2>2, <2>3
  <2>5. (<<j>> \o z)[1] = j
    BY <1>5, Heads
  <2>6. (<<":">> \o f)[1] = ":"
    BY <1>1, Heads
  <2>7. j = ":"
    BY <1>2, <1>6, <2>4, <2>5, <2>6
  <2> QED BY <1>4, <2>7, MarksAreWords
<1>9. CASE \E o \in BOOLEAN, w \in L \cup {<<>>} :
                u = Enclosed(o, w) /\ w \in Seq(Words) /\ Len(u) = Len(w) + 2
  <2>1. PICK o \in BOOLEAN, w \in Seq(Words) : u = Enclosed(o, w)
    BY <1>9
  <2>2. <<k>> \o g # Enclosed(o, w) \o e
    BY <1>1, AtomOpens
  <2> QED BY <1>7, <2>1, <2>2
<1>10. \A v \in V : \/ \E l \in Words \ Marks : v = <<l>>
                   \/ \E o \in BOOLEAN, w \in L \cup {<<>>} :
                        v = Enclosed(o, w) /\ w \in Seq(Words) /\ Len(v) = Len(w) + 2
  BY AtomOrEnclosed
<1> QED BY <1>8, <1>9, <1>10

OneEnd(w, p) == \A c, d \in Ended : w \o c = p \o d => w = p

LEMMA SameWithin ==
    ASSUME NEW V, NEW L, Language(V, L), NEW N \in Nat, OneList(V, L, N),
           NEW w \in L, NEW p \in L, Len(w) <= N
    PROVE  OneEnd(w, p)
<1>1. \A f, g \in L \cup {<<>>}, a, b \in Ended :
        Len(f) <= N /\ f \o a = g \o b => f = g
  BY OneWithin
<1> QED BY <1>1 DEF OneEnd

\* The lists end alike.
LEMMA SameRest ==
    ASSUME NEW V, NEW L, Language(V, L), NEW N \in Nat, OneList(V, L, N),
           NEW r \in Rests(L), NEW q \in Rests(L), Len(r) <= N + 1
    PROVE  OneEnd(r, q)
<1> SUFFICES ASSUME NEW x \in Ended, NEW y \in Ended, r \o x = q \o y
             PROVE  r = q
  BY DEF OneEnd
<1>1. x \in Seq(Words) /\ y \in Seq(Words)
  BY DEF Ended
<1>2. PICK b \in Closers, e \in Seq(Words) : x = <<b>> \o e
  BY DEF Ended
<1>3. PICK d \in Closers, f \in Seq(Words) : y = <<d>> \o f
  BY DEF Ended
<1>4. b \in Words /\ d \in Words /\ "," \in Words /\ b # "," /\ d # ","
  BY MarksAreWords DEF Marks
<1>5. CASE r = <<>> /\ q = <<>>
  BY <1>5
<1>6. CASE r = <<>> /\ q # <<>>
  <2>1. PICK l \in L : q = <<",">> \o l
    BY <1>6 DEF Rests
  <2>2. l \in Seq(Words)
    BY DEF Language
  <2>3. (<<",">> \o l) \o y = <<",">> \o (l \o y) /\ l \o y \in Seq(Words)
    BY <1>1, <1>4, <2>2, HeadMoves
  <2>4. r \o x = <<b>> \o e
    BY <1>1, <1>2, <1>6, ConcatEmptySeq
  <2>5. PICK z \in Seq(Words) : z = l \o y
    BY <2>3
  <2>6. <<b>> \o e = <<",">> \o z
    BY <2>1, <2>3, <2>4, <2>5
  <2>7. (<<b>> \o e)[1] = b
    BY <1>4, Heads
  <2>8. (<<",">> \o z)[1] = ","
    BY <1>4, Heads
  <2> QED BY <1>4, <2>6, <2>7, <2>8
<1>7. CASE r # <<>> /\ q = <<>>
  <2>1. PICK l \in L : r = <<",">> \o l
    BY <1>7 DEF Rests
  <2>2. l \in Seq(Words)
    BY DEF Language
  <2>3. (<<",">> \o l) \o x = <<",">> \o (l \o x) /\ l \o x \in Seq(Words)
    BY <1>1, <1>4, <2>2, HeadMoves
  <2>4. q \o y = <<d>> \o f
    BY <1>1, <1>3, <1>7, ConcatEmptySeq
  <2>5. PICK z \in Seq(Words) : z = l \o x
    BY <2>3
  <2>6. <<d>> \o f = <<",">> \o z
    BY <2>1, <2>3, <2>4, <2>5
  <2>7. (<<d>> \o f)[1] = d
    BY <1>4, Heads
  <2>8. (<<",">> \o z)[1] = ","
    BY <1>4, Heads
  <2> QED BY <1>4, <2>6, <2>7, <2>8
<1>8. CASE r # <<>> /\ q # <<>>
  <2>1. PICK l \in L : r = <<",">> \o l
    BY <1>8 DEF Rests
  <2>2. PICK m \in L : q = <<",">> \o m
    BY <1>8 DEF Rests
  <2>3. l \in Seq(Words) /\ m \in Seq(Words)
    BY DEF Language
  <2>4. (<<",">> \o l) \o x = <<",">> \o (l \o x) /\ l \o x \in Seq(Words)
    BY <1>1, <1>4, <2>3, HeadMoves
  <2>5. (<<",">> \o m) \o y = <<",">> \o (m \o y) /\ m \o y \in Seq(Words)
    BY <1>1, <1>4, <2>3, HeadMoves
  <2>6. Tail(<<",">> \o (l \o x)) = l \o x
    BY <1>4, <2>4, Heads
  <2>7. Tail(<<",">> \o (m \o y)) = m \o y
    BY <1>4, <2>5, Heads
  <2>8. l \o x = m \o y
    BY <2>1, <2>2, <2>4, <2>5, <2>6, <2>7
  <2>9. Len(l) <= N
    <3>1. Len(r) = Len(l) + 1
      BY <2>1, <2>3, <1>4, Heads
    <3>2. Len(l) \in Nat
      BY <2>3
    <3> QED BY <3>1, <3>2
  <2>10. OneEnd(l, m)
    BY <2>9, SameWithin
  <2> QED BY <2>1, <2>2, <2>8, <2>10 DEF OneEnd
<1> QED BY <1>5, <1>6, <1>7, <1>8

\* Two items that have the same name, or none.
OneTail(m, n) ==
    \A x, y \in Ended :
      m[2] \o (m[3] \o x) = n[2] \o (n[3] \o y) => m[2] = n[2] /\ m[3] = n[3]

LEMMA SameBehind ==
    ASSUME NEW V, NEW L, Language(V, L), NEW N \in Nat, OneList(V, L, N),
           OneValue(V, N + 1), NEW m \in Items(V, L), NEW n \in Items(V, L),
           Len(Spell(m)) <= N + 1
    PROVE  OneTail(m, n)
<1> SUFFICES ASSUME NEW x \in Ended, NEW y \in Ended,
                    m[2] \o (m[3] \o x) = n[2] \o (n[3] \o y)
             PROVE  m[2] = n[2] /\ m[3] = n[3]
  BY DEF OneTail
<1>1. x \in Seq(Words) /\ y \in Seq(Words)
  BY DEF Ended
<1>2. m[3] \o x \in Seq(Words) /\ Len(Spell(m)) = Len(m[1]) + Len(m[2]) + Len(m[3])
  <2>1. Regrouped(m, x)
    BY <1>1, Regroup
  <2> QED BY <2>1 DEF Regrouped
<1>3. n[3] \o y \in Seq(Words)
  <2>1. Regrouped(n, y)
    BY <1>1, Regroup
  <2> QED BY <2>1 DEF Regrouped
<1>4. m[1] \in Names /\ m[2] \in V /\ m[3] \in Rests(L)
  BY PartsAreWords
<1>5. n[2] \in V /\ n[3] \in Rests(L)
  BY PartsAreWords
<1>6. m[1] \in Seq(Words) /\ m[2] \in Seq(Words) /\ m[3] \in Seq(Words)
  BY <1>4, PartsAreWords
<1>7. Len(m[1]) \in Nat /\ Len(m[2]) \in Nat /\ Len(m[3]) \in Nat
  BY <1>6
<1>8. Len(m[2]) <= N + 1 /\ Len(m[3]) <= N + 1
  <2>1. \A a, b, c \in Nat : a + b + c <= N + 1 => b <= N + 1 /\ c <= N + 1
    OBVIOUS
  <2> QED BY <1>2, <1>7, <2>1
<1>9. m[2] = n[2]
  BY <1>2, <1>3, <1>4, <1>5, <1>8 DEF OneValue
<1>10. m[3] \o x = n[3] \o y
  <2>1. PICK a \in Seq(Words) : a = m[3] \o x
    BY <1>2
  <2>2. PICK b \in Seq(Words) : b = n[3] \o y
    BY <1>3
  <2>3. PICK v \in Seq(Words) : v = m[2]
    BY <1>6
  <2>4. v \o a = v \o b
    BY <1>9, <2>1, <2>2, <2>3
  <2>5. a = b
    BY <2>4, Cancelled
  <2> QED BY <2>1, <2>2, <2>5
<1>11. OneEnd(m[3], n[3])
  BY <1>4, <1>5, <1>8, SameRest
<1> QED BY <1>9, <1>10, <1>11 DEF OneEnd

LEMMA NextList ==
    ASSUME NEW V, NEW L, Language(V, L), NEW N \in Nat, OneList(V, L, N),
           OneValue(V, N + 1)
    PROVE  OneList(V, L, N + 1)
<1> SUFFICES ASSUME NEW m \in Items(V, L), NEW n \in Items(V, L),
                    NEW x \in Ended, NEW y \in Ended, Len(Spell(m)) <= N + 1,
                    Spell(m) \o x = Spell(n) \o y
             PROVE  m = n
  BY DEF OneList
<1>1. x \in Seq(Words) /\ y \in Seq(Words)
  BY DEF Ended
<1>2. Spell(m) \o x = m[1] \o (m[2] \o (m[3] \o x)) /\ m[3] \o x \in Seq(Words)
  <2>1. Regrouped(m, x)
    BY <1>1, Regroup
  <2> QED BY <2>1 DEF Regrouped
<1>3. Spell(n) \o y = n[1] \o (n[2] \o (n[3] \o y)) /\ n[3] \o y \in Seq(Words)
  <2>1. Regrouped(n, y)
    BY <1>1, Regroup
  <2> QED BY <2>1 DEF Regrouped
<1>4. m[1] \in Names /\ m[2] \in V /\ m[3] \in Rests(L)
  BY PartsAreWords
<1>5. n[1] \in Names /\ n[2] \in V /\ n[3] \in Rests(L)
  BY PartsAreWords
<1>6. m[2] \in Seq(Words) /\ n[2] \in Seq(Words)
  BY <1>4, <1>5, PartsAreWords
<1>7. PICK f \in Seq(Words) : f = m[2] \o (m[3] \o x)
  BY <1>2, <1>6, Joined
<1>8. PICK g \in Seq(Words) : g = n[2] \o (n[3] \o y)
  BY <1>3, <1>6, Joined
<1>9. m[1] \o f = n[1] \o g
  BY <1>2, <1>3, <1>7, <1>8
<1>10. m[1] = n[1] /\ f = g
  <2>1. CASE m[1] = <<>> /\ n[1] = <<>>
    <3>1. m[1] \o f = f /\ n[1] \o g = g
      BY <2>1, ConcatEmptySeq
    <3> QED BY <1>9, <2>1, <3>1
  <2>2. CASE m[1] # <<>> /\ n[1] # <<>>
    <3>1. PICK k \in Strings : m[1] = <<k, ":">>
      BY <1>4, <2>2 DEF Names
    <3>2. PICK j \in Strings : n[1] = <<j, ":">>
      BY <1>5, <2>2 DEF Names
    <3>3. k \in Words /\ j \in Words /\ ":" \in Words
      BY WordKinds
    <3>4. PICK a \in Seq(Words) : a = <<":">> \o f
      BY <3>3, FewWords, Joined
    <3>5. PICK b \in Seq(Words) : b = <<":">> \o g
      BY <3>3, FewWords, Joined
    <3>6. <<k, ":">> \o f = <<k>> \o a
      BY <3>3, <3>4, TwoWords
    <3>7. <<j, ":">> \o g = <<j>> \o b
      BY <3>3, <3>5, TwoWords
    <3>8. <<k>> \o a = <<j>> \o b
      BY <1>9, <3>1, <3>2, <3>6, <3>7
    <3>9. (<<k>> \o a)[1] = k /\ Tail(<<k>> \o a) = a
      BY <3>3, Heads
    <3>10. (<<j>> \o b)[1] = j /\ Tail(<<j>> \o b) = b
      BY <3>3, Heads
    <3>11. k = j /\ a = b
      BY <3>8, <3>9, <3>10
    <3>12. Tail(<<":">> \o f) = f
      BY <3>3, Heads
    <3>13. Tail(<<":">> \o g) = g
      BY <3>3, Heads
    <3>14. f = g
      BY <3>4, <3>5, <3>11, <3>12, <3>13
    <3> QED BY <3>1, <3>2, <3>11, <3>14
  <2>3. CASE m[1] # <<>> /\ n[1] = <<>>
    <3>1. PICK k \in Strings : m[1] = <<k, ":">>
      BY <1>4, <2>3 DEF Names
    <3>2. n[1] \o g = g
      BY <2>3, ConcatEmptySeq
    <3>3. Unlike(L, n[2], <<k, ":">> \o f)
      BY <1>5, NotNamed
    <3> QED BY <1>5, <1>8, <1>9, <3>1, <3>2, <3>3 DEF Unlike
  <2>4. CASE m[1] = <<>> /\ n[1] # <<>>
    <3>1. PICK k \in Strings : n[1] = <<k, ":">>
      BY <1>5, <2>4 DEF Names
    <3>2. m[1] \o f = f
      BY <2>4, ConcatEmptySeq
    <3>3. Unlike(L, m[2], <<k, ":">> \o g)
      BY <1>4, NotNamed
    <3> QED BY <1>4, <1>7, <1>9, <3>1, <3>2, <3>3 DEF Unlike
  <2> QED BY <2>1, <2>2, <2>3, <2>4
<1>11. OneTail(m, n)
  BY SameBehind
<1>12. m[2] = n[2] /\ m[3] = n[3]
  BY <1>7, <1>8, <1>10, <1>11 DEF OneTail
<1> QED BY <1>10, <1>12 DEF Items

LEMMA NotEmpty ==
    ASSUME NEW V, NEW L, Language(V, L), NEW v \in V
    PROVE  Len(v) > 0
<1>1. PICK k \in Words, z \in Seq(Words) : v = <<k>> \o z
  BY ValueBegins
<1>2. Len(v) = Len(z) + 1 /\ Len(z) \in Nat
  BY <1>1, Heads
<1>3. \A i \in Nat : i + 1 > 0
  OBVIOUS
<1> QED BY <1>2, <1>3

\* However long they are.
LEMMA OneReading ==
    ASSUME NEW V, NEW L, Language(V, L)
    PROVE  \A N \in Nat : OneValue(V, N) /\ OneList(V, L, N)
<1> DEFINE T == {N \in Nat : OneValue(V, N) /\ OneList(V, L, N)}
<1>0. \A v \in V : Len(v) > 0
  BY NotEmpty
<1>1. 0 \in T
  <2>1. OneValue(V, 0)
    <3>1. \A v \in V : Len(v) \in Nat
      BY DEF Language
    <3> QED BY <1>0, <3>1 DEF OneValue
  <2>2. OneList(V, L, 0)
    <3> SUFFICES ASSUME NEW m \in Items(V, L)
                 PROVE  ~(Len(Spell(m)) <= 0)
      BY DEF OneList
    <3>1. <<>> \in Seq(Words)
      BY NoWords
    <3>2. Len(Spell(m)) = Len(m[1]) + Len(m[2]) + Len(m[3])
      BY <3>1, Regroup DEF Regrouped
    <3>3. m[1] \in Names /\ m[2] \in V /\ m[3] \in Rests(L)
      BY PartsAreWords
    <3>4. m[1] \in Seq(Words) /\ m[2] \in Seq(Words) /\ m[3] \in Seq(Words)
      BY <3>3, PartsAreWords
    <3>5. Len(m[2]) > 0
      BY <1>0, <3>3
    <3>6. Len(m[1]) \in Nat /\ Len(m[2]) \in Nat /\ Len(m[3]) \in Nat
      BY <3>4
    <3>7. \A a, b, c \in Nat : b > 0 => ~(a + b + c <= 0)
      OBVIOUS
    <3> QED BY <3>2, <3>5, <3>6, <3>7
  <2> QED BY <2>1, <2>2
<1>2. ASSUME NEW N \in T
      PROVE  N + 1 \in T
  <2>1. OneValue(V, N + 1)
    BY <1>2, NextValue
  <2>2. OneList(V, L, N + 1)
    BY <1>2, <2>1, NextList
  <2> QED BY <2>1, <2>2
<1>3. T = Nat
  <2> HIDE DEF T
  <2>1. T \subseteq Nat
    BY DEF T
  <2> QED BY <1>1, <1>2, <2>1, Induction
<1> QED BY <1>3

(***************************************************************************)
(* A tree in memory, and how its items are spelt.                          *)
(***************************************************************************)
\* What only strings and only arrays and objects have.
KindsKept(h) ==
    \A n \in DOMAIN h :
      /\ h[n].valuestring # 0 => h[n].type = "String"
      /\ h[n].child # 0 => h[n].type \in {"Object", "Array"}

Grows(h) ==
    /\ \E c \in Nat : DOMAIN h \subseteq 1..c
    /\ \A n \in DOMAIN h : /\ h[n].next # 0 => n < h[n].next
                           /\ h[n].child # 0 => n < h[n].child

Document(h, s, R) ==
    /\ LiveLinks(h, s) /\ KindsKept(h) /\ Grows(h)
    /\ R \in [Nat -> Seq(Words)]
    /\ Tells(h, s, R)

Values(h, s, R) == {Value(h, s, R, n) : n \in DOMAIN h}
Lists(h, R) == {R[n] : n \in DOMAIN h}

Parts(h, s, R, n) == <<Name(h, s, n), Value(h, s, R, n), Rest(h, R, n)>>

LEMMA DocumentReads ==
    ASSUME NEW h, NEW s, NEW R, Document(h, s, R)
    PROVE  /\ LiveLinks(h, s)
           /\ DOMAIN h \subseteq Nat /\ R \in [Nat -> Seq(Words)]
           /\ \A n \in DOMAIN h : R[n] = Spell(Parts(h, s, R, n))
           /\ \A n \in DOMAIN h : R[n] \in Seq(Words)
<1>1. DOMAIN h \subseteq Nat
  BY DEF Document, Grows
<1>2. ASSUME NEW n \in DOMAIN h
      PROVE  R[n] = Spell(Parts(h, s, R, n)) /\ R[n] \in Seq(Words)
  <2>1. n \in Nat
    BY <1>1
  <2>2. R[n] = Told(h, s, R, n) /\ R[n] \in Seq(Words)
    BY <2>1 DEF Document, Tells
  <2>3. Told(h, s, R, n) = (Name(h, s, n) \o Value(h, s, R, n)) \o Rest(h, R, n)
    BY DEF Told, Whole
  <2> QED BY <2>2, <2>3 DEF Spell, Parts
<1> QED BY <1>1, <1>2 DEF Document

LEMMA DocumentValue ==
    ASSUME NEW h, NEW s, NEW R, Document(h, s, R), NEW n \in DOMAIN h
    PROVE  \/ /\ h[n].type = "String" /\ h[n].valuestring # 0
              /\ Value(h, s, R, n) = <<s[h[n].valuestring]>>
              /\ s[h[n].valuestring] \in Strings
           \/ /\ h[n].valuestring = 0 /\ h[n].child = 0
              /\ Value(h, s, R, n) = <<h[n].type>> /\ h[n].type \in Types
           \/ /\ h[n].valuestring = 0 /\ h[n].type \in {"Object", "Array"}
              /\ Value(h, s, R, n) = Enclosed(h[n].type = "Object",
                                              IF h[n].child = 0 THEN <<>> ELSE R[h[n].child])
<1>1. /\ h[n] \in Nodes /\ h[n].valuestring \in DOMAIN s \cup {0}
      /\ s \in [DOMAIN s -> Strings]
  BY DEF Document, LiveLinks
<1>2. h[n].type \in Types
  BY <1>1 DEF Nodes
<1>3. /\ h[n].valuestring # 0 => h[n].type = "String"
      /\ h[n].child # 0 => h[n].type \in {"Object", "Array"}
  BY DEF Document, KindsKept
<1>4. CASE h[n].type = "String" /\ h[n].valuestring # 0
  BY <1>1, <1>4 DEF Value
<1>5. CASE ~(h[n].type = "String" /\ h[n].valuestring # 0) /\ h[n].type \in {"Object", "Array"}
  BY <1>3, <1>5 DEF Value, Enclosed
<1>6. CASE ~(h[n].type = "String" /\ h[n].valuestring # 0) /\ h[n].type \notin {"Object", "Array"}
  BY <1>2, <1>3, <1>6 DEF Value
<1> QED BY <1>4, <1>5, <1>6

LEMMA DocumentLanguage ==
    ASSUME NEW h, NEW s, NEW R, Document(h, s, R)
    PROVE  /\ Language(Values(h, s, R), Lists(h, R))
           /\ \A n \in DOMAIN h : Parts(h, s, R, n) \in Items(Values(h, s, R), Lists(h, R))
<1> DEFINE V == Values(h, s, R)
           L == Lists(h, R)
<1>1. LiveLinks(h, s) /\ \A n \in DOMAIN h : R[n] \in Seq(Words)
  BY DocumentReads
<1>2. R \in [Nat -> Seq(Words)] /\ DOMAIN h \subseteq Nat
  BY DocumentReads
<1>3. ASSUME NEW n \in DOMAIN h
      PROVE  /\ Value(h, s, R, n) \in Atoms
                \/ \E o \in BOOLEAN, w \in L \cup {<<>>} : Value(h, s, R, n) = Enclosed(o, w)
             /\ Value(h, s, R, n) \in Seq(Words)
             /\ Name(h, s, n) \in Names
             /\ Rest(h, R, n) \in Rests(L)
  <2>1. /\ h[n].string \in DOMAIN s \cup {0} /\ h[n].next \in DOMAIN h \cup {0}
        /\ h[n].child \in DOMAIN h \cup {0} /\ s \in [DOMAIN s -> Strings]
    BY <1>1 DEF LiveLinks
  <2>2. Name(h, s, n) \in Names
    BY <2>1 DEF Name, Names
  <2>3. Rest(h, R, n) \in Rests(L)
    BY <2>1 DEF Rest, Rests, Lists
  <2>4. \A k \in Strings \cup Types : <<k>> \in Atoms /\ <<k>> \in Seq(Words)
    BY NoMark, FewWords DEF Atoms
  <2>5. (IF h[n].child = 0 THEN <<>> ELSE R[h[n].child]) \in L \cup {<<>>}
    BY <2>1 DEF Lists
  <2>6. ASSUME NEW o \in BOOLEAN, NEW w \in L \cup {<<>>}
        PROVE  Enclosed(o, w) \in Seq(Words)
    <3>1. w \in Seq(Words)
      BY <1>1, NoWords DEF Lists
    <3>2. PICK a \in Words : a = Opener(o)
      BY WordKinds
    <3>3. PICK b \in Words : b = Closer(o)
      BY WordKinds
    <3>4. <<a>> \in Seq(Words) /\ <<b>> \in Seq(Words)
      BY FewWords
    <3>5. <<a>> \o w \in Seq(Words)
      BY <3>1, <3>4, Joined
    <3>6. (<<a>> \o w) \o <<b>> \in Seq(Words)
      BY <3>4, <3>5, Joined
    <3> QED BY <3>2, <3>3, <3>6 DEF Enclosed
  <2>7. (h[n].type = "Object") \in BOOLEAN
    OBVIOUS
  <2> HIDE DEF L
  <2>8. /\ Value(h, s, R, n) \in Atoms
           \/ \E o \in BOOLEAN, w \in L \cup {<<>>} : Value(h, s, R, n) = Enclosed(o, w)
        /\ Value(h, s, R, n) \in Seq(Words)
    <3>1. PICK w \in L \cup {<<>>} : w = IF h[n].child = 0 THEN <<>> ELSE R[h[n].child]
      BY <2>5
    <3>2. PICK o \in BOOLEAN : o = (h[n].type = "Object")
      BY <2>7
    <3>3. CASE Value(h, s, R, n) = Enclosed(o, w)
      BY <2>6, <3>3
    <3>4. CASE \E k \in Strings \cup Types : Value(h, s, R, n) = <<k>>
      BY <2>4, <3>4
    <3>5. Value(h, s, R, n) = Enclosed(o, w) \/ \E k \in Strings \cup Types : Value(h, s, R, n) = <<k>>
      BY <3>1, <3>2, DocumentValue
    <3> QED BY <3>3, <3>4, <3>5
  <2> QED BY <2>2, <2>3, <2>8
<1>4. ASSUME NEW n \in DOMAIN h
      PROVE  Parts(h, s, R, n) \in Items(V, L)
  BY <1>3 DEF Parts, Items, Values
<1>5. ASSUME NEW l \in L
      PROVE  l \in Seq(Words) /\ \E m \in Items(V, L) : l = Spell(m)
  <2>1. PICK n \in DOMAIN h : l = R[n]
    BY DEF Lists
  <2>2. R[n] = Spell(Parts(h, s, R, n))
    BY DocumentReads
  <2> HIDE DEF V, L
  <2> QED BY <1>1, <1>4, <2>1, <2>2
<1>6. ASSUME NEW v \in V
      PROVE  /\ v \in Atoms \/ \E o \in BOOLEAN, w \in L \cup {<<>>} : v = Enclosed(o, w)
             /\ v \in Seq(Words)
  <2>1. PICK n \in DOMAIN h : v = Value(h, s, R, n)
    BY DEF Values
  <2> HIDE DEF V, L
  <2> QED BY <1>3, <2>1
<1> HIDE DEF V, L
<1>7. Language(V, L)
  BY <1>5, <1>6 DEF Language
<1> QED BY <1>4, <1>7 DEF V, L

LEMMA TwoLanguages ==
    ASSUME NEW V, NEW L, Language(V, L), NEW W, NEW M, Language(W, M)
    PROVE  /\ Language(V \cup W, L \cup M)
           /\ Items(V, L) \subseteq Items(V \cup W, L \cup M)
           /\ Items(W, M) \subseteq Items(V \cup W, L \cup M)
<1>1. Rests(L) \subseteq Rests(L \cup M) /\ Rests(M) \subseteq Rests(L \cup M)
  BY DEF Rests
<1>2. /\ Items(V, L) \subseteq Items(V \cup W, L \cup M)
      /\ Items(W, M) \subseteq Items(V \cup W, L \cup M)
  BY <1>1 DEF Items
<1>3. V \cup W \subseteq Seq(Words) /\ L \cup M \subseteq Seq(Words)
  BY DEF Language
<1>4. ASSUME NEW v \in V \cup W
      PROVE  v \in Atoms \/ \E o \in BOOLEAN, w \in (L \cup M) \cup {<<>>} : v = Enclosed(o, w)
  BY DEF Language
<1>5. ASSUME NEW l \in L \cup M
      PROVE  \E m \in Items(V \cup W, L \cup M) : l = Spell(m)
  BY <1>2 DEF Language
<1> QED BY <1>2, <1>3, <1>4, <1>5 DEF Language

LEMMA OneSpelling ==
    ASSUME NEW V, NEW L, Language(V, L), NEW m \in Items(V, L), NEW n \in Items(V, L),
           Spell(m) = Spell(n)
    PROVE  m = n
<1>1. "]" \in Words /\ "]" \in Closers
  BY WordKinds DEF Closers
<1>2. <<"]">> \in Seq(Words) /\ <<>> \in Seq(Words)
  BY <1>1, FewWords, NoWords
<1>3. <<"]">> = <<"]">> \o <<>>
  BY <1>2, ConcatEmptySeq
<1>4. PICK x \in Ended : x = <<"]">>
  BY <1>1, <1>2, <1>3 DEF Ended
<1>5. Spell(m) \in Seq(Words)
  BY PartsAreWords
<1>6. PICK N \in Nat : N = Len(Spell(m))
  BY <1>5
<1>7. OneList(V, L, N)
  BY OneReading
<1>8. Spell(m) \o x = Spell(n) \o x /\ Len(Spell(m)) <= N
  BY <1>6
<1> QED BY <1>7, <1>8 DEF OneList

\* A tree in memory: its items, its strings and how they are spelt.
IsDocument(d) == Document(d.heap, d.strings, d.reading)
PartsOf(d, n) == Parts(d.heap, d.strings, d.reading, n)

\* Items of two trees whose lists from there on are spelt alike.
Twins(d, n, e, m) ==
    IF n = 0 THEN m = 0
    ELSE /\ n \in DOMAIN d.heap /\ m \in DOMAIN e.heap
         /\ d.reading[n] = e.reading[m]

LEMMA SameParts ==
    ASSUME NEW d, NEW e, IsDocument(d), IsDocument(e), NEW n, NEW m,
           Twins(d, n, e, m), n # 0
    PROVE  PartsOf(d, n) = PartsOf(e, m)
<1> DEFINE V == Values(d.heap, d.strings, d.reading)
           L == Lists(d.heap, d.reading)
           W == Values(e.heap, e.strings, e.reading)
           M == Lists(e.heap, e.reading)
<1>1. n \in DOMAIN d.heap /\ m \in DOMAIN e.heap /\ d.reading[n] = e.reading[m]
  BY DEF Twins
<1>2. /\ Language(V, L) /\ PartsOf(d, n) \in Items(V, L)
      /\ d.reading[n] = Spell(PartsOf(d, n))
  BY <1>1, DocumentLanguage, DocumentReads DEF IsDocument, PartsOf
<1>3. /\ Language(W, M) /\ PartsOf(e, m) \in Items(W, M)
      /\ e.reading[m] = Spell(PartsOf(e, m))
  BY <1>1, DocumentLanguage, DocumentReads DEF IsDocument, PartsOf
<1> HIDE DEF V, L, W, M
<1>4. /\ Language(V \cup W, L \cup M)
      /\ PartsOf(d, n) \in Items(V \cup W, L \cup M)
      /\ PartsOf(e, m) \in Items(V \cup W, L \cup M)
  BY <1>2, <1>3, TwoLanguages
<1> QED BY <1>1, <1>2, <1>3, <1>4, OneSpelling

LEMMA TwinParts ==
    ASSUME NEW d, NEW e, IsDocument(d), IsDocument(e), NEW n, NEW m,
           Twins(d, n, e, m), n # 0
    PROVE  /\ Name(d.heap, d.strings, n) = Name(e.heap, e.strings, m)
           /\ Value(d.heap, d.strings, d.reading, n) = Value(e.heap, e.strings, e.reading, m)
           /\ Rest(d.heap, d.reading, n) = Rest(e.heap, e.reading, m)
<1>1. PartsOf(d, n) = PartsOf(e, m)
  BY SameParts
<1> QED BY <1>1 DEF PartsOf, Parts

LEMMA TwinNames ==
    ASSUME NEW d, NEW e, IsDocument(d), IsDocument(e), NEW n, NEW m,
           Twins(d, n, e, m), n # 0
    PROVE  /\ d.heap[n].string = 0 <=> e.heap[m].string = 0
           /\ d.heap[n].string # 0 =>
                d.strings[d.heap[n].string] = e.strings[e.heap[m].string]
<1>1. Name(d.heap, d.strings, n) = Name(e.heap, e.strings, m)
  BY TwinParts
<1>2. \A k : <<k, ":">> # <<>> /\ <<k, ":">>[1] = k
  OBVIOUS
<1> QED BY <1>1, <1>2 DEF Name

LEMMA TwinNexts ==
    ASSUME NEW d, NEW e, IsDocument(d), IsDocument(e), NEW n, NEW m,
           Twins(d, n, e, m), n # 0
    PROVE  Twins(d, d.heap[n].next, e, e.heap[m].next)
<1>1. n \in DOMAIN d.heap /\ m \in DOMAIN e.heap
  BY DEF Twins
<1>2. Rest(d.heap, d.reading, n) = Rest(e.heap, e.reading, m)
  BY TwinParts
<1>3. /\ d.heap[n].next \in DOMAIN d.heap \cup {0} /\ e.heap[m].next \in DOMAIN e.heap \cup {0}
      /\ 0 \notin DOMAIN e.heap /\ 0 \notin DOMAIN d.heap
  BY <1>1 DEF IsDocument, Document, LiveLinks
<1>4. "," \in Words
  BY WordKinds
<1>5. \A a \in DOMAIN d.heap : d.reading[a] \in Seq(Words)
  BY DocumentReads DEF IsDocument
<1>6. \A a \in DOMAIN e.heap : e.reading[a] \in Seq(Words)
  BY DocumentReads DEF IsDocument
<1>7. ASSUME NEW w \in Seq(Words)
      PROVE  <<",">> \o w # <<>> /\ Tail(<<",">> \o w) = w
  <2>1. Len(<<",">> \o w) = Len(w) + 1 /\ Len(w) \in Nat /\ Tail(<<",">> \o w) = w
    BY <1>4, Heads
  <2>2. Len(<<>>) = 0 /\ \A i \in Nat : i + 1 # 0
    OBVIOUS
  <2> QED BY <2>1, <2>2
<1>8. CASE d.heap[n].next = 0
  <2>1. Rest(e.heap, e.reading, m) = <<>>
    BY <1>2, <1>8 DEF Rest
  <2>2. e.heap[m].next = 0
    BY <1>3, <1>6, <1>7, <2>1 DEF Rest
  <2> QED BY <1>8, <2>2 DEF Twins
<1>9. CASE d.heap[n].next # 0
  <2>1. PICK w \in Seq(Words) : w = d.reading[d.heap[n].next]
    BY <1>3, <1>5, <1>9
  <2>2. Rest(e.heap, e.reading, m) = <<",">> \o w
    BY <1>2, <1>9, <2>1 DEF Rest
  <2>3. e.heap[m].next # 0
    BY <1>7, <2>2 DEF Rest
  <2>4. PICK u \in Seq(Words) : u = e.reading[e.heap[m].next]
    BY <1>3, <1>6, <2>3
  <2>5. <<",">> \o w = <<",">> \o u
    BY <2>2, <2>3, <2>4 DEF Rest
  <2>6. w = u
    BY <1>7, <2>5
  <2> QED BY <1>3, <1>9, <2>1, <2>3, <2>4, <2>6 DEF Twins
<1> QED BY <1>8, <1>9

LEMMA AtomAlone ==
    ASSUME NEW k \in Words \ Marks, NEW o \in BOOLEAN, NEW w \in Seq(Words)
    PROVE  <<k>> # Enclosed(o, w)
<1>1. PICK x \in Seq(Words) : x = <<>>
  BY NoWords
<1>2. <<k>> \o x # Enclosed(o, w) \o x
  BY AtomOpens
<1> QED BY <1>2

LEMMA TwinValues ==
    ASSUME NEW d, NEW e, IsDocument(d), IsDocument(e), NEW n, NEW m,
           Twins(d, n, e, m), n # 0, d.heap[n].valuestring # 0
    PROVE  /\ e.heap[m].valuestring # 0
           /\ d.strings[d.heap[n].valuestring] = e.strings[e.heap[m].valuestring]
<1>1. n \in DOMAIN d.heap /\ m \in DOMAIN e.heap
  BY DEF Twins
<1>2. Value(d.heap, d.strings, d.reading, n) = Value(e.heap, e.strings, e.reading, m)
  BY TwinParts
<1>3. PICK k \in Strings : k = d.strings[d.heap[n].valuestring] /\ Value(d.heap, d.strings, d.reading, n) = <<k>>
  BY <1>1, DocumentValue DEF IsDocument
<1>4. \A a \in DOMAIN e.heap : e.reading[a] \in Seq(Words)
  BY DocumentReads DEF IsDocument
<1>5. e.heap[m].child \in DOMAIN e.heap \cup {0}
  BY <1>1 DEF IsDocument, Document, LiveLinks
<1>6. PICK w \in Seq(Words) : w = IF e.heap[m].child = 0 THEN <<>> ELSE e.reading[e.heap[m].child]
  BY <1>4, <1>5, NoWords
<1>7. PICK o \in BOOLEAN : o = (e.heap[m].type = "Object")
  OBVIOUS
<1>8. <<k>> # Enclosed(o, w)
  BY NoMark, AtomAlone
<1>9. \A l \in Strings \cup Types : <<k>> = <<l>> => k = l
  OBVIOUS
<1>10. CASE /\ e.heap[m].type = "String" /\ e.heap[m].valuestring # 0
            /\ Value(e.heap, e.strings, e.reading, m) = <<e.strings[e.heap[m].valuestring]>>
            /\ e.strings[e.heap[m].valuestring] \in Strings
  <2>1. PICK l \in Strings : l = e.strings[e.heap[m].valuestring]
    BY <1>10
  <2>2. <<k>> = <<l>>
    BY <1>2, <1>3, <1>10, <2>1
  <2> QED BY <1>3, <1>9, <1>10, <2>1, <2>2
<1>11. CASE /\ e.heap[m].valuestring = 0 /\ e.heap[m].child = 0
            /\ Value(e.heap, e.strings, e.reading, m) = <<e.heap[m].type>> /\ e.heap[m].type \in Types
  <2>3. PICK l \in Types : l = e.heap[m].type
    BY <1>11
  <2>4. <<k>> = <<l>>
    BY <1>2, <1>3, <1>11, <2>3
  <2>1. k = e.heap[m].type
    BY <1>9, <2>3, <2>4
  <2>2. k \notin Types
    BY ParserAssumption DEF Types, Plain
  <2> QED BY <1>11, <2>1, <2>2
<1>12. CASE /\ e.heap[m].valuestring = 0 /\ e.heap[m].type \in {"Object", "Array"}
            /\ Value(e.heap, e.strings, e.reading, m) = Enclosed(e.heap[m].type = "Object",
                                IF e.heap[m].child = 0 THEN <<>> ELSE e.reading[e.heap[m].child])
  BY <1>2, <1>3, <1>6, <1>7, <1>8, <1>12
<1>13. \/ /\ e.heap[m].type = "String" /\ e.heap[m].valuestring # 0
          /\ Value(e.heap, e.strings, e.reading, m) = <<e.strings[e.heap[m].valuestring]>>
          /\ e.strings[e.heap[m].valuestring] \in Strings
       \/ /\ e.heap[m].valuestring = 0 /\ e.heap[m].child = 0
          /\ Value(e.heap, e.strings, e.reading, m) = <<e.heap[m].type>> /\ e.heap[m].type \in Types
       \/ /\ e.heap[m].valuestring = 0 /\ e.heap[m].type \in {"Object", "Array"}
          /\ Value(e.heap, e.strings, e.reading, m) = Enclosed(e.heap[m].type = "Object",
                              IF e.heap[m].child = 0 THEN <<>> ELSE e.reading[e.heap[m].child])
  BY <1>1, DocumentValue DEF IsDocument
<1> QED BY <1>10, <1>11, <1>12, <1>13

LEMMA SameEnclosed ==
    ASSUME NEW o \in BOOLEAN, NEW w \in Seq(Words), NEW p \in BOOLEAN, NEW u \in Seq(Words),
           Enclosed(o, w) = Enclosed(p, u)
    PROVE  w = u
<1>1. PICK a \in Words : a = Opener(o)
  BY WordKinds
<1>2. PICK b \in Words : b = Closer(o)
  BY WordKinds
<1>3. PICK c \in Words : c = Opener(p)
  BY WordKinds
<1>4. PICK g \in Words : g = Closer(p)
  BY WordKinds
<1>5. PICK y \in Seq(Words) : y = <<b>>
  BY FewWords
<1>6. PICK z \in Seq(Words) : z = <<g>>
  BY FewWords
<1>7. (<<a>> \o w) \o y = <<a>> \o (w \o y) /\ w \o y \in Seq(Words)
  BY HeadMoves
<1>8. (<<c>> \o u) \o z = <<c>> \o (u \o z) /\ u \o z \in Seq(Words)
  BY HeadMoves
<1>9. PICK e \in Seq(Words) : e = w \o y
  BY <1>7
<1>10. PICK f \in Seq(Words) : f = u \o z
  BY <1>8
<1>11. <<a>> \o e = <<c>> \o f
  BY <1>1, <1>2, <1>3, <1>4, <1>5, <1>6, <1>7, <1>8, <1>9, <1>10 DEF Enclosed
<1>12. (<<a>> \o e)[1] = a /\ Tail(<<a>> \o e) = e
  BY Heads
<1>13. (<<c>> \o f)[1] = c /\ Tail(<<c>> \o f) = f
  BY Heads
<1>14. a = c /\ w \o y = u \o z
  BY <1>9, <1>10, <1>11, <1>12, <1>13
<1>15. b = g
  BY <1>1, <1>2, <1>3, <1>4, <1>14, SameBracket
<1>16. w \o y = u \o y
  BY <1>5, <1>6, <1>14, <1>15
<1> QED BY <1>16, ConcatSimplifications

LEMMA TwinChildren ==
    ASSUME NEW d, NEW e, IsDocument(d), IsDocument(e), NEW n, NEW m,
           Twins(d, n, e, m), n # 0, d.heap[n].child # 0, e.heap[m].child # 0
    PROVE  Twins(d, d.heap[n].child, e, e.heap[m].child)
<1>1. n \in DOMAIN d.heap /\ m \in DOMAIN e.heap
  BY DEF Twins
<1>2. Value(d.heap, d.strings, d.reading, n) = Value(e.heap, e.strings, e.reading, m)
  BY TwinParts
<1>3. /\ d.heap[n].child \in DOMAIN d.heap /\ e.heap[m].child \in DOMAIN e.heap
      /\ d.heap[n].type \in {"Object", "Array"} /\ e.heap[m].type \in {"Object", "Array"}
  BY <1>1 DEF IsDocument, Document, LiveLinks, KindsKept
<1>12. \A a \in DOMAIN d.heap : d.reading[a] \in Seq(Words)
  BY DocumentReads DEF IsDocument
<1>13. \A a \in DOMAIN e.heap : e.reading[a] \in Seq(Words)
  BY DocumentReads DEF IsDocument
<1>4. PICK w \in Seq(Words) : w = d.reading[d.heap[n].child]
  BY <1>3, <1>12
<1>5. PICK u \in Seq(Words) : u = e.reading[e.heap[m].child]
  BY <1>3, <1>13
<1>6. PICK o \in BOOLEAN : o = (d.heap[n].type = "Object")
  OBVIOUS
<1>7. PICK p \in BOOLEAN : p = (e.heap[m].type = "Object")
  OBVIOUS
<1>8. Value(d.heap, d.strings, d.reading, n) = Enclosed(o, w)
  BY <1>3, <1>4, <1>6 DEF Value, Enclosed
<1>9. Value(e.heap, e.strings, e.reading, m) = Enclosed(p, u)
  BY <1>3, <1>5, <1>7 DEF Value, Enclosed
<1>10. w = u
  BY <1>2, <1>8, <1>9, SameEnclosed
<1>11. 0 \notin DOMAIN d.heap
  BY DEF IsDocument, Document, LiveLinks
<1> QED BY <1>3, <1>4, <1>5, <1>10, <1>11 DEF Twins

\* What holds of an item if it holds of all the younger ones holds of all.
LEMMA Younger ==
    ASSUME NEW D, NEW c \in Nat, D \subseteq 1..c, NEW P,
           \A n \in D : (\A m \in D : n < m => m \in P) => n \in P
    PROVE  D \subseteq P
<1> DEFINE T == {k \in Nat : \E n \in D : k = c - n /\ n \notin P}
<1>1. T = {}
  <2> SUFFICES ASSUME T # {}
               PROVE  FALSE
    OBVIOUS
  <2>1. PICK k \in T : \A j \in T : k <= j
    <3>1. T \subseteq Nat
      OBVIOUS
    <3> HIDE DEF T
    <3> QED BY <3>1, LeastNatural
  <2>2. PICK n \in D : k = c - n /\ n \notin P
    BY <2>1
  <2>3. ASSUME NEW m \in D, n < m, m \notin P
        PROVE  FALSE
    <3>1. c - m \in Nat
      OBVIOUS
    <3>2. c - m \in T
      BY <2>3, <3>1
    <3>3. k <= c - m
      BY <2>1, <3>2
    <3> QED BY <2>2, <2>3, <3>3
  <2> QED BY <2>2, <2>3
<1>2. ASSUME NEW n \in D
      PROVE  n \in P
  <2>1. c - n \in Nat
    OBVIOUS
  <2>2. c - n \notin T
    <3> HIDE DEF T
    <3> QED BY <1>1
  <2> QED BY <2>1, <2>2
<1> QED BY <1>2

(***************************************************************************)
(* The lookup of a name.                                                   *)
(***************************************************************************)
Named(h, s, n, name) == h[n].string # 0 /\ Lower[s[h[n].string]] = Lower[name]

\* f finds the first item from each one on that has this name.
Finds(f, h, s, name) ==
    f = [n \in DOMAIN h \cup {0} |->
           IF n = 0 \/ Named(h, s, n, name) THEN n ELSE f[h[n].next]]

LEMMA FindsLive ==
    ASSUME NEW f, NEW h, NEW s, NEW name, LiveLinks(h, s), Grows(h), Finds(f, h, s, name)
    PROVE  \A n \in DOMAIN h \cup {0} : f[n] \in DOMAIN h \cup {0}
<1> DEFINE P == {n \in DOMAIN h : f[n] \in DOMAIN h \cup {0}}
<1>1. PICK c \in Nat : DOMAIN h \subseteq 1..c
  BY DEF Grows
<1>2. \A n \in DOMAIN h \cup {0} :
        f[n] = IF n = 0 \/ Named(h, s, n, name) THEN n ELSE f[h[n].next]
  BY DEF Finds
<1>3. ASSUME NEW n \in DOMAIN h, \A m \in DOMAIN h : n < m => m \in P
      PROVE  n \in P
  <2>1. /\ h[n].next \in DOMAIN h \cup {0}
        /\ h[n].next # 0 => n < h[n].next
    BY DEF LiveLinks, Grows
  <2>2. f[h[n].next] \in DOMAIN h \cup {0}
    BY <1>2, <1>3, <2>1
  <2> QED BY <1>2, <2>2
<1>4. DOMAIN h \subseteq P
  <2> HIDE DEF P
  <2> QED BY <1>1, <1>3, Younger
<1> QED BY <1>2, <1>4

\* There is such a function.
LEMMA FindsExists ==
    ASSUME NEW h, NEW s, NEW name, LiveLinks(h, s), Grows(h)
    PROVE  \E f : Finds(f, h, s, name)
<1>1. PICK c \in Nat : DOMAIN h \subseteq 1..c
  BY DEF Grows
<1> DEFINE Late(k) == {n \in DOMAIN h : n > c - k} \cup {0}
           Step(f, n) == IF n = 0 \/ Named(h, s, n, name) THEN n ELSE f[h[n].next]
           Solves(f, k) == \A n \in Late(k) : f[n] = Step(f, n)
           T == {k \in Nat : \E f : Solves(f, k)}
<1>2. 0 \in T
  <2>1. Late(0) = {0}
    BY <1>1
  <2>2. Solves([n \in {0} |-> 0], 0)
    BY <2>1
  <2> QED BY <2>2
<1>3. ASSUME NEW k \in T
      PROVE  k + 1 \in T
  <2>1. PICK f : Solves(f, k)
    OBVIOUS
  <2> DEFINE g == [n \in Late(k + 1) |-> IF n \in Late(k) THEN f[n] ELSE Step(f, n)]
  <2>2. k \in Nat /\ Late(k) \subseteq Late(k + 1) /\ Late(k) \subseteq DOMAIN g
    BY <1>1
  <2>3. \A n \in Late(k) : g[n] = f[n]
    BY <2>2
  <2>4. ASSUME NEW n \in Late(k + 1)
        PROVE  g[n] = Step(f, n) /\ Step(g, n) = Step(f, n)
    <3>1. g[n] = Step(f, n)
      BY <2>1
    <3>2. n # 0 => h[n].next \in Late(k)
      <4> SUFFICES ASSUME n # 0
                   PROVE  h[n].next \in Late(k)
        OBVIOUS
      <4>1. n \in DOMAIN h /\ n > c - (k + 1) /\ n \in Nat
        BY <1>1
      <4>2. h[n].next \in DOMAIN h \cup {0} /\ (h[n].next # 0 => n < h[n].next)
        BY <4>1 DEF LiveLinks, Grows
      <4>3. h[n].next \in Nat
        BY <1>1, <4>2
      <4> QED BY <2>2, <4>1, <4>2, <4>3
    <3>3. n # 0 => g[h[n].next] = f[h[n].next]
      BY <2>3, <3>2
    <3> QED BY <3>1, <3>3
  <2>5. Solves(g, k + 1)
    <3> HIDE DEF g, Late, Step
    <3> QED BY <2>4
  <2>6. \E u : Solves(u, k + 1)
    <3> HIDE DEF g, Solves
    <3> QED BY <2>5
  <2> HIDE DEF Solves
  <2> QED BY <2>2, <2>6
<1>4. T = Nat
  <2> HIDE DEF T
  <2>1. T \subseteq Nat
    BY DEF T
  <2> QED BY <1>2, <1>3, <2>1, Induction
<1>5. PICK f : Solves(f, c)
  BY <1>4
<1>6. Late(c) = DOMAIN h \cup {0}
  BY <1>1
<1> DEFINE g == [n \in DOMAIN h \cup {0} |-> f[n]]
<1>7. Finds(g, h, s, name)
  <2>1. ASSUME NEW n \in DOMAIN h \cup {0}
        PROVE  g[n] = IF n = 0 \/ Named(h, s, n, name) THEN n ELSE g[h[n].next]
    <3>1. f[n] = Step(f, n)
      BY <1>5, <1>6
    <3>2. n # 0 => h[n].next \in DOMAIN h \cup {0}
      BY DEF LiveLinks
    <3> QED BY <3>1, <3>2
  <2>2. g = [n \in DOMAIN h \cup {0} |-> g[n]]
    OBVIOUS
  <2> HIDE DEF g
  <2> QED BY <2>1, <2>2 DEF Finds
<1> HIDE DEF g
<1> QED BY <1>7

LEMMA TwinFinds ==
    ASSUME NEW d, NEW e, IsDocument(d), IsDocument(e), NEW name,
           NEW f, Finds(f, d.heap, d.strings, name),
           NEW g, Finds(g, e.heap, e.strings, name)
    PROVE  \A n \in DOMAIN d.heap \cup {0}, m \in DOMAIN e.heap \cup {0} :
             Twins(d, n, e, m) => Twins(d, f[n], e, g[m])
<1> DEFINE D == DOMAIN d.heap
           E == DOMAIN e.heap
           P == {n \in D : \A m \in E : Twins(d, n, e, m) => Twins(d, f[n], e, g[m])}
<1>1. PICK c \in Nat : D \subseteq 1..c
  BY DEF IsDocument, Document, Grows
<1>2. \A n \in D \cup {0} :
        f[n] = IF n = 0 \/ Named(d.heap, d.strings, n, name) THEN n ELSE f[d.heap[n].next]
  BY DEF Finds
<1>3. \A m \in E \cup {0} :
        g[m] = IF m = 0 \/ Named(e.heap, e.strings, m, name) THEN m ELSE g[e.heap[m].next]
  BY DEF Finds
<1>4. /\ 0 \notin D /\ 0 \notin E
      /\ \A n \in D : /\ d.heap[n].next \in D \cup {0}
                      /\ d.heap[n].next # 0 => n < d.heap[n].next
      /\ \A m \in E : e.heap[m].next \in E \cup {0}
  BY DEF IsDocument, Document, Grows, LiveLinks
<1>5. f[0] = 0 /\ g[0] = 0
  BY <1>2, <1>3
<1>6. Twins(d, 0, e, 0)
  BY DEF Twins
<1>7. ASSUME NEW n \in D, \A m \in D : n < m => m \in P
      PROVE  n \in P
  <2> SUFFICES ASSUME NEW m \in E, Twins(d, n, e, m)
               PROVE  Twins(d, f[n], e, g[m])
    OBVIOUS
  <2>1. n # 0 /\ m # 0
    BY <1>4
  <2>2. Named(d.heap, d.strings, n, name) <=> Named(e.heap, e.strings, m, name)
    <3>1. /\ d.heap[n].string = 0 <=> e.heap[m].string = 0
          /\ d.heap[n].string # 0 =>
               d.strings[d.heap[n].string] = e.strings[e.heap[m].string]
      BY <2>1, TwinNames
    <3> QED BY <3>1 DEF Named
  <2>3. CASE Named(d.heap, d.strings, n, name)
    <3>1. f[n] = n /\ g[m] = m
      BY <1>2, <1>3, <2>2, <2>3
    <3> QED BY <3>1
  <2>4. CASE ~Named(d.heap, d.strings, n, name)
    <3>1. f[n] = f[d.heap[n].next] /\ g[m] = g[e.heap[m].next]
      BY <1>2, <1>3, <2>1, <2>2, <2>4
    <3>2. Twins(d, d.heap[n].next, e, e.heap[m].next)
      BY <2>1, TwinNexts
    <3>3. CASE d.heap[n].next = 0
      <4>1. e.heap[m].next = 0
        BY <3>2, <3>3 DEF Twins
      <4> QED BY <1>5, <1>6, <3>1, <3>3, <4>1
    <3>4. CASE d.heap[n].next # 0
      <4>1. d.heap[n].next \in P
        BY <1>4, <1>7, <3>4
      <4>2. e.heap[m].next \in E
        BY <3>2, <3>4 DEF Twins
      <4> QED BY <3>1, <3>2, <4>1, <4>2
    <3> QED BY <3>3, <3>4
  <2> QED BY <2>3, <2>4
<1>8. D \subseteq P
  <2> HIDE DEF P, D
  <2> QED BY <1>1, <1>7, Younger
<1> SUFFICES ASSUME NEW n \in D \cup {0}, NEW m \in E \cup {0}, Twins(d, n, e, m)
             PROVE  Twins(d, f[n], e, g[m])
  OBVIOUS
<1>9. CASE n = 0
  <2>1. m = 0
    BY <1>9 DEF Twins
  <2> QED BY <1>5, <1>6, <1>9, <2>1
<1>10. CASE n # 0
  <2>1. n \in P /\ m \in E
    BY <1>8, <1>10 DEF Twins
  <2> QED BY <2>1
<1> QED BY <1>9, <1>10

\* The tree with this root is a list in brackets.
Rooted(d, r) ==
    /\ IsDocument(d)
    /\ r \in DOMAIN d.heap
    /\ d.heap[r].next = 0 /\ d.heap[r].string = 0 /\ d.heap[r].child # 0

Spoken(w) == \E d, r : Rooted(d, r) /\ d.reading[r] = w

\* A lookup in this tree finds this string.
Answers(d, r, name, string) ==
    /\ Rooted(d, r)
    /\ \E f : /\ Finds(f, d.heap, d.strings, name)
              /\ f[d.heap[r].child] # 0
              /\ d.heap[f[d.heap[r].child]].valuestring # 0
              /\ string = d.strings[d.heap[f[d.heap[r].child]].valuestring]

Says(w, name, string) == \E d, r : Answers(d, r, name, string) /\ d.reading[r] = w

LEMMA SameAnswers ==
    ASSUME NEW d, NEW r, NEW e, NEW q, d.reading[r] = e.reading[q], NEW name
    PROVE  \A a, b : Answers(d, r, name, a) /\ Answers(e, q, name, b) => a = b
<1> SUFFICES ASSUME NEW a, NEW b, Answers(d, r, name, a), Answers(e, q, name, b)
             PROVE  a = b
  OBVIOUS
<1>1. Rooted(d, r) /\ Rooted(e, q)
  BY DEF Answers
<1>2. /\ IsDocument(d) /\ IsDocument(e)
      /\ r \in DOMAIN d.heap /\ q \in DOMAIN e.heap
      /\ d.heap[r].child # 0 /\ e.heap[q].child # 0
  BY <1>1 DEF Rooted
<1>3. /\ 0 \notin DOMAIN d.heap
      /\ d.heap[r].child \in DOMAIN d.heap /\ e.heap[q].child \in DOMAIN e.heap
  BY <1>2 DEF IsDocument, Document, LiveLinks
<1>4. Twins(d, r, e, q)
  BY <1>2, <1>3 DEF Twins
<1>5. Twins(d, d.heap[r].child, e, e.heap[q].child)
  BY <1>2, <1>3, <1>4, TwinChildren
<1>6. PICK f : /\ Finds(f, d.heap, d.strings, name)
               /\ f[d.heap[r].child] # 0
               /\ d.heap[f[d.heap[r].child]].valuestring # 0
               /\ a = d.strings[d.heap[f[d.heap[r].child]].valuestring]
  BY DEF Answers
<1>7. PICK g : /\ Finds(g, e.heap, e.strings, name)
               /\ g[e.heap[q].child] # 0
               /\ e.heap[g[e.heap[q].child]].valuestring # 0
               /\ b = e.strings[e.heap[g[e.heap[q].child]].valuestring]
  BY DEF Answers
<1>8. \A n \in DOMAIN d.heap \cup {0}, m \in DOMAIN e.heap \cup {0} :
        Twins(d, n, e, m) => Twins(d, f[n], e, g[m])
  BY <1>2, <1>6, <1>7, TwinFinds
<1>9. PICK n : n = f[d.heap[r].child]
  OBVIOUS
<1>10. PICK m : m = g[e.heap[q].child]
  OBVIOUS
<1>11. Twins(d, n, e, m)
  BY <1>3, <1>5, <1>8, <1>9, <1>10
<1>13. n # 0 /\ d.heap[n].valuestring # 0 /\ IsDocument(d) /\ IsDocument(e)
  BY <1>2, <1>6, <1>9
<1>12. d.strings[d.heap[n].valuestring] = e.strings[e.heap[m].valuestring]
  BY ONLY <1>11, <1>13, TwinValues
<1> QED BY <1>6, <1>7, <1>9, <1>10, <1>12

\* What is said of a name depends on the text alone.
LEMMA SaysOnce ==
    ASSUME NEW w, NEW name, NEW a, NEW b, Says(w, name, a), Says(w, name, b)
    PROVE  a = b
<1>1. PICK d, r : Answers(d, r, name, a) /\ d.reading[r] = w
  BY DEF Says
<1>2. PICK e, q : Answers(e, q, name, b) /\ e.reading[q] = w
  BY DEF Says
<1>3. \A x, y : Answers(d, r, name, x) /\ Answers(e, q, name, y) => x = y
  BY <1>1, <1>2, SameAnswers
<1> QED BY <1>1, <1>2, <1>3

LEMMA RootValue ==
    ASSUME NEW d, NEW r, Rooted(d, r)
    PROVE  /\ d.reading[r] = Value(d.heap, d.strings, d.reading, r)
           /\ d.reading[r] \in Values(d.heap, d.strings, d.reading)
           /\ \E o \in BOOLEAN, w \in Lists(d.heap, d.reading) : d.reading[r] = Enclosed(o, w)
<1> DEFINE V == Values(d.heap, d.strings, d.reading)
           L == Lists(d.heap, d.reading)
<1>1. /\ IsDocument(d) /\ r \in DOMAIN d.heap
      /\ d.heap[r].next = 0 /\ d.heap[r].string = 0 /\ d.heap[r].child # 0
  BY DEF Rooted
<1>2. d.reading[r] = Spell(PartsOf(d, r))
  BY <1>1, DocumentReads DEF IsDocument, PartsOf
<1>3. Language(V, L) /\ PartsOf(d, r) \in Items(V, L)
  BY <1>1, DocumentLanguage DEF IsDocument, PartsOf
<1>4. PICK v \in V : v = Value(d.heap, d.strings, d.reading, r)
  BY <1>1 DEF Values
<1>5. PartsOf(d, r) = <<<<>>, v, <<>>>>
  BY <1>1, <1>4 DEF PartsOf, Parts, Name, Rest
<1> HIDE DEF V, L
<1>6. v \in Seq(Words)
  BY <1>3 DEF Language
<1>7. (<<>> \o v) \o <<>> = v
  BY <1>6, ConcatEmptySeq
<1>8. d.reading[r] = v
  BY <1>2, <1>5, <1>7 DEF Spell
<1>9. /\ d.heap[r].child \in DOMAIN d.heap
      /\ d.heap[r].type \in {"Object", "Array"}
  BY <1>1 DEF IsDocument, Document, LiveLinks, KindsKept
<1>10. PICK o \in BOOLEAN : o = (d.heap[r].type = "Object")
  OBVIOUS
<1>11. PICK w \in L : w = d.reading[d.heap[r].child]
  BY <1>9 DEF L, Lists
<1>12. v = Enclosed(o, w)
  BY <1>1, <1>4, <1>9, <1>10, <1>11 DEF Value, Enclosed
<1>13. d.reading[r] = Enclosed(o, w)
  BY <1>8, <1>12
<1> QED BY <1>4, <1>8, <1>13 DEF V, L

\* It says something, and a bracket closes it.
LEMMA SpokenCloses ==
    ASSUME NEW w, Spoken(w)
    PROVE  /\ w \in Seq(Words) /\ Len(w) > 2
           /\ \E u \in Seq(Words), b \in Closers : w = u \o <<b>>
<1>1. PICK d, r : Rooted(d, r) /\ d.reading[r] = w
  BY DEF Spoken
<1> DEFINE V == Values(d.heap, d.strings, d.reading)
           L == Lists(d.heap, d.reading)
<1>2. PICK o \in BOOLEAN, l \in L : w = Enclosed(o, l)
  BY <1>1, RootValue
<1>3. Language(V, L) /\ w \in V
  BY <1>1, RootValue, DocumentLanguage DEF Rooted, IsDocument
<1> HIDE DEF V, L
<1>4. PICK k \in Words \ Closers, z \in Seq(Words) : l = <<k>> \o z
  BY <1>3, ListBegins
<1>5. w \in Seq(Words) /\ l \in Seq(Words)
  BY <1>3 DEF Language
<1>6. Len(l) = Len(z) + 1 /\ Len(z) \in Nat
  BY <1>4, Heads
<1>7. PICK a \in Words : a = Opener(o)
  BY WordKinds
<1>8. PICK b \in Closers : b = Closer(o)
  BY MarksAreWords
<1>9. b \in Words
  BY MarksAreWords DEF Marks
<1>10. PICK u \in Seq(Words) : u = <<a>> \o l
  BY <1>5, FewWords, Joined
<1>11. w = u \o <<b>>
  BY <1>2, <1>7, <1>8, <1>10 DEF Enclosed
<1>12. Len(u) = Len(l) + 1
  BY <1>5, <1>10, Heads
<1>13. Len(w) = Len(u) + 1
  BY <1>9, <1>11
<1>14. \A i \in Nat : ((i + 1) + 1) + 1 > 2
  OBVIOUS
<1> QED BY <1>5, <1>6, <1>11, <1>12, <1>13, <1>14

\* The beginning of a text is one tree or none.
LEMMA OneTree ==
    ASSUME NEW w, Spoken(w), NEW u, Spoken(u),
           NEW x \in Seq(Words), NEW y \in Seq(Words), w \o x = u \o y
    PROVE  w = u
<1>1. PICK d, r : Rooted(d, r) /\ d.reading[r] = w
  BY DEF Spoken
<1>2. PICK e, q : Rooted(e, q) /\ e.reading[q] = u
  BY DEF Spoken
<1> DEFINE V == Values(d.heap, d.strings, d.reading)
           L == Lists(d.heap, d.reading)
           W == Values(e.heap, e.strings, e.reading)
           M == Lists(e.heap, e.reading)
<1>3. Language(V, L) /\ w \in V
  BY <1>1, RootValue, DocumentLanguage DEF Rooted, IsDocument
<1>4. Language(W, M) /\ u \in W
  BY <1>2, RootValue, DocumentLanguage DEF Rooted, IsDocument
<1> HIDE DEF V, L, W, M
<1>5. Language(V \cup W, L \cup M) /\ w \in V \cup W /\ u \in V \cup W
  BY <1>3, <1>4, TwoLanguages
<1>6. PICK N \in Nat : N = Len(w)
  BY <1>3 DEF Language
<1>7. OneValue(V \cup W, N)
  BY <1>5, OneReading
<1>8. PICK X : X = V \cup W
  OBVIOUS
<1>9. w \in X /\ u \in X /\ OneValue(X, N) /\ Len(w) <= N
  BY <1>5, <1>6, <1>7, <1>8
<1>10. \A v, z \in X, a, b \in Seq(Words) : Len(v) <= N /\ v \o a = z \o b => v = z
  BY <1>9 DEF OneValue
<1> QED BY <1>9, <1>10

(***************************************************************************)
(* The tree that the parser builds is such a tree.                         *)
(***************************************************************************)
KindInv ==
    Telling => /\ KindsKept(nodes)
               /\ \A i \in 0..Depth-1 : nodes[Chain(i)].valuestring = 0

LEMMA ItemAlone ==
    ASSUME ParserInv, pc \in {"value", "name"}
    PROVE  /\ \A i \in 0..Depth-1 : Chain(i) \in DOMAIN nodes /\ Chain(i) # Item
           /\ Item \in DOMAIN nodes /\ Item # 0
           /\ nodes[Item].child = 0 /\ nodes[Item].valuestring = 0
<1>1. ChainInv /\ Depth \in Nat
  BY DEF ParserInv, Reading, ParserTypeOK, Depth
<1>2. /\ Item \in DOMAIN nodes /\ Item # 0
      /\ nodes[Item].child = 0 /\ nodes[Item].valuestring = 0
  BY CurrentItem
<1>3. Item = Chain(Depth) /\ Item \in Nat
  BY <1>2, ItemIsLast DEF ParserInv, ParserTypeOK
<1>4. ASSUME NEW i \in 0..Depth-1
      PROVE  Chain(i) \in DOMAIN nodes /\ Chain(i) # Item
  <2>1. i \in 0..Depth /\ Depth \in 0..Depth /\ i < Depth
    BY <1>1
  <2>2. Chain(i) # 0 /\ Chain(i) \in DOMAIN nodes /\ Chain(i) < Chain(Depth)
    BY <1>1, <1>2, <1>3, <2>1 DEF ChainInv
  <2>3. Chain(i) \in Nat
    BY <2>2 DEF ParserInv, ParserTypeOK
  <2> QED BY <1>3, <2>2, <2>3
<1> QED BY <1>2, <1>4

LEMMA FillKinds ==
    ASSUME ParserInv, KindInv, pc \in {"value", "name"}, pc' # "done",
           NEW t, NEW v, v # 0 => t = "String",
           UNCHANGED <<stack, root>>,
           DOMAIN nodes' = DOMAIN nodes,
           nodes'[Item].type = t, nodes'[Item].valuestring = v, nodes'[Item].child = 0,
           \A n \in DOMAIN nodes : n # Item => nodes'[n] = nodes[n]
    PROVE  KindInv'
<1>1. KindsKept(nodes) /\ \A i \in 0..Depth-1 : nodes[Chain(i)].valuestring = 0
  BY DEF KindInv, Telling, Reading
<1>2. Depth' = Depth /\ \A i : Chain(i)' = Chain(i)
  BY DEF Depth, Chain
<1>3. KindsKept(nodes')
  BY <1>1 DEF KindsKept
<1>4. \A i \in 0..Depth-1 : nodes'[Chain(i)].valuestring = 0
  BY <1>1, ItemAlone
<1> QED BY <1>2, <1>3, <1>4 DEF KindInv

LEMMA SteadyKinds ==
    ASSUME KindInv, Telling, UNCHANGED <<nodes, stack, root>>
    PROVE  KindInv'
<1>1. Depth' = Depth /\ \A i : Chain(i)' = Chain(i)
  BY DEF Depth, Chain
<1> QED BY <1>1 DEF KindInv

LEMMA OpenKinds == ParserInv /\ KindInv /\ Open => KindInv'
<1> SUFFICES ASSUME ParserInv, KindInv, Open
             PROVE  KindInv'
  OBVIOUS
<1>1. KindsKept(nodes) /\ \A i \in 0..Depth-1 : nodes[Chain(i)].valuestring = 0
  BY DEF KindInv, Telling, Reading, Open, Opening, Bracket
<1>2. PICK frame \in Frames : stack' = Append(stack, frame) /\ UNCHANGED <<root, nodes>>
  BY DEF Open, Frames
<1>3. stack \in Seq(Frames) /\ pc = "value"
  BY DEF ParserInv, ParserTypeOK, Open, Opening, Bracket
<1>4. /\ Depth \in Nat /\ Depth' = Depth + 1
      /\ \A i \in 1..Depth : stack'[i] = stack[i]
  BY <1>2, <1>3 DEF Depth
<1>5. \A i \in 0..Depth : Chain(i)' = Chain(i)
  <2>1. \A i \in 0..Depth : i # 0 => i \in 1..Depth
    BY <1>4
  <2> QED BY <1>2, <1>4, <2>1 DEF Chain
<1>6. nodes[Chain(Depth)].valuestring = 0
  BY <1>3, CurrentItem, ItemIsLast
<1>7. \A i \in 0..Depth'-1 : i = Depth \/ i \in 0..Depth-1
  BY <1>4
<1>8. \A i \in 0..Depth'-1 : nodes'[Chain(i)'].valuestring = 0
  BY <1>1, <1>2, <1>4, <1>5, <1>6, <1>7
<1> QED BY <1>1, <1>2, <1>8 DEF KindInv

LEMMA NextElementKinds == ParserInv /\ KindInv /\ NextElement => KindInv'
<1> SUFFICES ASSUME ParserInv, KindInv, NextElement
             PROVE  KindInv'
  OBVIOUS
<1>1. KindsKept(nodes) /\ \A i \in 0..Depth-1 : nodes[Chain(i)].valuestring = 0
  BY DEF KindInv, Telling, Reading, NextElement, AddElement
<1>2. /\ stack \in Seq(Frames) /\ Depth \in Nat /\ Depth > 0 /\ pc = "element"
      /\ ChainInv /\ fresh \in Nat /\ DOMAIN nodes \subseteq 1..fresh-1
      /\ nodes \in [DOMAIN nodes -> Nodes]
  BY DEF ParserInv, ParserTypeOK, NextElement, AddElement, Placed, Reading, Depth
<1>3. fresh \notin DOMAIN nodes
  BY <1>2
<1> DEFINE added == Alloc(nodes, [Blank EXCEPT !.prev = Top.last])
<1>4. /\ DOMAIN added = DOMAIN nodes \cup {fresh}
      /\ \A n \in DOMAIN nodes : added[n] = nodes[n]
      /\ added[fresh].valuestring = 0 /\ added[fresh].child = 0
  BY <1>3 DEF Alloc, Blank
<1>5. nodes' = IF Top.head = 0 THEN added ELSE [added EXCEPT ![Top.last].next = fresh]
  BY DEF NextElement, AddElement
<1> HIDE DEF added
<1>6. /\ DOMAIN nodes' = DOMAIN nodes \cup {fresh}
      /\ \A n \in DOMAIN nodes : /\ nodes'[n].valuestring = nodes[n].valuestring
                                 /\ nodes'[n].child = nodes[n].child
                                 /\ nodes'[n].type = nodes[n].type
      /\ nodes'[fresh].valuestring = 0 /\ nodes'[fresh].child = 0
  BY <1>2, <1>4, <1>5 DEF Nodes
<1>7. KindsKept(nodes')
  BY <1>1, <1>6 DEF KindsKept
<1>8. /\ root' = root /\ Len(stack') = Len(stack)
      /\ \A i \in 1..Depth-1 : stack'[i] = stack[i]
  BY <1>2 DEF NextElement, AddElement, Depth
<1>9. ASSUME NEW i \in 0..Depth-1
      PROVE  Chain(i)' = Chain(i) /\ Chain(i) \in DOMAIN nodes
  <2>1. i \in 0..Depth /\ (i # 0 => i \in 1..Depth-1)
    BY <1>2
  <2> QED BY <1>2, <1>8, <2>1 DEF Chain, ChainInv
<1>10. \A i \in 0..Depth-1 : nodes'[Chain(i)'].valuestring = 0
  BY <1>1, <1>6, <1>9
<1>11. Depth' = Depth
  BY <1>8 DEF Depth
<1> QED BY <1>7, <1>10, <1>11 DEF KindInv

LEMMA CloseKinds == ParserInv /\ KindInv /\ Close => KindInv'
<1> SUFFICES ASSUME ParserInv, KindInv, Close
             PROVE  KindInv'
  OBVIOUS
<1>1. KindsKept(nodes) /\ \A i \in 0..Depth-1 : nodes[Chain(i)].valuestring = 0
  BY DEF KindInv, Telling, Reading, Close, CloseAs, Behind
<1>2. /\ stack \in Seq(Frames) /\ Depth \in Nat /\ Depth > 0 /\ pc = "after"
      /\ ChainInv /\ nodes \in [DOMAIN nodes -> Nodes] /\ stack' = Front(stack)
      /\ root' = root /\ pc' = "after"
  BY DEF ParserInv, ParserTypeOK, Close, CloseAs, Behind, Reading, Depth
<1>3. PICK t \in {"Object", "Array"} :
        nodes' = [nodes EXCEPT ![Top.head].prev = Top.last,
                               ![Container].type = t,
                               ![Container].child = Top.head]
  BY DEF Close, CloseAs
<1>4. Container = Chain(Depth - 1)
  <2>1. Depth = 1 <=> Depth - 1 = 0
    BY <1>2
  <2> QED BY <2>1 DEF Container, Chain
<1>5. ASSUME NEW i \in 0..Depth-1
      PROVE  Chain(i) \in DOMAIN nodes
  <2>1. i \in 0..Depth
    BY <1>2
  <2> QED BY <1>2, <2>1 DEF ChainInv
<1>6. Depth - 1 \in 0..Depth-1
  BY <1>2
<1>7. /\ DOMAIN nodes' = DOMAIN nodes
      /\ \A n \in DOMAIN nodes : /\ nodes'[n].valuestring = nodes[n].valuestring
                                 /\ n # Container => /\ nodes'[n].child = nodes[n].child
                                                     /\ nodes'[n].type = nodes[n].type
      /\ nodes'[Container].type = t
  <2>1. Container \in DOMAIN nodes
    BY <1>4, <1>5, <1>6
  <2> QED BY <1>2, <1>3, <2>1 DEF Nodes
<1>8. nodes'[Container].valuestring = 0
  BY <1>1, <1>4, <1>5, <1>6, <1>7
<1>9. KindsKept(nodes')
  BY <1>1, <1>7, <1>8 DEF KindsKept
<1>10. Len(stack') = Len(stack) - 1 /\ \A i \in 1..Depth-1 : stack'[i] = stack[i]
  BY <1>2, FrontFrames DEF Depth
<1>11. Depth' = Depth - 1
  BY <1>10 DEF Depth
<1>12. ASSUME NEW i \in 0..Depth'-1
       PROVE  nodes'[Chain(i)'].valuestring = 0
  <2>1. i \in 0..Depth-1 /\ (i # 0 => i \in 1..Depth-1)
    BY <1>2, <1>11
  <2>2. Chain(i)' = Chain(i)
    BY <1>2, <1>10, <2>1 DEF Chain
  <2> QED BY <1>1, <1>5, <1>7, <2>1, <2>2
<1> QED BY <1>9, <1>12 DEF KindInv

LEMMA KindStep == ParserInv /\ KindInv /\ [ParserNext]_parserVars => KindInv'
<1> SUFFICES ASSUME ParserInv, KindInv, [ParserNext]_parserVars
             PROVE  KindInv'
  OBVIOUS
<1>0. nodes \in [DOMAIN nodes -> Nodes] /\ fresh \in Nat \ {0}
  BY DEF ParserInv, ParserTypeOK
<1>1. CASE Begin
  <2>1. stack = <<>> /\ DOMAIN nodes = {} /\ stack' = stack
    BY <1>1 DEF ParserInv, Placed, Begin
  <2>2. DOMAIN nodes' = {fresh} /\ nodes'[fresh] = Blank
    BY <1>1, <2>1 DEF Begin, Alloc
  <2>3. KindsKept(nodes')
    BY <2>2 DEF KindsKept, Blank
  <2>4. Depth' = 0
    BY <2>1 DEF Depth
  <2> QED BY <2>3, <2>4 DEF KindInv
<1>2. CASE ReadPlain
  <2>1. Item \in DOMAIN nodes /\ nodes[Item].child = 0 /\ nodes[Item].valuestring = 0
    BY <1>2, ItemAlone DEF ReadPlain
  <2>2. /\ nodes' = [nodes EXCEPT ![Item].type = text[pos]]
        /\ pc = "value" /\ pc' = "after" /\ UNCHANGED <<stack, root>>
    BY <1>2 DEF ReadPlain
  <2>3. /\ DOMAIN nodes' = DOMAIN nodes
        /\ nodes'[Item].type = text[pos]
        /\ nodes'[Item].valuestring = 0 /\ nodes'[Item].child = 0
        /\ \A n \in DOMAIN nodes : n # Item => nodes'[n] = nodes[n]
    BY <1>0, <2>1, <2>2 DEF Nodes
  <2> QED BY <2>2, <2>3, FillKinds
<1>3. CASE ReadString
  <2>1. Item \in DOMAIN nodes /\ nodes[Item].child = 0 /\ nodes[Item].valuestring = 0
    BY <1>3, ItemAlone DEF ReadString
  <2>2. /\ nodes' = [nodes EXCEPT ![Item].type = "String", ![Item].valuestring = fresh]
        /\ pc = "value" /\ pc' = "after" /\ UNCHANGED <<stack, root>>
    BY <1>3 DEF ReadString
  <2>3. /\ DOMAIN nodes' = DOMAIN nodes
        /\ nodes'[Item].type = "String"
        /\ nodes'[Item].valuestring = fresh /\ nodes'[Item].child = 0
        /\ \A n \in DOMAIN nodes : n # Item => nodes'[n] = nodes[n]
    BY <1>0, <2>1, <2>2 DEF Nodes
  <2> QED BY <2>2, <2>3, FillKinds
<1>4. CASE OpenEmpty
  <2>0. pc = "value"
    BY <1>4 DEF OpenEmpty, Opening, Bracket
  <2>1. Item \in DOMAIN nodes /\ nodes[Item].child = 0 /\ nodes[Item].valuestring = 0
    BY <2>0, ItemAlone
  <2>2. PICK t \in {"Object", "Array"} :
          nodes' = [nodes EXCEPT ![Item].type = t, ![Item].child = 0]
    BY <1>4 DEF OpenEmpty
  <2>3. pc' = "after" /\ UNCHANGED <<stack, root>>
    BY <1>4 DEF OpenEmpty
  <2>4. /\ DOMAIN nodes' = DOMAIN nodes
        /\ nodes'[Item].type = t
        /\ nodes'[Item].valuestring = 0 /\ nodes'[Item].child = 0
        /\ \A n \in DOMAIN nodes : n # Item => nodes'[n] = nodes[n]
    BY <1>0, <2>1, <2>2 DEF Nodes
  <2> QED BY <2>0, <2>3, <2>4, FillKinds
<1>5. CASE ReadName
  <2>1. Item \in DOMAIN nodes /\ nodes[Item].child = 0 /\ nodes[Item].valuestring = 0
    BY <1>5, ItemAlone DEF ReadName, ReadNameLeaving
  <2>2. /\ nodes' = [nodes EXCEPT ![Item].type = "String", ![Item].string = fresh,
                                  ![Item].valuestring = 0]
        /\ pc = "name" /\ pc' = "colon" /\ UNCHANGED <<stack, root>>
    BY <1>5 DEF ReadName, ReadNameLeaving
  <2>3. /\ DOMAIN nodes' = DOMAIN nodes
        /\ nodes'[Item].type = "String"
        /\ nodes'[Item].valuestring = 0 /\ nodes'[Item].child = 0
        /\ \A n \in DOMAIN nodes : n # Item => nodes'[n] = nodes[n]
    BY <1>0, <2>1, <2>2 DEF Nodes
  <2> QED BY <2>2, <2>3, FillKinds
<1>6. CASE Open \/ NextElement \/ Close
  BY <1>6, OpenKinds, NextElementKinds, CloseKinds
<1>7. CASE ReadColon \/ Comma \/ Finish
  <2>1. Telling /\ UNCHANGED <<nodes, stack, root>>
    BY <1>7 DEF ReadColon, Comma, Behind, Finish, Telling, Reading
  <2> QED BY <2>1, SteadyKinds
<1>8. CASE Starve \/ Refuse \/ Unwind \/ DeleteRoot
  <2>1. pc' = "fail"
    BY <1>8 DEF Starve, Refuse, Fails, Unwind, UnwindWith, DeleteRoot, Failing
  <2> QED BY <2>1 DEF KindInv, Telling, Reading
<1>9. CASE ReturnNull
  <2>1. pc' = "done" /\ root' = 0
    BY <1>9 DEF ReturnNull
  <2> QED BY <2>1 DEF KindInv, Telling, Reading
<1>10. CASE DeleteChild \/ DeleteItem \/ DeleteReturns
  <2>1. pc' = pc /\ pc = "fail"
    BY <1>10 DEF DeleteChild, DeleteItem, DeleteReturns, Deleting, ParserInv, Placed
  <2> QED BY <2>1 DEF KindInv, Telling, Reading
<1>11. CASE UNCHANGED parserVars
  <2>1. Telling' = Telling /\ UNCHANGED <<nodes, stack, root>>
    BY <1>11 DEF Telling, Reading, parserVars
  <2> QED BY <2>1, SteadyKinds DEF KindInv
<1> QED BY <1>1, <1>2, <1>3, <1>4, <1>5, <1>6, <1>7, <1>8, <1>9, <1>10, <1>11 DEF ParserNext

(***************************************************************************)
(* What the beginning of a text says.                                      *)
(***************************************************************************)
Shown(t, n) == IF n = 1 /\ t[1] = Bom THEN <<>> ELSE Visible(t[n])

Reads(t, C, f) ==
    /\ C \in Nat /\ C <= Len(t)
    /\ f[0] = <<>>
    /\ \A n \in 0..C : f[n] \in Seq(Tokens)
    /\ \A n \in 1..C : f[n] = f[n - 1] \o Shown(t, n)

Begins(t, C, w) == \E f : Reads(t, C, f) /\ f[C] = w

\* Two texts are the same as far as D.
Agree(t, u, D) == D <= Len(t) /\ D <= Len(u) /\ \A i \in 1..D : t[i] = u[i]

LEMMA ReadsAgree ==
    ASSUME NEW t, NEW C, NEW f, Reads(t, C, f), NEW u, NEW E, NEW g, Reads(u, E, g),
           NEW D \in Nat, D <= C, D <= E, Agree(t, u, D)
    PROVE  f[D] = g[D]
<1> DEFINE T == {n \in Nat : n <= D => f[n] = g[n]}
<1>1. 0 \in T
  BY DEF Reads
<1>2. ASSUME NEW n \in T
      PROVE  n + 1 \in T
  <2> SUFFICES ASSUME n + 1 <= D
               PROVE  f[n + 1] = g[n + 1]
    OBVIOUS
  <2>1. n \in Nat /\ n <= D /\ n + 1 \in 1..D /\ (n + 1) - 1 = n
    OBVIOUS
  <2>2. C \in Nat /\ E \in Nat
    BY DEF Reads
  <2>3. n + 1 \in 1..C /\ n + 1 \in 1..E
    BY <2>1, <2>2
  <2>4. f[n + 1] = f[n] \o Shown(t, n + 1) /\ g[n + 1] = g[n] \o Shown(u, n + 1)
    BY <2>1, <2>3 DEF Reads
  <2>5. t[n + 1] = u[n + 1] /\ (n + 1 = 1 => t[1] = u[1])
    BY <2>1 DEF Agree
  <2>6. Shown(t, n + 1) = Shown(u, n + 1)
    BY <2>5 DEF Shown
  <2>7. f[n] = g[n]
    BY <2>1
  <2> QED BY <2>4, <2>6, <2>7
<1>3. T = Nat
  <2> HIDE DEF T
  <2>1. T \subseteq Nat
    BY DEF T
  <2> QED BY <1>1, <1>2, <2>1, Induction
<1> QED BY <1>3

LEMMA ShownTokens ==
    ASSUME NEW t \in Seq(Tokens), NEW n \in 1..Len(t)
    PROVE  Shown(t, n) \in Seq(Tokens) /\ Len(Shown(t, n)) <= 1
<1>1. t[n] \in Tokens
  OBVIOUS
<1>2. CASE n = 1 /\ t[1] = Bom
  BY <1>2 DEF Shown
<1>3. CASE ~(n = 1 /\ t[1] = Bom)
  BY <1>1, <1>3 DEF Shown, Visible
<1> QED BY <1>2, <1>3

\* What is read further is read behind.
LEMMA ReadsOn ==
    ASSUME NEW t \in Seq(Tokens), NEW C, NEW f, Reads(t, C, f), NEW D \in 0..C
    PROVE  Further(f[C], f[D])
<1>0. C \in Nat /\ D \in Nat /\ C <= Len(t) /\ f[D] \in Seq(Tokens)
  BY DEF Reads
<1> DEFINE T == {n \in Nat : D + n <= C => Further(f[D + n], f[D])}
<1>1. 0 \in T
  BY <1>0, Furthest
<1>2. ASSUME NEW n \in T
      PROVE  n + 1 \in T
  <2> SUFFICES ASSUME D + (n + 1) <= C
               PROVE  Further(f[D + (n + 1)], f[D])
    OBVIOUS
  <2>1. n \in Nat /\ D + n <= C
    BY <1>0
  <2>2. Further(f[D + n], f[D])
    BY <2>1
  <2>3. D + (n + 1) \in 1..C /\ (D + (n + 1)) - 1 = D + n
    BY <1>0, <2>1
  <2>4. f[D + (n + 1)] = f[D + n] \o Shown(t, D + (n + 1))
    BY <2>3 DEF Reads
  <2>5. D + (n + 1) \in 1..Len(t)
    BY <1>0, <2>3
  <2>6. PICK y \in Seq(Tokens) : y = Shown(t, D + (n + 1))
    BY <2>5, ShownTokens
  <2>7. Further(f[D + n] \o y, f[D])
    BY <1>0, <2>2, FurtherOn
  <2> QED BY <2>4, <2>6, <2>7
<1>3. T = Nat
  <2> HIDE DEF T
  <2>1. T \subseteq Nat
    BY DEF T
  <2> QED BY <1>1, <1>2, <2>1, Induction
<1>4. C - D \in Nat /\ D + (C - D) = C /\ D + (C - D) <= C
  BY <1>0
<1>5. C - D \in T
  BY <1>3, <1>4
<1>6. Further(f[D + (C - D)], f[D])
  BY <1>4, <1>5
<1> QED BY <1>4, <1>6

\* The place at which a bracket closes what is read.
LEMMA ReadsUpTo ==
    ASSUME NEW t \in Seq(Tokens), NEW C, NEW w, Begins(t, C, w), Spoken(w)
    PROVE  \E D \in 1..C : t[D] \in Closers /\ Begins(t, D, w)
<1>1. PICK f : Reads(t, C, f) /\ f[C] = w
  BY DEF Begins
<1>2. PICK u \in Seq(Words), b \in Closers : w = u \o <<b>>
  BY SpokenCloses
<1>3. C \in Nat /\ Len(w) > 2
  BY <1>1, SpokenCloses DEF Reads
<1> DEFINE T == {n \in Nat : n <= C /\ f[n] = w}
<1>4. PICK D \in T : \A j \in T : D <= j
  <2>1. C \in T /\ T \subseteq Nat
    BY <1>1, <1>3
  <2> HIDE DEF T
  <2> QED BY <2>1, LeastNatural
<1>5. D \in Nat /\ D <= C /\ f[D] = w
  OBVIOUS
<1>6. D # 0
  <2>1. f[0] = <<>> /\ Len(<<>>) = 0
    BY <1>1 DEF Reads
  <2> QED BY <1>3, <1>5, <2>1
<1>7. D \in 1..C /\ D - 1 \in Nat /\ D - 1 <= C
  BY <1>3, <1>5, <1>6
<1>8. f[D - 1] # w
  <2> SUFFICES ASSUME f[D - 1] = w
               PROVE  FALSE
    OBVIOUS
  <2>1. D - 1 \in T
    BY <1>7
  <2>2. D <= D - 1
    BY <1>4, <2>1
  <2> QED BY <1>5, <2>2
<1> HIDE DEF T
<1>9. w = f[D - 1] \o Shown(t, D) /\ f[D - 1] \in Seq(Tokens)
  <2>1. D - 1 \in 0..C
    BY <1>3, <1>7
  <2> QED BY <1>1, <1>5, <1>7, <2>1 DEF Reads
<1>10. Shown(t, D) # <<>>
  BY <1>8, <1>9, ConcatEmptySeq
<1>11. D \in 1..Len(t)
  <2>1. C <= Len(t)
    BY <1>1 DEF Reads
  <2> QED BY <1>3, <1>7, <2>1
<1>12. PICK k \in Tokens : k = t[D]
  BY <1>11
<1>13. Shown(t, D) = <<k>>
  BY <1>10, <1>12 DEF Shown, Visible
<1>14. k = b
  <2>1. PICK v \in Seq(Words) : v = f[D - 1]
    <3>1. Tokens \subseteq Words
      BY DEF Words
    <3>2. f[D - 1] \in Seq(Words)
      BY <1>9, <3>1
    <3> QED BY <3>2
  <2>2. v \o <<k>> = u \o <<b>>
    BY <1>2, <1>9, <1>13, <2>1
  <2>3. k \in Words /\ b \in Words
    BY MarksAreWords DEF Words, Marks
  <2>4. Len(v \o <<k>>) = Len(v) + 1 /\ (v \o <<k>>)[Len(v) + 1] = k
    BY <2>3
  <2>5. Len(u \o <<b>>) = Len(u) + 1 /\ (u \o <<b>>)[Len(u) + 1] = b
    BY <2>3
  <2>6. Len(v) = Len(u)
    BY <2>2, <2>4, <2>5
  <2> QED BY <2>2, <2>4, <2>5, <2>6
<1>15. Begins(t, D, w)
  <2>1. D <= Len(t)
    BY <1>11
  <2>2. Reads(t, D, f)
    <3>1. (\A n \in 0..D : n \in 0..C) /\ (\A n \in 1..D : n \in 1..C)
      BY <1>3, <1>5
    <3> QED BY <1>1, <1>5, <2>1, <3>1 DEF Reads
  <2> QED BY <1>5, <2>2 DEF Begins
<1> QED BY <1>7, <1>12, <1>14, <1>15

\* It is read in one way.
LEMMA OneBeginning ==
    ASSUME NEW t \in Seq(Tokens), NEW C, NEW w, Begins(t, C, w), Spoken(w),
           NEW u \in Seq(Tokens), NEW D, NEW v, Begins(u, D, v), Spoken(v),
           D <= C, Agree(t, u, D)
    PROVE  w = v
<1>1. PICK f : Reads(t, C, f) /\ f[C] = w
  BY DEF Begins
<1>2. PICK g : Reads(u, D, g) /\ g[D] = v
  BY DEF Begins
<1>3. C \in Nat /\ D \in Nat /\ D \in 0..C /\ D <= D
  BY <1>1, <1>2 DEF Reads
<1>4. f[D] = g[D]
  BY <1>1, <1>2, <1>3, ReadsAgree
<1>10. Further(f[C], f[D])
  BY <1>1, <1>3, ReadsOn
<1>5. PICK x \in Seq(Tokens) : f[C] = f[D] \o x
  BY <1>10 DEF Further
<1>6. x \in Seq(Words) /\ <<>> \in Seq(Words)
  <2>1. Tokens \subseteq Words
    BY DEF Words
  <2> QED BY <2>1
<1>7. w \in Seq(Words) /\ v \in Seq(Words)
  BY SpokenCloses
<1>8. w \o <<>> = v \o x
  BY <1>1, <1>2, <1>4, <1>5, <1>7, ConcatEmptySeq
<1>9. \A a, b \in Seq(Words) : w \o a = v \o b => w = v
  BY OneTree
<1> QED BY <1>6, <1>8, <1>9

LEMMA FewSignificant ==
    ASSUME ParserTypeOK
    PROVE  \A n \in 0..Len(text) : Len(Significant[n]) <= n
<1>1. /\ Len(text) \in Nat /\ text \in Seq(Tokens) /\ AfterBom \in {1, 2}
      /\ \A n \in 1..Len(text) : text[n] \in Tokens
  BY TextEnds DEF AfterBom, ParserTypeOK, Buffers
<1> DEFINE T == {n \in Nat : n <= Len(text) => Len(Significant[n]) <= n}
<1>2. 0 \in T
  <2>1. 0 \in 0..Len(text) /\ 0 < AfterBom
    BY <1>1
  <2>2. Significant[0] = <<>>
    BY <2>1, SignificantIs
  <2> QED BY <2>2
<1>3. ASSUME NEW n \in T
      PROVE  n + 1 \in T
  <2> SUFFICES ASSUME n + 1 <= Len(text)
               PROVE  Len(Significant[n + 1]) <= n + 1
    OBVIOUS
  <2>1. n \in 0..Len(text) /\ n + 1 \in 1..Len(text) /\ (n + 1) - 1 = n /\ n + 1 \in 0..Len(text)
    BY <1>1
  <2>2. Len(Significant[n]) <= n
    BY <2>1
  <2> HIDE DEF T
  <2>3. CASE n + 1 < AfterBom
    <3>1. Significant[n + 1] = <<>>
      BY <2>1, <2>3, SignificantIs
    <3> QED BY <2>1, <3>1
  <2>4. CASE n + 1 >= AfterBom
    <3>1. Significant[n + 1] = Significant[n] \o Visible(text[n + 1])
      BY <2>1, <2>4, SignificantIs
    <3>2. PICK s \in Seq(Tokens) : s = Significant[n]
      BY <2>1, SignificantIs
    <3>3. PICK k \in Tokens : k = text[n + 1]
      BY <1>1, <2>1
    <3>4. Visible(k) = <<>> \/ Visible(k) = <<k>>
      BY DEF Visible
    <3>5. CASE Visible(k) = <<>>
      <4>1. s \o <<>> = s
        BY ConcatEmptySeq
      <4>2. Significant[n + 1] = s
        BY <3>1, <3>2, <3>3, <3>5, <4>1
      <4>3. Len(s) \in Nat /\ Len(s) <= n /\ n \in Nat
        BY <2>1, <2>2, <3>2
      <4> QED BY <4>2, <4>3
    <3>6. CASE Visible(k) = <<k>>
      <4>1. Len(s \o <<k>>) = Len(s) + 1
        OBVIOUS
      <4>2. Significant[n + 1] = s \o <<k>>
        BY <3>1, <3>2, <3>3, <3>6
      <4>3. Len(s) \in Nat /\ Len(s) <= n /\ n \in Nat
        BY <2>1, <2>2, <3>2
      <4> QED BY <4>1, <4>2, <4>3
    <3> QED BY <3>4, <3>5, <3>6
  <2>5. n + 1 < AfterBom \/ n + 1 >= AfterBom
    BY <1>1, <2>1
  <2> QED BY <2>3, <2>4, <2>5
<1>4. T = Nat
  <2> HIDE DEF T
  <2>1. T \subseteq Nat
    BY DEF T
  <2> QED BY <1>2, <1>3, <2>1, Induction
<1> QED BY <1>1, <1>4

\* The tokens that the parser reads are the ones that the text begins with.
LEMMA TextBegins ==
    ASSUME ParserTypeOK, NEW p \in 0..Len(text), Spoken(Significant[p])
    PROVE  Begins(text, p, Significant[p])
<1>1. /\ Len(text) \in Nat /\ AfterBom \in {1, 2}
      /\ \A n \in 1..Len(text) : text[n] \in Tokens
  BY TextEnds DEF AfterBom
<1>2. Len(text) > 2
  <2>1. Len(Significant[p]) > 2
    BY SpokenCloses
  <2>2. Len(Significant[p]) <= p
    BY FewSignificant
  <2>3. Len(Significant[p]) \in Nat
    BY SignificantIs
  <2> QED BY <1>1, <2>1, <2>2, <2>3
<1>3. text[1] = Bom <=> AfterBom = 2
  BY <1>2 DEF AfterBom
<1>4. \A n \in 0..Len(text) : Significant[n] \in Seq(Tokens)
  BY SignificantIs
<1>5. Significant[0] = <<>>
  <2>1. 0 \in 0..Len(text) /\ 0 < AfterBom
    BY <1>1
  <2> QED BY <2>1, SignificantIs
<1>6. ASSUME NEW n \in 1..Len(text)
      PROVE  Significant[n] = Significant[n - 1] \o Shown(text, n)
  <2>1. CASE n = 1 /\ text[1] = Bom
    <3>1. n < AfterBom /\ n \in 0..Len(text) /\ n - 1 = 0
      BY <1>3, <2>1
    <3>2. Significant[n] = <<>>
      BY <3>1, SignificantIs
    <3>3. Shown(text, n) = <<>> /\ <<>> \o <<>> = <<>>
      BY <2>1, ConcatEmptySeq DEF Shown
    <3> QED BY <1>5, <3>1, <3>2, <3>3
  <2>2. CASE ~(n = 1 /\ text[1] = Bom)
    <3>1. n >= AfterBom
      BY <1>1, <1>3, <2>2
    <3> QED BY <2>2, <3>1, SignificantIs DEF Shown
  <2> QED BY <2>1, <2>2
<1>7. Reads(text, p, Significant)
  <2>1. p \in Nat /\ p <= Len(text) /\ (\A n \in 0..p : n \in 0..Len(text))
        /\ (\A n \in 1..p : n \in 1..Len(text))
    BY <1>1
  <2> QED BY <1>4, <1>5, <1>6, <2>1 DEF Reads
<1> QED BY <1>7 DEF Begins

(***************************************************************************)
(* How a text is passed on.                                                *)
(***************************************************************************)
\* t says w up to D, where a bracket closes it.
Holds(t, D, w) ==
    /\ D \in 1..Len(t) /\ t[D] \in Closers
    /\ Begins(t, D, w)
    /\ \A i \in 1..D : t[i] # Null

\* What a bracket closes in u is in t too, as far as D.
Echoes(u, t, D) ==
    \A E \in 1..Len(u) : u[E] \in Closers =>
        \A i \in 1..E : i <= D => u[i] = t[i]

LEMMA ClosersApart ==
    ASSUME NEW k \in Closers
    PROVE  /\ k \in Tokens /\ k # Null
           /\ Continued(k) = {k} /\ CutShort(k) = {}
           /\ \A j \in Tokens : k \in Continued(j) \cup CutShort(j) => j = k
BY ParserAssumption DEF Closers, Tokens, Brackets, Blanks, Bad, Plain, Null, Bom, Continued, CutShort,
                        Literals, Unsupported, Lone, More

LEMMA SameBeginning ==
    ASSUME NEW t, NEW D, NEW w, Holds(t, D, w), NEW u, Agree(t, u, D)
    PROVE  Holds(u, D, w)
<1>1. D \in Nat /\ D >= 1 /\ D \in 1..D /\ 1 \in 1..D /\ D <= Len(u) /\ D <= Len(t) /\ D \in 1..Len(u)
  BY DEF Holds, Agree
<1>2. \A i \in 1..D : t[i] = u[i]
  BY DEF Agree
<1>3. u[D] \in Closers /\ \A i \in 1..D : u[i] # Null
  BY <1>1, <1>2 DEF Holds
<1>4. PICK f : Reads(t, D, f) /\ f[D] = w
  BY DEF Holds, Begins
<1>5. \A n \in 1..D : Shown(t, n) = Shown(u, n)
  BY <1>1, <1>2 DEF Shown
<1>6. Reads(u, D, f)
  BY <1>1, <1>4, <1>5 DEF Reads
<1>7. Begins(u, D, w)
  BY <1>4, <1>6 DEF Begins
<1> QED BY <1>1, <1>3, <1>7 DEF Holds

\* A buffer holds what it was filled with, though perhaps not the last token.
LEMMA RunsOn ==
    ASSUME NEW a \in Seq(Tokens), NEW u \in Unterminated(a), a # <<>>
    PROVE  /\ u \in Seq(Tokens)
           /\ Len(u) >= Len(a)
           /\ \A i \in 1..Len(a)-1 : u[i] = a[i]
           /\ u[Len(a)] \in Continued(a[Len(a)])
<1>1. PICK k \in Continued(Last(a)), g \in Garbage : u = RunOn(a, k, g)
  BY DEF Unterminated
<1>2. Last(a) = a[Len(a)] /\ Last(a) \in Tokens /\ Len(a) \in Nat \ {0}
  BY DEF Last
<1>3. k \in Tokens /\ g \in Seq(Tokens)
  BY <1>2, TokensContinued, ConfigurationAssumption
<1>4. /\ Front(a) \in Seq(Tokens) /\ Len(Front(a)) = Len(a) - 1
      /\ \A i \in 1..Len(a)-1 : Front(a)[i] = a[i]
  BY <1>2 DEF Front
<1>5. PICK f \in Seq(Tokens) : f = Front(a)
  BY <1>4
<1>6. u = (f \o <<k>>) \o g
  BY <1>1, <1>5 DEF RunOn
<1>7. /\ f \o <<k>> \in Seq(Tokens) /\ Len(f \o <<k>>) = Len(f) + 1
      /\ (f \o <<k>>)[Len(f) + 1] = k
      /\ \A i \in 1..Len(f) : (f \o <<k>>)[i] = f[i]
  BY <1>3
<1>8. PICK e \in Seq(Tokens) : e = f \o <<k>>
  BY <1>7
<1>9. /\ e \o g \in Seq(Tokens) /\ Len(e \o g) = Len(e) + Len(g) /\ Len(g) \in Nat
      /\ \A i \in 1..Len(e) : (e \o g)[i] = e[i]
  BY <1>3
<1>10. Len(e) = Len(a) /\ Len(f) = Len(a) - 1 /\ Len(f) \in Nat
  BY <1>2, <1>4, <1>5, <1>7, <1>8
<1>11. u \in Seq(Tokens) /\ Len(u) >= Len(a)
  BY <1>2, <1>6, <1>8, <1>9, <1>10
<1>12. ASSUME NEW i \in 1..Len(a)-1
       PROVE  u[i] = a[i]
  <2>1. i \in 1..Len(f) /\ i \in 1..Len(e)
    BY <1>2, <1>10
  <2> QED BY <1>4, <1>5, <1>6, <1>7, <1>8, <1>9, <2>1
<1>13. u[Len(a)] = k
  <2>1. Len(a) \in 1..Len(e) /\ Len(a) = Len(f) + 1
    BY <1>2, <1>10
  <2> QED BY <1>6, <1>7, <1>8, <1>9, <2>1
<1> QED BY <1>1, <1>2, <1>11, <1>12, <1>13

LEMMA HoldsOn ==
    ASSUME NEW a \in Seq(Tokens), NEW u \in Unterminated(a), NEW D, NEW w, Holds(a, D, w)
    PROVE  Holds(u, D, w)
<1>1. D \in 1..Len(a) /\ a[D] \in Closers /\ Len(a) \in Nat /\ a # <<>>
  BY DEF Holds
<1>2. /\ u \in Seq(Tokens) /\ Len(u) \in Nat /\ Len(u) >= Len(a)
      /\ \A i \in 1..Len(a)-1 : u[i] = a[i]
      /\ u[Len(a)] \in Continued(a[Len(a)])
  BY <1>1, RunsOn
<1>3. D = Len(a) => u[D] = a[D]
  BY <1>1, <1>2, ClosersApart
<1>4. Agree(a, u, D)
  BY <1>1, <1>2, <1>3 DEF Agree
<1> QED BY <1>4, SameBeginning

\* What strlen() finds of it.
LEMMA HoldsWithin ==
    ASSUME NEW u \in Seq(Tokens), NEW D, NEW w, Holds(u, D, w), NEW n, IsLength(n, u)
    PROVE  Holds(SubSeq(u, 1, n), D, w)
<1>1. D \in 1..Len(u) /\ Len(u) \in Nat /\ n \in 0..Len(u)
  BY DEF Holds, IsLength
<1>2. D <= n
  <2> SUFFICES ASSUME n < D
               PROVE  FALSE
    BY <1>1
  <2>1. n < Len(u) /\ n + 1 \in 1..D
    BY <1>1
  <2> QED BY <2>1 DEF Holds, IsLength
<1>3. Len(SubSeq(u, 1, n)) = n /\ \A i \in 1..n : SubSeq(u, 1, n)[i] = u[i]
  BY <1>1
<1>4. Agree(u, SubSeq(u, 1, n), D)
  BY <1>1, <1>2, <1>3 DEF Agree
<1> QED BY <1>4, SameBeginning

\* What the buffer says, the file said, as far as it goes.
LEMMA HeldBefore ==
    ASSUME NEW a \in Seq(Tokens), NEW u \in Unterminated(a), NEW D, D <= Len(a),
           NEW w, Holds(u, D, w)
    PROVE  Holds(a, D, w)
<1>1. D \in 1..Len(u) /\ u[D] \in Closers
  BY DEF Holds
<1>2. D \in Nat /\ D >= 1 /\ Len(a) \in Nat
  <2>1. D \in Int /\ D >= 1
    BY <1>1
  <2> QED BY <2>1
<1>3. a # <<>>
  BY <1>2
<1>4. /\ u \in Seq(Tokens) /\ Len(u) \in Nat /\ Len(u) >= Len(a)
      /\ \A i \in 1..Len(a)-1 : u[i] = a[i]
      /\ u[Len(a)] \in Continued(a[Len(a)])
  BY <1>3, RunsOn
<1>5. D = Len(a) => u[D] = a[D]
  <2> SUFFICES ASSUME D = Len(a)
               PROVE  a[D] = u[D]
    OBVIOUS
  <2>1. a[D] \in Tokens
    BY <1>2
  <2>2. u[D] \in Continued(a[D]) \cup CutShort(a[D])
    BY <1>4
  <2> QED BY <1>1, <2>1, <2>2, ClosersApart
<1>6. Agree(u, a, D)
  BY <1>2, <1>4, <1>5 DEF Agree
<1> QED BY <1>6, SameBeginning

(***************************************************************************)
(* What a recv() returns.                                                  *)
(***************************************************************************)
LEMMA ReceivedIs ==
    ASSUME NEW s \in Seq(Tokens), NEW t \in Received(s)
    PROVE  \/ t = <<>>
           \/ \E m \in 1..RecvBuffer :
                /\ m <= Len(s)
                /\ t \in Seq(Tokens) /\ Len(t) = m
                /\ \A i \in 1..m-1 : t[i] = s[i]
                /\ t[m] \in CutShort(s[m]) \cup {s[m]}
<1> SUFFICES ASSUME t # <<>>
             PROVE  \E m \in 1..RecvBuffer :
                /\ m <= Len(s)
                /\ t \in Seq(Tokens) /\ Len(t) = m
                /\ \A i \in 1..m-1 : t[i] = s[i]
                /\ t[m] \in CutShort(s[m]) \cup {s[m]}
  OBVIOUS
<1>1. PICK m \in 1..RecvBuffer :
        m <= Len(s) /\ t \in {Append(SubSeq(s, 1, m - 1), k) : k \in CutShort(s[m]) \cup {s[m]}}
  BY DEF Received
<1>2. PICK k \in CutShort(s[m]) \cup {s[m]} : t = Append(SubSeq(s, 1, m - 1), k)
  BY <1>1
<1>3. m \in Nat \ {0} /\ m \in 1..Len(s) /\ m - 1 \in 0..Len(s)
  BY <1>1, ConfigurationAssumption
<1>4. s[m] \in Tokens /\ k \in Tokens
  BY <1>2, <1>3, TokensCut
<1>9. SubSeq(s, 1, m - 1) \in Seq(Tokens)
  BY <1>3
<1>5. PICK b \in Seq(Tokens) : b = SubSeq(s, 1, m - 1)
  BY <1>9
<1>6. Len(b) = m - 1 /\ \A i \in 1..m-1 : b[i] = s[i]
  BY <1>3, <1>5
<1>7. /\ Append(b, k) \in Seq(Tokens) /\ Len(Append(b, k)) = Len(b) + 1
      /\ Append(b, k)[Len(b) + 1] = k
      /\ \A i \in 1..Len(b) : Append(b, k)[i] = b[i]
  BY <1>4
<1>8. Len(t) = m /\ t \in Seq(Tokens) /\ t[m] = k /\ \A i \in 1..m-1 : t[i] = s[i]
  BY <1>2, <1>3, <1>5, <1>6, <1>7
<1> QED BY <1>1, <1>2, <1>8

\* x is the text that cJSON_Parse makes of what u holds.
Parsable(x, u) == \E n : IsLength(n, u) /\ x = Append(SubSeq(u, 1, n), Null)

LEMMA ParsedText ==
    ASSUME NEW u, Parse(u)
    PROVE  Parsable(text', u)
BY DEF Parse, Parsable

LEMMA ParsableReads ==
    ASSUME NEW u \in Seq(Tokens), NEW x, Parsable(x, u)
    PROVE  \E n \in 0..Len(u) :
             /\ IsLength(n, u) /\ Len(x) = n + 1 /\ x[n + 1] = Null
             /\ x = Append(SubSeq(u, 1, n), Null) /\ x \in Seq(Tokens)
             /\ \A i \in 1..n : x[i] = u[i]
<1>1. PICK n : IsLength(n, u) /\ x = Append(SubSeq(u, 1, n), Null)
  BY DEF Parsable
<1>2. n \in 0..Len(u) /\ n \in Nat
  BY <1>1 DEF IsLength
<1>9. SubSeq(u, 1, n) \in Seq(Tokens)
  BY <1>2
<1>3. PICK b \in Seq(Tokens) : b = SubSeq(u, 1, n)
  BY <1>9
<1>4. Len(b) = n /\ \A i \in 1..n : b[i] = u[i]
  BY <1>2, <1>3
<1>5. Null \in Tokens
  BY DEF Tokens, Blanks
<1>6. /\ Append(b, Null) \in Seq(Tokens) /\ Len(Append(b, Null)) = Len(b) + 1
      /\ Append(b, Null)[Len(b) + 1] = Null
      /\ \A i \in 1..Len(b) : Append(b, Null)[i] = b[i]
  BY <1>5
<1> QED BY <1>1, <1>2, <1>3, <1>4, <1>6

\* A bracket is not the NUL at the end.
LEMMA ClosedWithin ==
    ASSUME NEW u \in Seq(Tokens), NEW x, NEW n \in 0..Len(u), Len(x) = n + 1, x[n + 1] = Null,
           NEW E \in 1..Len(x), x[E] \in Closers
    PROVE  E <= n
<1>1. E # n + 1
  BY ClosersApart
<1> QED BY <1>1

\* What the parser has read, the file has said, as far as it goes.
LEMMA FileSays ==
    ASSUME NEW a \in Seq(Tokens), NEW u \in Unterminated(a), NEW x, Parsable(x, u),
           NEW p \in 0..Len(a), p <= Len(x), NEW w, Begins(x, p, w), Spoken(w)
    PROVE  \E D : Holds(a, D, w)
<1>0. u \in Seq(Tokens)
  BY UnterminatedTokens
<1>1. PICK n \in 0..Len(u) :
             /\ IsLength(n, u) /\ Len(x) = n + 1 /\ x[n + 1] = Null
             /\ x = Append(SubSeq(u, 1, n), Null) /\ x \in Seq(Tokens)
             /\ \A i \in 1..n : x[i] = u[i]
  BY <1>0, ParsableReads
<1>2. PICK D \in 1..p : x[D] \in Closers /\ Begins(x, D, w)
  BY <1>1, ReadsUpTo
<1>3. D \in 1..Len(x) /\ D \in Nat /\ D <= Len(a) /\ n \in Nat /\ Len(u) \in Nat
  BY <1>0, <1>1
<1>4. D <= n
  BY <1>0, <1>1, <1>2, <1>3, ClosedWithin
<1>5. ASSUME NEW i \in 1..D
      PROVE  x[i] # Null
  <2>1. i \in 1..n
    BY <1>3, <1>4
  <2> QED BY <1>1, <2>1 DEF IsLength
<1>6. Holds(x, D, w)
  BY <1>2, <1>3, <1>5 DEF Holds
<1>7. Agree(x, u, D)
  <2>1. D <= Len(x) /\ D <= Len(u) /\ \A i \in 1..D : i \in 1..n
    BY <1>1, <1>3, <1>4
  <2> QED BY <1>1, <2>1 DEF Agree
<1>8. Holds(u, D, w)
  BY <1>6, <1>7, SameBeginning
<1>9. Holds(a, D, w)
  BY <1>3, <1>8, HeldBefore
<1> QED BY <1>9

\* What the server parses of what has been sent.
LEMMA ReceivedEchoes ==
    ASSUME NEW s \in Seq(Tokens), NEW t \in Received(s), NEW u \in InBuffer(t),
           NEW x, Parsable(x, u), ~(Len(t) = RecvBuffer /\ Len(s) > RecvBuffer),
           NEW D, NEW w, Holds(s, D, w)
    PROVE  Echoes(x, s, D)
<1>0. D \in 1..Len(s) /\ s[D] \in Closers /\ Len(s) \in Nat /\ RecvBuffer \in Nat \ {0}
  BY ConfigurationAssumption DEF Holds
<1>1. t \in Seq(Tokens)
  BY ReceivedTokens
<1>2. u \in Seq(Tokens)
  BY <1>1, UnterminatedTokens DEF InBuffer
<1>3. PICK n \in 0..Len(u) :
             /\ IsLength(n, u) /\ Len(x) = n + 1 /\ x[n + 1] = Null
             /\ x = Append(SubSeq(u, 1, n), Null) /\ x \in Seq(Tokens)
             /\ \A i \in 1..n : x[i] = u[i]
  BY <1>2, ParsableReads
<1> SUFFICES ASSUME NEW E \in 1..Len(x), x[E] \in Closers, NEW i \in 1..E, i <= D
             PROVE  x[i] = s[i]
  BY DEF Echoes
<1>4. E <= n
  BY <1>2, <1>3, ClosedWithin
<1>5. x[i] = u[i] /\ x[E] = u[E] /\ n <= Len(u) /\ E \in 1..Len(u) /\ i \in 1..Len(u)
  BY <1>2, <1>3, <1>4
<1>6. CASE t = <<>>
  <2>1. Len(t) = 0 /\ Len(t) # RecvBuffer
    BY <1>0, <1>6
  <2>2. u = <<>>
    BY <1>6, <2>1 DEF InBuffer
  <2> QED BY <1>5, <2>2
<1>7. ASSUME NEW m \in 1..RecvBuffer, m <= Len(s), Len(t) = m,
             \A j \in 1..m-1 : t[j] = s[j],
             t[m] \in CutShort(s[m]) \cup {s[m]}
      PROVE  x[i] = s[i]
  <2>0. m \in Nat \ {0} /\ m \in 1..Len(s) /\ s[m] \in Tokens /\ t # <<>> /\ t[m] \in Tokens
    <3>1. m \in Nat \ {0}
      BY <1>0
    <3>2. m \in 1..Len(s) /\ m \in 1..Len(t) /\ t # <<>>
      BY <1>7, <3>1
    <3> QED BY <1>1, <3>1, <3>2
  <2>1. t[m] \in Closers => t[m] = s[m]
    <3> SUFFICES ASSUME t[m] \in Closers, t[m] \in CutShort(s[m])
                 PROVE  t[m] = s[m]
      BY <1>7
    <3> QED BY <2>0, ClosersApart
  <2>2. CASE m # RecvBuffer
    <3>1. u = t
      BY <1>7, <2>2 DEF InBuffer
    <3>2. i <= m /\ E <= m
      BY <1>5, <1>7, <3>1
    <3>3. CASE i = m
      <4>1. E = m
        BY <2>0, <3>2, <3>3
      <4> QED BY <1>5, <2>1, <3>1, <3>3, <4>1
    <3>4. CASE i # m
      <4>1. i \in 1..m-1
        BY <2>0, <3>2, <3>4
      <4> QED BY <1>5, <1>7, <3>1, <4>1
    <3> QED BY <3>3, <3>4
  <2>3. CASE m = RecvBuffer
    <3>1. m = Len(s) /\ u \in Unterminated(t)
      BY <1>0, <1>7, <2>0, <2>3 DEF InBuffer
    <3>2. /\ \A j \in 1..m-1 : u[j] = t[j]
          /\ u[m] \in Continued(t[m])
      BY <1>1, <1>7, <2>0, <3>1, RunsOn
    <3>3. CASE i = m
      <4>1. D = m
        BY <1>0, <3>1, <3>3
      <4>2. CutShort(s[m]) = {} /\ Continued(s[m]) = {s[m]}
        BY <1>0, <4>1, ClosersApart
      <4> QED BY <1>5, <1>7, <3>2, <3>3, <4>2
    <3>4. CASE i # m
      <4>1. i \in 1..m-1
        BY <1>0, <2>0, <3>1, <3>4
      <4> QED BY <1>5, <1>7, <3>2, <4>1
    <3> QED BY <3>3, <3>4
  <2> QED BY <2>2, <2>3
<1>8. \/ t = <<>>
      \/ \E m \in 1..RecvBuffer :
                /\ m <= Len(s)
                /\ t \in Seq(Tokens) /\ Len(t) = m
                /\ \A j \in 1..m-1 : t[j] = s[j]
                /\ t[m] \in CutShort(s[m]) \cup {s[m]}
  BY ReceivedIs
<1> QED BY <1>6, <1>7, <1>8

\* So both have read the same.
LEMMA SameReadings ==
    ASSUME NEW x \in Seq(Tokens), NEW s \in Seq(Tokens), NEW D, NEW w, Holds(s, D, w), Spoken(w),
           Echoes(x, s, D), NEW p, p <= Len(x), NEW v, Begins(x, p, v), Spoken(v)
    PROVE  v = w
<1>1. PICK E \in 1..p : x[E] \in Closers /\ Begins(x, E, v)
  BY ReadsUpTo
<1>2. D \in 1..Len(s) /\ D \in Nat /\ Len(s) \in Nat /\ Len(x) \in Nat /\ Begins(s, D, w)
  BY DEF Holds
<1>3. p \in Nat /\ E \in 1..Len(x) /\ E \in Nat
  BY <1>1, <1>2 DEF Begins, Reads
<1>4. \A i \in 1..E : i <= D => x[i] = s[i]
  BY <1>1, <1>3 DEF Echoes
<1>5. CASE E <= D
  <2>1. Agree(s, x, E)
    BY <1>2, <1>3, <1>4, <1>5 DEF Agree
  <2> QED BY <1>1, <1>2, <1>5, <2>1, OneBeginning
<1>6. CASE D <= E
  <2>1. Agree(x, s, D)
    BY <1>2, <1>3, <1>4, <1>6 DEF Agree
  <2> QED BY <1>1, <1>2, <1>6, <2>1, OneBeginning
<1> QED BY <1>2, <1>3, <1>5, <1>6

(***************************************************************************)
(* What a lookup finds is said.                                            *)
(***************************************************************************)
\* The tree that the parser has built.
Built == [heap |-> nodes, strings |-> strings, reading |-> Rendered]

LEMMA BuiltIs == Built.heap = nodes /\ Built.strings = strings /\ Built.reading = Rendered
BY DEF Built

LEMMA BuiltDocument ==
    ASSUME ParserInv, Tree, KindInv, pc = "done", root # 0
    PROVE  /\ IsDocument(Built)
           /\ LiveLinks(nodes, strings) /\ Grows(nodes)
           /\ root \in DOMAIN nodes
           /\ nodes[root].next = 0 /\ nodes[root].string = 0
<1>1. LiveLinks(nodes, strings)
  BY LinksLive
<1>2. KindsKept(nodes)
  BY DEF KindInv, Telling
<1>3. Grows(nodes)
  <2>1. /\ fresh \in Nat \ {0} /\ DOMAIN nodes \subseteq 1..fresh-1
        /\ \A n \in DOMAIN nodes : /\ nodes[n].next # 0 => n < nodes[n].next
                                   /\ nodes[n].child # 0 => n < nodes[n].child
    BY DEF ParserInv, ParserTypeOK, Growing
  <2>2. fresh - 1 \in Nat
    BY <2>1
  <2> QED BY <2>1, <2>2 DEF Grows
<1>4. /\ Rendered \in [Nat -> Seq(Words)] /\ Tells(nodes, strings, Rendered)
      /\ nodes[root].next = 0 /\ nodes[root].string = 0 /\ root \in DOMAIN nodes
  BY TreeSpells
<1>5. Document(nodes, strings, Rendered)
  BY <1>1, <1>2, <1>3, <1>4 DEF Document
<1> QED BY <1>1, <1>3, <1>4, <1>5, BuiltIs DEF IsDocument

LEMMA FoundFinds ==
    ASSUME NEW name, LiveLinks(nodes, strings), Grows(nodes)
    PROVE  Finds(Found(name), nodes, strings, name)
<1> DEFINE Is(f) == f = [n \in DOMAIN nodes \cup {0} |->
                           IF n = 0 \/ SameName(n, name) THEN n ELSE f[nodes[n].next]]
<1>1. \A f : Is(f) <=> Finds(f, nodes, strings, name)
  BY DEF Finds, SameName, Named
<1>2. \E f : Finds(f, nodes, strings, name)
  BY FindsExists
<1>3. Found(name) = CHOOSE f : Is(f)
  BY DEF Found
<1> HIDE DEF Is
<1>4. Is(Found(name))
  BY <1>1, <1>2, <1>3
<1> QED BY <1>1, <1>4

LEMMA LookupSays ==
    ASSUME ParserInv, Tree, KindInv, pc = "done", ObjectItem # 0
    PROVE  /\ root # 0 /\ Spoken(Rendered[root])
           /\ nodes[ObjectItem].valuestring # 0 =>
                Says(Rendered[root], Key, strings[nodes[ObjectItem].valuestring])
<1>1. root # 0 /\ ObjectItem = Found(Key)[nodes[root].child]
  BY DEF ObjectItem
<1>2. /\ IsDocument(Built)
      /\ LiveLinks(nodes, strings) /\ Grows(nodes)
      /\ root \in DOMAIN nodes
      /\ nodes[root].next = 0 /\ nodes[root].string = 0
  BY <1>1, BuiltDocument
<1>3. PICK name : name = Key
  OBVIOUS
<1>4. PICK f : f = Found(name) /\ Finds(f, nodes, strings, name)
  BY <1>2, FoundFinds
<1>5. f[0] = 0
  BY <1>4 DEF Finds
<1>6. ObjectItem = f[nodes[root].child]
  BY <1>1, <1>3, <1>4
<1>7. nodes[root].child # 0
  BY <1>5, <1>6
<1>8. Rooted(Built, root)
  BY <1>2, <1>7, BuiltIs DEF Rooted
<1>9. Spoken(Rendered[root])
  BY <1>8, BuiltIs DEF Spoken
<1>10. ASSUME nodes[ObjectItem].valuestring # 0
       PROVE  Says(Rendered[root], name, strings[nodes[ObjectItem].valuestring])
  <2>1. Answers(Built, root, name, strings[nodes[ObjectItem].valuestring])
    BY <1>4, <1>6, <1>8, <1>10, BuiltIs DEF Answers
  <2> QED BY <2>1, BuiltIs DEF Says
<1> QED BY <1>1, <1>3, <1>9, <1>10

\* The reading of the tree does not change with the steps of others.
LEMMA SameRendered ==
    ASSUME UNCHANGED <<nodes, strings>>
    PROVE  Rendered' = Rendered
BY DEF Rendered

LEMMA TextKept == [ParserNext]_parserVars => text' = text
BY DEF ParserNext, parserVars, Unchanged, Fails, Begin, ReadPlain, ReadString, OpenEmpty, Open,
       NextElement, AddElement, ReadName, ReadNameLeaving, ReadColon, Comma, Close, CloseAs,
       Finish, Starve, Refuse, Unwind, UnwindWith, DeleteRoot, ReturnNull, DeleteChild,
       DeleteItem, DeleteReturns

(***************************************************************************)
(* The texts and the structs of the two programs.                          *)
(***************************************************************************)
ServerKeys == {"udp_dest_port", "udp_train_size", "udp_timeout", "threshold"}

\* What program r makes of a number.
Conv(r, k, string) ==
    IF k \in Ports[r] THEN Atoi[string] % 65536 ELSE Atoi[string]

\* The value is what the text says under this name.
Given(r, w, k, value) == \E string : Says(w, k, string) /\ value = Conv(r, k, string)

\* Who is where, and what is not filled in yet.
Turns ==
    /\ role \in {"client", "server", "standalone"}
    /\ nth \in Nat \ {0}
    /\ DOMAIN configs = {"client", "server", "standalone"}
    /\ stage \in {"lookup", "sent", "configured"} => pc = "done"
    /\ stage = "sent" => role = "client"
    /\ role # "server" \/ stage = "parse" => DOMAIN configs["server"] = {}
    /\ stage = "read" => role # "server"
    /\ stage \in {"read", "parse"} /\ role # "server" =>
         DOMAIN configs["client"] = {} /\ clientRead = <<>>

FilledFrom(x, a) == \E u \in Unterminated(a) : Parsable(x, u)
FileText == role # "server" /\ stage = "parse" => FilledFrom(text, file)

ClientReads ==
    role # "server" /\ stage = "lookup" /\ clientRead # <<>> =>
      /\ root # 0 /\ clientRead = Rendered[root]
      /\ Spoken(clientRead) => \E D : Holds(file, D, clientRead)
      /\ nth > 1 => Spoken(clientRead)

SentSays ==
    (stage = "sent" \/ role = "server") /\ clientRead # <<>> =>
      Spoken(clientRead) /\ \E D : Holds(sent, D, clientRead)

ServerHears ==
    role = "server" /\ clientRead # <<>> /\ ~(full /\ Len(sent) > RecvBuffer) =>
      \E D : Holds(sent, D, clientRead) /\ Echoes(text, sent, D)

ClientKnows ==
    clientRead # <<>> =>
      \A k \in DOMAIN configs["client"] \ Pointers :
        Given("client", clientRead, k, configs["client"][k])

ServerKnows ==
    role = "server" /\ stage \in {"lookup", "configured"} =>
      /\ nth > 1 => root # 0 /\ Spoken(Rendered[root])
      /\ stage = "configured" => nth > 1
      /\ DOMAIN configs["server"] \subseteq ServerKeys
      /\ \A k \in DOMAIN configs["server"] :
           Given("server", Rendered[root], k, configs["server"][k])

AgreeInv == Turns /\ FileText /\ ClientReads /\ SentSays /\ ServerHears /\ ClientKnows /\ ServerKnows

LEMMA AgreeInit == Init => AgreeInv
<1> SUFFICES ASSUME Init
             PROVE  AgreeInv
  OBVIOUS
<1>1. /\ role \in {"client", "standalone"} /\ stage = "read" /\ nth = 1
      /\ clientRead = <<>>
  BY DEF Init
<1>2. DOMAIN configs = {"client", "server", "standalone"}
  BY DEF Init, Keys
<1>3. configs["client"] = <<>> /\ configs["server"] = <<>>
  BY DEF Init, Keys
<1>4. DOMAIN configs["client"] = {} /\ DOMAIN configs["server"] = {}
  BY <1>3
<1> QED BY <1>1, <1>2, <1>4 DEF AgreeInv, Turns, FileText, ClientReads, SentSays, ServerHears,
           ClientKnows, ServerKnows

LEMMA KeyRange ==
    ASSUME Turns, nth <= Len(Keys[role])
    PROVE  role = "server" => Key \in ServerKeys
<1> SUFFICES ASSUME role = "server"
             PROVE  Key \in ServerKeys
  OBVIOUS
<1>1. Keys[role] = <<"udp_dest_port", "udp_train_size", "udp_timeout", "threshold">>
  BY DEF Keys
<1>2. nth \in 1..4
  BY <1>1 DEF Turns
<1> QED BY <1>1, <1>2 DEF Key, ServerKeys

LEMMA KeysMany ==
    ASSUME Turns
    PROVE  Len(Keys[role]) \in Nat /\ Len(Keys[role]) > 1
<1>1. CASE role = "client"
  <2>1. Keys[role] = <<"server_ip", "udp_dest_port", "udp_source_port", "tcp_port",
                 "udp_payload_size", "inter_measurement_time",
                 "udp_train_size", "udp_timeout", "udp_ttl">>
    BY <1>1 DEF Keys
  <2> QED BY <2>1
<1>2. CASE role = "server"
  <2>1. Keys[role] = <<"udp_dest_port", "udp_train_size", "udp_timeout", "threshold">>
    BY <1>2 DEF Keys
  <2> QED BY <2>1
<1>3. CASE role = "standalone"
  <2>1. Keys[role] = <<"client_ip", "server_ip", "tcp_port", "tcp_head_dest",
                     "tcp_tail_dest", "udp_source_port", "udp_dest_port",
                     "udp_payload_size", "inter_measurement_time",
                     "udp_train_size", "udp_timeout", "rst_timeout",
                     "udp_ttl", "threshold">>
    BY <1>3 DEF Keys
  <2> QED BY <2>1
<1> QED BY <1>1, <1>2, <1>3 DEF Turns

\* A lookup fills in one field of the running program's struct.
LEMMA StoreConfigs ==
    ASSUME Turns, NEW value, Store(value)
    PROVE  /\ DOMAIN configs' = DOMAIN configs
           /\ DOMAIN (configs'[role]) = DOMAIN (configs[role]) \cup {Key}
           /\ configs'[role][Key] = value
           /\ \A k \in DOMAIN (configs[role]) \ {Key} : configs'[role][k] = configs[role][k]
           /\ \A r \in DOMAIN configs \ {role} : configs'[r] = configs[r]
<1>1. PICK k : k = Key
  OBVIOUS
<1>2. role \in DOMAIN configs
  BY DEF Turns
<1>3. configs' = [configs EXCEPT ![role] =
                     [j \in DOMAIN (configs[role]) \cup {k} |->
                        IF j = k THEN value ELSE configs[role][j]]]
  BY <1>1 DEF Store
<1>4. configs'[role] = [j \in DOMAIN (configs[role]) \cup {k} |->
                          IF j = k THEN value ELSE configs[role][j]]
  BY <1>2, <1>3
<1>5. DOMAIN configs' = DOMAIN configs /\ \A r \in DOMAIN configs \ {role} : configs'[r] = configs[r]
  BY <1>3
<1>6. /\ DOMAIN (configs'[role]) = DOMAIN (configs[role]) \cup {k}
      /\ configs'[role][k] = value
      /\ \A j \in DOMAIN (configs[role]) \ {k} : configs'[role][j] = configs[role][j]
  BY <1>4
<1> QED BY <1>1, <1>5, <1>6

LEMMA ReadFileAgrees == AgreeInv /\ ReadFile => AgreeInv'
<1> SUFFICES ASSUME AgreeInv, ReadFile
             PROVE  AgreeInv'
  OBVIOUS
<1>1. /\ stage = "read" /\ stage' = "parse"
      /\ UNCHANGED <<role, file, nth, configs, sent, full, clientRead>>
  BY DEF ReadFile
<1>2. role # "server" /\ clientRead = <<>>
  BY <1>1 DEF AgreeInv, Turns
<1>3. PICK u \in Unterminated(file) : Parse(u)
  BY DEF ReadFile
<1>4. FilledFrom(text', file)
  BY <1>3, ParsedText DEF FilledFrom
<1>5. Turns'
  BY <1>1 DEF AgreeInv, Turns
<1>6. FileText'
  BY <1>1, <1>4 DEF FileText
<1> QED BY <1>1, <1>2, <1>5, <1>6 DEF AgreeInv, ClientReads, SentSays, ServerHears, ClientKnows, ServerKnows

LEMMA ReceiveAgrees == AgreeInv /\ Texts /\ ReceiveStream => AgreeInv'
<1> SUFFICES ASSUME AgreeInv, Texts, ReceiveStream
             PROVE  AgreeInv'
  OBVIOUS
<1>1. /\ stage = "sent" /\ role' = "server" /\ stage' = "parse"
      /\ UNCHANGED <<file, nth, configs, sent, clientRead>>
  BY DEF ReceiveStream
<1>2. role = "client"
  BY <1>1 DEF AgreeInv, Turns
<1>3. PICK t \in Received(sent) : /\ full' = (Len(t) = RecvBuffer)
                                  /\ \E u \in InBuffer(t) : Parse(u)
  BY DEF ReceiveStream
<1>4. PICK u \in InBuffer(t) : Parse(u)
  BY <1>3
<1>5. Parsable(text', u)
  BY <1>4, ParsedText
<1>6. Turns'
  BY <1>1, <1>2 DEF AgreeInv, Turns
<1>7. ServerHears'
  <2> SUFFICES ASSUME clientRead # <<>>, ~(full' /\ Len(sent) > RecvBuffer)
               PROVE  \E D : Holds(sent, D, clientRead) /\ Echoes(text', sent, D)
    BY <1>1 DEF ServerHears
  <2>1. PICK D : Holds(sent, D, clientRead)
    BY <1>1 DEF AgreeInv, SentSays
  <2>2. ~(Len(t) = RecvBuffer /\ Len(sent) > RecvBuffer)
    BY <1>3
  <2>3. Echoes(text', sent, D)
    BY <1>5, <2>1, <2>2, ReceivedEchoes DEF Texts
  <2> QED BY <2>1, <2>3
<1>8. SentSays'
  BY <1>1 DEF AgreeInv, SentSays
<1>9. ClientKnows'
  BY <1>1 DEF AgreeInv, ClientKnows
<1> QED BY <1>1, <1>6, <1>7, <1>8, <1>9 DEF AgreeInv, FileText, ClientReads, ServerKnows

LEMMA ParsingAgrees == AgreeInv /\ Parsing => AgreeInv'
<1> SUFFICES ASSUME AgreeInv, Parsing
             PROVE  AgreeInv'
  OBVIOUS
<1>1. /\ stage = "parse"
      /\ UNCHANGED <<role, stage, file, nth, configs, sent, full, clientRead>>
  BY DEF Parsing, configVars
<1>2. text' = text
  BY TextKept DEF Parsing
<1> QED BY <1>1, <1>2 DEF AgreeInv, Turns, FileText, ClientReads, SentSays, ServerHears,
           ClientKnows, ServerKnows

LEMMA ParsedAgrees == AgreeInv /\ ConfigInv /\ Tree /\ Parsed => AgreeInv'
<1> SUFFICES ASSUME AgreeInv, ConfigInv, Tree, Parsed
             PROVE  AgreeInv'
  OBVIOUS
<1>1. /\ stage = "parse" /\ stage' = "lookup" /\ pc = "done" /\ nth' = 1
      /\ UNCHANGED <<pc, text, pos, root, nodes, strings>>
      /\ UNCHANGED <<role, file, configs, sent, full>>
      /\ clientRead' = IF role = "server" THEN clientRead
                     ELSE IF root # 0 /\ pos <= Len(file) + 1
                     THEN Rendered[root] ELSE <<>>
  BY DEF Parsed, parserVars
<1>2. Rendered' = Rendered
  BY <1>1, SameRendered
<1>3. DOMAIN configs["server"] = {} /\ (role # "server" => DOMAIN configs["client"] = {})
  BY <1>1 DEF AgreeInv, Turns
<1>4. Turns'
  BY <1>1, <1>3 DEF AgreeInv, Turns
<1>5. ClientReads'
  <2> SUFFICES ASSUME role # "server", clientRead' # <<>>
               PROVE  /\ root # 0 /\ clientRead' = Rendered[root]
                      /\ Spoken(clientRead') => \E D : Holds(file, D, clientRead')
    BY <1>1, <1>2 DEF ClientReads
  <2>1. root # 0 /\ pos <= Len(file) + 1 /\ clientRead' = Rendered[root]
    BY <1>1
  <2> SUFFICES ASSUME Spoken(Rendered[root])
               PROVE  \E D : Holds(file, D, Rendered[root])
    BY <2>1
  <2>2. ParserInv /\ ParserTypeOK /\ file \in Seq(Tokens)
    BY DEF ConfigInv, Texts, ParserInv
  <2>3. Rendered[root] = Significant[pos - 1]
    BY <1>1, <2>1, <2>2, TreeSpells
  <2>4. /\ pos \in 1..Len(text)+1 /\ Len(text) \in Nat /\ Len(file) \in Nat
    BY <2>2, TextEnds DEF ParserTypeOK
  <2>5. pos - 1 \in 0..Len(text) /\ pos - 1 \in 0..Len(file) /\ pos - 1 <= Len(text)
    BY <2>1, <2>4
  <2>6. Begins(text, pos - 1, Rendered[root])
    BY <2>2, <2>3, <2>5, TextBegins
  <2>7. PICK u \in Unterminated(file) : Parsable(text, u)
    BY <1>1 DEF AgreeInv, FileText, FilledFrom
  <2> QED BY <2>2, <2>5, <2>6, <2>7, FileSays
<1>6. SentSays'
  BY <1>1 DEF AgreeInv, SentSays
<1>7. ServerHears'
  BY <1>1 DEF AgreeInv, ServerHears
<1>8. ClientKnows'
  BY <1>1, <1>3 DEF AgreeInv, ClientKnows
<1>9. ServerKnows'
  BY <1>1, <1>3 DEF ServerKnows
<1>10. FileText'
  BY <1>1 DEF FileText
<1> QED BY <1>4, <1>5, <1>6, <1>7, <1>8, <1>9, <1>10 DEF AgreeInv

LEMMA SendAgrees == AgreeInv /\ Texts /\ SendStream => AgreeInv'
<1> SUFFICES ASSUME AgreeInv, Texts, SendStream
             PROVE  AgreeInv'
  OBVIOUS
<1>1. /\ stage = "lookup" /\ nth > Len(Keys[role]) /\ role = "client" /\ stage' = "sent"
      /\ UNCHANGED <<pc, text, root, nodes, strings>>
      /\ UNCHANGED <<role, file, nth, configs, full, clientRead>>
  BY DEF SendStream, LookedUp, Proceed, parserVars
<1>2. Turns'
  BY <1>1 DEF AgreeInv, Turns
<1>3. SentSays'
  <2> SUFFICES ASSUME clientRead # <<>>
               PROVE  Spoken(clientRead) /\ \E D : Holds(sent', D, clientRead)
    BY <1>1 DEF SentSays
  <2>1. nth > 1
    <3>1. Len(Keys[role]) \in Nat /\ Len(Keys[role]) > 1
      BY KeysMany DEF AgreeInv
    <3>2. nth \in Nat
      BY DEF AgreeInv, Turns
    <3> QED BY <1>1, <3>1, <3>2
  <2>2. Spoken(clientRead) /\ \E D : Holds(file, D, clientRead)
    BY <1>1, <2>1 DEF AgreeInv, ClientReads
  <2>3. PICK D : Holds(file, D, clientRead)
    BY <2>2
  <2>4. PICK t \in Unterminated(file), n \in Nat : IsLength(n, t) /\ sent' = SubSeq(t, 1, n)
    <3>1. PICK t \in Unterminated(file) : \E n \in 0..Len(t) :
             IsLength(n, t) /\ sent' = SubSeq(t, 1, n)
      BY DEF SendStream
    <3> QED BY <3>1
  <2>5. Holds(t, D, clientRead) /\ t \in Seq(Tokens)
    BY <2>3, HoldsOn, UnterminatedTokens DEF Texts
  <2>6. Holds(sent', D, clientRead)
    BY <2>4, <2>5, HoldsWithin
  <2> QED BY <2>2, <2>6
<1>4. ClientKnows'
  BY <1>1 DEF AgreeInv, ClientKnows
<1> QED BY <1>1, <1>2, <1>3, <1>4 DEF AgreeInv, FileText, ClientReads, ServerHears, ServerKnows

LEMMA ConfiguredAgrees == AgreeInv /\ Configured => AgreeInv'
<1> SUFFICES ASSUME AgreeInv, Configured
             PROVE  AgreeInv'
  OBVIOUS
<1>1. /\ stage = "lookup" /\ nth > Len(Keys[role]) /\ stage' = "configured"
      /\ UNCHANGED <<pc, text, root, nodes, strings>>
      /\ UNCHANGED <<role, file, nth, configs, sent, full, clientRead>>
  BY DEF Configured, LookedUp, Proceed, parserVars
<1>2. nth > 1
  <2>1. Len(Keys[role]) \in Nat /\ Len(Keys[role]) > 1
    BY KeysMany DEF AgreeInv
  <2>2. nth \in Nat
    BY DEF AgreeInv, Turns
  <2> QED BY <1>1, <2>1, <2>2
<1>3. Rendered' = Rendered
  BY <1>1, SameRendered
<1>4. Turns'
  BY <1>1 DEF AgreeInv, Turns
<1>5. SentSays' /\ ServerHears' /\ ClientKnows'
  BY <1>1 DEF AgreeInv, SentSays, ServerHears, ClientKnows
<1>6. ServerKnows'
  BY <1>1, <1>2, <1>3 DEF AgreeInv, ServerKnows
<1> QED BY <1>1, <1>4, <1>5, <1>6 DEF AgreeInv, FileText, ClientReads

LEMMA FailingAgrees ==
    ASSUME AgreeInv, stage' \in {"crashed", "failed"}, UNCHANGED parserVars,
           UNCHANGED <<role, file, nth, configs, sent, full, clientRead>>
    PROVE  AgreeInv'
<1>1. text' = text
  BY DEF parserVars
<1>2. Turns'
  BY DEF AgreeInv, Turns
<1>3. SentSays' /\ ServerHears' /\ ClientKnows'
  BY <1>1 DEF AgreeInv, SentSays, ServerHears, ClientKnows
<1> QED BY <1>2, <1>3 DEF AgreeInv, FileText, ClientReads, ServerKnows

LEMMA QuietAgrees == AgreeInv /\ UNCHANGED vars => AgreeInv'
<1> SUFFICES ASSUME AgreeInv, UNCHANGED vars
             PROVE  AgreeInv'
  OBVIOUS
<1>1. /\ UNCHANGED <<pc, text, root, nodes, strings>>
      /\ UNCHANGED <<role, stage, file, nth, configs, sent, full, clientRead>>
  BY DEF vars, parserVars, configVars
<1>2. Rendered' = Rendered
  BY <1>1, SameRendered
<1>3. Turns' /\ FileText' /\ SentSays' /\ ServerHears' /\ ClientKnows'
  BY <1>1 DEF AgreeInv, Turns, FileText, SentSays, ServerHears, ClientKnows
<1>4. ClientReads' /\ ServerKnows'
  BY <1>1, <1>2 DEF AgreeInv, ClientReads, ServerKnows
<1> QED BY <1>3, <1>4 DEF AgreeInv

LEMMA StoreAgrees ==
    ASSUME AgreeInv, ConfigInv, Tree, KindInv, LookingUp, ObjectItem # 0, NEW value, Store(value),
           Key \notin Pointers => Given(role, Rendered[root], Key, value)
    PROVE  AgreeInv'
<1>1. /\ stage = "lookup" /\ stage' = "lookup" /\ nth <= Len(Keys[role]) /\ nth' = nth + 1
      /\ UNCHANGED <<pc, text, root, nodes, strings>>
      /\ UNCHANGED <<role, stage, file, sent, full, clientRead>>
  BY DEF LookingUp, Store, parserVars
<1>2. Turns /\ pc = "done"
  BY <1>1 DEF AgreeInv, Turns
<1>3. root # 0 /\ Spoken(Rendered[root])
  BY <1>2, LookupSays DEF ConfigInv
<1>4. PICK k : k = Key
  OBVIOUS
<1>5. /\ DOMAIN configs' = DOMAIN configs
      /\ DOMAIN (configs'[role]) = DOMAIN (configs[role]) \cup {k}
      /\ configs'[role][k] = value
      /\ \A j \in DOMAIN (configs[role]) \ {k} : configs'[role][j] = configs[role][j]
      /\ \A r \in DOMAIN configs \ {role} : configs'[r] = configs[r]
  BY <1>2, <1>4, StoreConfigs
<1>6. Rendered' = Rendered
  BY <1>1, SameRendered
<1>7. role = "server" => k \in ServerKeys /\ k \notin Pointers
  BY <1>1, <1>2, <1>4, KeyRange DEF ServerKeys, Pointers
<1>8. k \notin Pointers => Given(role, Rendered[root], k, value)
  BY <1>4
<1>9. nth' \in Nat /\ nth' > 1 /\ DOMAIN configs = {"client", "server", "standalone"}
      /\ role \in DOMAIN configs
  BY <1>1, <1>2 DEF Turns
<1>10. Turns'
  <2>1. role # "server" => configs'["server"] = configs["server"]
    BY <1>5, <1>9
  <2> QED BY <1>1, <1>2, <1>5, <1>9, <2>1 DEF Turns
<1>11. ClientReads'
  BY <1>1, <1>3, <1>6 DEF AgreeInv, ClientReads
<1>12. SentSays' /\ ServerHears' /\ FileText'
  BY <1>1 DEF AgreeInv, SentSays, ServerHears, FileText
<1>13. ClientKnows'
  <2> SUFFICES ASSUME clientRead # <<>>, NEW j \in DOMAIN (configs'["client"]) \ Pointers
               PROVE  Given("client", clientRead, j, configs'["client"][j])
    BY <1>1 DEF ClientKnows
  <2>1. \A i \in DOMAIN (configs["client"]) \ Pointers :
          Given("client", clientRead, i, configs["client"][i])
    BY DEF AgreeInv, ClientKnows
  <2>2. CASE role # "client"
    <3>1. configs'["client"] = configs["client"]
      BY <1>5, <1>9, <2>2
    <3> QED BY <2>1, <3>1
  <2>3. CASE role = "client" /\ j = k
    <3>1. clientRead = Rendered[root]
      BY <1>1, <2>3 DEF AgreeInv, ClientReads
    <3> QED BY <1>5, <1>8, <2>3, <3>1
  <2>4. CASE role = "client" /\ j # k
    <3>1. j \in DOMAIN (configs["client"]) \ Pointers /\ configs'["client"][j] = configs["client"][j]
      BY <1>5, <2>4
    <3> QED BY <2>1, <3>1
  <2> QED BY <2>2, <2>3, <2>4
<1>14. ServerKnows'
  <2> SUFFICES ASSUME role = "server"
               PROVE  /\ DOMAIN (configs'["server"]) \subseteq ServerKeys
                      /\ \A j \in DOMAIN (configs'["server"]) :
                           Given("server", Rendered[root], j, configs'["server"][j])
    BY <1>1, <1>3, <1>6, <1>9 DEF ServerKnows
  <2>1. /\ DOMAIN (configs["server"]) \subseteq ServerKeys
        /\ \A j \in DOMAIN (configs["server"]) :
             Given("server", Rendered[root], j, configs["server"][j])
    BY <1>1 DEF AgreeInv, ServerKnows
  <2>2. DOMAIN (configs'["server"]) \subseteq ServerKeys
    BY <1>5, <1>7, <2>1
  <2>3. ASSUME NEW j \in DOMAIN (configs'["server"])
        PROVE  Given("server", Rendered[root], j, configs'["server"][j])
    <3>1. CASE j = k
      BY <1>5, <1>7, <1>8, <3>1
    <3>2. CASE j # k
      <4>1. j \in DOMAIN (configs["server"]) /\ configs'["server"][j] = configs["server"][j]
        BY <1>5, <3>2
      <4> QED BY <2>1, <4>1
    <3> QED BY <3>1, <3>2
  <2> QED BY <2>2, <2>3
<1> QED BY <1>10, <1>11, <1>12, <1>13, <1>14 DEF AgreeInv

LEMMA LookUpAgrees ==
    ASSUME AgreeInv, ConfigInv, Tree, KindInv, LookUpPointer \/ LookUpNumber
    PROVE  AgreeInv'
<1>1. CASE LookUpPointer
  <2>1. LookingUp /\ Key \in Pointers /\ ObjectItem # 0
    BY <1>1 DEF LookUpPointer
  <2>2. PICK value : Store(value)
    BY <1>1 DEF LookUpPointer
  <2> QED BY <2>1, <2>2, StoreAgrees
<1>2. CASE LookUpNumber
  <2>1. /\ LookingUp /\ Key \notin Pointers
        /\ ObjectItem # 0 /\ nodes[ObjectItem].valuestring # 0
    BY <1>2 DEF LookUpNumber
  <2>2. pc = "done"
    BY <2>1 DEF LookingUp, AgreeInv, Turns
  <2>3. Says(Rendered[root], Key, strings[nodes[ObjectItem].valuestring])
    BY <2>1, <2>2, LookupSays DEF ConfigInv
  <2>4. PICK string : string = strings[nodes[ObjectItem].valuestring]
    OBVIOUS
  <2>5. Store(Conv(role, Key, string))
    BY <1>2, <2>4 DEF LookUpNumber, Conv
  <2>6. Given(role, Rendered[root], Key, Conv(role, Key, string))
    BY <2>3, <2>4 DEF Given
  <2> QED BY <2>1, <2>5, <2>6, StoreAgrees
<1> QED BY <1>1, <1>2

LEMMA AgreeStep == AgreeInv /\ ConfigInv /\ Tree /\ KindInv /\ [Next]_vars => AgreeInv'
<1> SUFFICES ASSUME AgreeInv, ConfigInv, Tree, KindInv, [Next]_vars
             PROVE  AgreeInv'
  OBVIOUS
<1>1. Texts
  BY DEF ConfigInv
<1>2. ASSUME NullPointer \/ Unchecked \/ NoAddress \/ CallFails
      PROVE  AgreeInv'
  <2>1. stage' \in {"crashed", "failed"}
    BY <1>2 DEF NullPointer, Unchecked, NoAddress, CallFails, Crash, Proceed
  <2>2. UNCHANGED parserVars
    BY <1>2 DEF NullPointer, Unchecked, NoAddress, CallFails, Crash, Proceed
  <2>3. UNCHANGED <<role, file, nth, configs, sent, full, clientRead>>
    BY <1>2 DEF NullPointer, Unchecked, NoAddress, CallFails, Crash, Proceed
  <2> QED BY <2>1, <2>2, <2>3, FailingAgrees
<1>3. CASE Stopped \/ UNCHANGED vars
  BY <1>3, QuietAgrees DEF Stopped
<1> QED BY <1>1, <1>2, <1>3, ReadFileAgrees, ParsingAgrees, ParsedAgrees, LookUpAgrees,
           ConfiguredAgrees, SendAgrees, ReceiveAgrees DEF Next

\* The same text has been read, and the same is taken from it.
LEMMA GivenOnce ==
    ASSUME NEW k, k \in ServerKeys, NEW w, NEW a, NEW b, Given("client", w, k, a), Given("server", w, k, b)
    PROVE  a = b
<1>1. PICK s : Says(w, k, s) /\ a = Conv("client", k, s)
  BY DEF Given
<1>2. PICK t : Says(w, k, t) /\ b = Conv("server", k, t)
  BY DEF Given
<1>3. s = t
  BY <1>1, <1>2, SaysOnce
<1>4. k \in Ports["client"] <=> k \in Ports["server"]
  <2>1. /\ Ports["client"] = {"udp_source_port", "udp_dest_port", "tcp_port"}
        /\ Ports["server"] = {"udp_dest_port"}
    BY DEF Ports
  <2> QED BY <2>1 DEF ServerKeys
<1> QED BY <1>1, <1>2, <1>3, <1>4 DEF Conv

LEMMA AgreeAgrees == AgreeInv /\ ConfigInv /\ Tree => ServerAgrees
<1> SUFFICES ASSUME AgreeInv, ConfigInv, Tree,
                    stage = "configured", role = "server", clientRead # <<>>,
                    ~(full /\ Len(sent) > RecvBuffer)
             PROVE  /\ Rendered[root] = clientRead
                    /\ \A k \in DOMAIN configs["server"] \cap DOMAIN configs["client"] :
                         configs["server"][k] = configs["client"][k]
  BY DEF ServerAgrees
<1>1. ParserInv /\ ParserTypeOK /\ sent \in Seq(Tokens) /\ pc = "done"
  BY DEF ConfigInv, Texts, ParserInv, AgreeInv, Turns
<1>2. /\ root # 0 /\ Spoken(Rendered[root])
      /\ DOMAIN configs["server"] \subseteq ServerKeys
      /\ \A k \in DOMAIN configs["server"] :
           Given("server", Rendered[root], k, configs["server"][k])
  BY DEF AgreeInv, ServerKnows
<1>3. PICK D : Holds(sent, D, clientRead) /\ Echoes(text, sent, D)
  BY DEF AgreeInv, ServerHears
<1>4. Spoken(clientRead)
  BY DEF AgreeInv, SentSays
<1>5. Rendered[root] = Significant[pos - 1]
  BY <1>1, <1>2, TreeSpells
<1>6. /\ pos \in 1..Len(text)+1 /\ Len(text) \in Nat /\ text \in Seq(Tokens)
  BY <1>1, TextEnds DEF ParserTypeOK
<1>7. pos - 1 \in 0..Len(text) /\ pos - 1 <= Len(text)
  BY <1>6
<1>8. Begins(text, pos - 1, Rendered[root])
  BY <1>1, <1>2, <1>5, <1>7, TextBegins
<1>9. Rendered[root] = clientRead
  BY <1>1, <1>2, <1>3, <1>4, <1>6, <1>7, <1>8, SameReadings
<1>10. ASSUME NEW k \in DOMAIN configs["server"] \cap DOMAIN configs["client"]
       PROVE  configs["server"][k] = configs["client"][k]
  <2>1. k \in ServerKeys /\ Given("server", clientRead, k, configs["server"][k])
    BY <1>2, <1>9
  <2>2. k \notin Pointers
    BY <2>1 DEF ServerKeys, Pointers
  <2>3. Given("client", clientRead, k, configs["client"][k])
    BY <2>2 DEF AgreeInv, ClientKnows
  <2> QED BY <2>1, <2>3, GivenOnce
<1> QED BY <1>9, <1>10

LEMMA ConfigKindStep == ConfigInv /\ KindInv /\ [Next]_vars => KindInv'
<1> SUFFICES ASSUME ConfigInv, KindInv, [Next]_vars
             PROVE  KindInv'
  OBVIOUS
<1>1. CASE ReadFile \/ ReceiveStream
  <2>1. pc' = "start"
    BY <1>1 DEF ReadFile, ReceiveStream, Parse
  <2> QED BY <2>1 DEF KindInv, Telling, Reading
<1>2. CASE Parsing
  BY <1>2, KindStep DEF Parsing, ConfigInv
<1>3. CASE ~(ReadFile \/ ReceiveStream \/ Parsing)
  <2>1. UNCHANGED parserVars
    BY <1>3 DEF Next, Parsed, LookUpPointer, LookUpNumber, Store, NullPointer, Unchecked,
                Crash, Configured, NoAddress, CallFails, Proceed, Stopped, vars,
                configVars, SendStream
  <2> QED BY <2>1, KindStep DEF ConfigInv
<1> QED BY <1>1, <1>2, <1>3

\* However TCP cuts the text that the client sends, whatever is in memory
\* behind a buffer and however deep the objects nest: the server takes up its
\* work only if it has read all of the object that the client has parsed, and
\* with the client's values.
THEOREM ServerTakesClientsValues == Spec => []ServerAgrees
<1>1. Init => Tree /\ KindInv
  <2>1. Init => Tree
    BY StartTree DEF Init
  <2>2. Init => KindInv
    BY DEF Init, KindInv, Telling, Reading
  <2> QED BY <2>1, <2>2
<1>2. Spec => []Tree
  BY <1>1, ConfigTreeStep, ConfigAlways, PTL DEF Spec
<1>3. Spec => []KindInv
  BY <1>1, ConfigKindStep, ConfigAlways, PTL DEF Spec
<1>4. Spec => []AgreeInv
  BY <1>2, <1>3, AgreeInit, AgreeStep, ConfigAlways, PTL DEF Spec
<1> QED BY <1>2, <1>4, AgreeAgrees, ConfigAlways, PTL

=============================================================================
