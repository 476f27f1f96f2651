----------------------------- MODULE ParserProofs -----------------------------
(***************************************************************************)
(* The parser gives back what it takes, for every text, every nesting      *)
(* limit and every allocation that fails; and it refuses no text that      *)
(* begins with a value in JSON, unless it is too deeply nested.            *)
(***************************************************************************)
EXTENDS Configuration, FiniteSetTheorems, SequenceTheorems, TLAPS

(***************************************************************************)
(* Owners, abstractly: P maps slots to what they point to, N and M are the *)
(* live items and the live strings.                                        *)
(***************************************************************************)
WellOwned(P, N, M) ==
    /\ N \cap M = {} /\ 0 \notin N \cup M
    /\ \A s \in DOMAIN P : P[s] # 0 => P[s] \in IF StringSlot(s) THEN M ELSE N
    /\ \A s, t \in DOMAIN P : P[s] = P[t] /\ P[s] # 0 => s = t
    /\ \A b \in N \cup M : \E s \in DOMAIN P : P[s] = b

\* Does Q say of slot s what P says?  Slots that hold NULL may come and go.
Kept(P, Q, s) == P[s] = 0 \/ (s \in DOMAIN Q /\ Q[s] = P[s])

LEMMA SameOwners ==
    ASSUME NEW P, NEW Q, NEW N, NEW M, WellOwned(P, N, M),
           \A s \in DOMAIN P : Kept(P, Q, s),
           \A s \in DOMAIN Q : Kept(Q, P, s)
    PROVE  WellOwned(Q, N, M)
<1>1. \A s \in DOMAIN Q : Q[s] # 0 => Q[s] \in IF StringSlot(s) THEN M ELSE N
  BY DEF WellOwned, Kept
<1>2. \A s, t \in DOMAIN Q : Q[s] = Q[t] /\ Q[s] # 0 => s = t
  BY DEF WellOwned, Kept
<1>3. \A b \in N \cup M : \E s \in DOMAIN Q : Q[s] = b
  BY DEF WellOwned, Kept
<1> QED BY <1>1, <1>2, <1>3 DEF WellOwned

\* A new block b gets its owner w.
LEMMA NewOwner ==
    ASSUME NEW P, NEW Q, NEW N, NEW M, NEW w, NEW b, WellOwned(P, N, M),
           b # 0, b \notin N \cup M,
           w \in DOMAIN Q, Q[w] = b,
           \A s \in DOMAIN P : Kept(P, Q, s),
           \A s \in DOMAIN Q \ {w} : Kept(Q, P, s)
    PROVE  /\ StringSlot(w)  => WellOwned(Q, N, M \cup {b})
           /\ ~StringSlot(w) => WellOwned(Q, N \cup {b}, M)
<1>1. \A s \in DOMAIN P : P[s] # b
  BY DEF WellOwned
<1>2. \A s \in DOMAIN Q \ {w} : Q[s] # b
  BY <1>1 DEF Kept
<1>3. \A s, t \in DOMAIN Q : Q[s] = Q[t] /\ Q[s] # 0 => s = t
  <2> SUFFICES ASSUME NEW s \in DOMAIN Q, NEW t \in DOMAIN Q,
                      Q[s] = Q[t], Q[s] # 0
               PROVE  s = t
    OBVIOUS
  <2>1. CASE s = w
    BY <1>2, <2>1
  <2>2. CASE t = w
    BY <1>2, <2>2
  <2>3. CASE s # w /\ t # w
    BY <2>3 DEF Kept, WellOwned
  <2> QED BY <2>1, <2>2, <2>3
<1>4. \A c \in N \cup M \cup {b} : \E s \in DOMAIN Q : Q[s] = c
  BY DEF WellOwned, Kept
<1>5. \A s \in DOMAIN Q \ {w} : Q[s] # 0 => Q[s] \in IF StringSlot(s) THEN M ELSE N
  BY DEF WellOwned, Kept
<1> QED BY <1>3, <1>4, <1>5 DEF WellOwned

\* Slot v hands what it owns to slot w.
LEMMA MoveOwner ==
    ASSUME NEW P, NEW Q, NEW N, NEW M, NEW v, NEW w, WellOwned(P, N, M),
           v \in DOMAIN P, w \in DOMAIN Q, Q[w] = P[v],
           StringSlot(v) = StringSlot(w),
           v \in DOMAIN Q => Q[v] = 0,
           \A s \in DOMAIN P \ {v} : Kept(P, Q, s),
           \A s \in DOMAIN Q \ {w} : Kept(Q, P, s)
    PROVE  WellOwned(Q, N, M)
<1>1. \A s \in DOMAIN Q \ {w} : Q[s] # 0 => s # v /\ s \in DOMAIN P /\ Q[s] = P[s]
  BY DEF Kept
<1>2. \A s \in DOMAIN Q : Q[s] # 0 => Q[s] \in IF StringSlot(s) THEN M ELSE N
  <2> SUFFICES ASSUME NEW s \in DOMAIN Q, Q[s] # 0
               PROVE  Q[s] \in IF StringSlot(s) THEN M ELSE N
    OBVIOUS
  <2>1. CASE s = w
    <3>1. P[v] \in IF StringSlot(v) THEN M ELSE N
      BY <2>1 DEF WellOwned
    <3> QED BY <2>1, <3>1
  <2>2. CASE s # w
    BY <1>1, <2>2 DEF WellOwned
  <2> QED BY <2>1, <2>2
<1>3. \A s, t \in DOMAIN Q : Q[s] = Q[t] /\ Q[s] # 0 => s = t
  <2> SUFFICES ASSUME NEW s \in DOMAIN Q, NEW t \in DOMAIN Q,
                      Q[s] = Q[t], Q[s] # 0
               PROVE  s = t
    OBVIOUS
  <2>1. CASE s = w /\ t # w
    BY <1>1, <2>1 DEF WellOwned
  <2>2. CASE t = w /\ s # w
    BY <1>1, <2>2 DEF WellOwned
  <2>3. CASE s # w /\ t # w
    BY <1>1, <2>3 DEF WellOwned
  <2> QED BY <2>1, <2>2, <2>3
<1>4. \A b \in N \cup M : \E s \in DOMAIN Q : Q[s] = b
  <2> SUFFICES ASSUME NEW b \in N \cup M
               PROVE  \E s \in DOMAIN Q : Q[s] = b
    OBVIOUS
  <2>1. PICK s \in DOMAIN P : P[s] = b
    BY DEF WellOwned
  <2>2. b # 0
    BY DEF WellOwned
  <2>3. CASE s = v
    BY <2>1, <2>3
  <2>4. CASE s # v
    BY <2>1, <2>2, <2>4 DEF Kept
  <2> QED BY <2>3, <2>4
<1> QED BY <1>2, <1>3, <1>4 DEF WellOwned

\* Item n, owned by d, is freed with its strings x and y, which the slots
\* s1 and s2 own; d takes over what its next owned, and nothing else is lost.
LEMMA RemoveItem ==
    ASSUME NEW P, NEW Q, NEW N, NEW M, WellOwned(P, N, M),
           NEW d, NEW next, NEW s1, NEW s2,
           d \in DOMAIN P, d \in DOMAIN Q, P[d] # 0,
           next \in DOMAIN P, s1 \in DOMAIN P, s2 \in DOMAIN P,
           ~StringSlot(d), ~StringSlot(next), StringSlot(s1), StringSlot(s2),
           next \notin DOMAIN Q, s1 \notin DOMAIN Q, s2 \notin DOMAIN Q,
           Q[d] = P[next],
           \A s \in DOMAIN P \ {d, next, s1, s2} : Kept(P, Q, s),
           \A s \in DOMAIN Q \ {d} : Kept(Q, P, s)
    PROVE  WellOwned(Q, N \ {P[d]}, M \ {P[s1], P[s2]})
<1>1. \A s \in DOMAIN Q \ {d} : Q[s] # 0 =>
        s \in DOMAIN P /\ Q[s] = P[s] /\ s # next /\ s # s1 /\ s # s2
  BY DEF Kept
<1>2. \A s \in DOMAIN Q : Q[s] # 0 =>
        Q[s] \in IF StringSlot(s) THEN M \ {P[s1], P[s2]} ELSE N \ {P[d]}
  <2> SUFFICES ASSUME NEW s \in DOMAIN Q, Q[s] # 0
               PROVE  Q[s] \in IF StringSlot(s) THEN M \ {P[s1], P[s2]}
                                                ELSE N \ {P[d]}
    OBVIOUS
  <2>1. CASE s = d
    <3>1. P[next] \in N
      BY <2>1 DEF WellOwned
    <3>2. P[next] # P[d]
      BY <2>1 DEF WellOwned
    <3> QED BY <2>1, <3>1, <3>2
  <2>2. CASE s # d
    <3>1. P[s] # P[s1] /\ P[s] # P[s2] /\ P[s] # P[d]
      BY <1>1, <2>2 DEF WellOwned
    <3>2. P[s] \in IF StringSlot(s) THEN M ELSE N
      BY <1>1, <2>2 DEF WellOwned
    <3> QED BY <1>1, <2>2, <3>1, <3>2
  <2> QED BY <2>1, <2>2
<1>3. \A s, t \in DOMAIN Q : Q[s] = Q[t] /\ Q[s] # 0 => s = t
  <2> SUFFICES ASSUME NEW s \in DOMAIN Q, NEW t \in DOMAIN Q,
                      Q[s] = Q[t], Q[s] # 0
               PROVE  s = t
    OBVIOUS
  <2>1. CASE s = d /\ t # d
    BY <1>1, <2>1 DEF WellOwned
  <2>2. CASE t = d /\ s # d
    BY <1>1, <2>2 DEF WellOwned
  <2>3. CASE s # d /\ t # d
    BY <1>1, <2>3 DEF WellOwned
  <2> QED BY <2>1, <2>2, <2>3
<1>4. \A b \in (N \ {P[d]}) \cup (M \ {P[s1], P[s2]}) : \E s \in DOMAIN Q : Q[s] = b
  <2> SUFFICES ASSUME NEW b \in (N \ {P[d]}) \cup (M \ {P[s1], P[s2]})
               PROVE  \E s \in DOMAIN Q : Q[s] = b
    OBVIOUS
  <2>1. PICK s \in DOMAIN P : P[s] = b
    BY DEF WellOwned
  <2>2. b # 0
    BY DEF WellOwned
  <2>3. s # d
    <3>1. P[d] \in N /\ P[d] \notin M
      BY DEF WellOwned
    <3> QED BY <2>1, <3>1
  <2>4. s # s1 /\ s # s2
    BY <2>1, <2>2 DEF WellOwned
  <2>5. CASE s = next
    BY <2>1, <2>5
  <2>6. CASE s # next
    BY <2>1, <2>2, <2>3, <2>4, <2>6 DEF Kept
  <2> QED BY <2>5, <2>6
<1> QED BY <1>2, <1>3, <1>4 DEF WellOwned

(***************************************************************************)
(* The slots of Parser, as a function of the variables they depend on.     *)
(***************************************************************************)
EnteredIn(d, n) == \E i \in DOMAIN d : d[i].item = n /\ d[i].entered

SlotSet(st, d, h) ==
    {<<"root", 0>>} \cup ({"head"} \X DOMAIN st)
        \cup ({"delete"} \X DOMAIN d)
        \cup {s \in Fields \X DOMAIN h :
                s[1] = "child" => ~EnteredIn(d, s[2])}

Target(r, st, d, h, s) ==
    CASE s[1] = "root"        -> r
      [] s[1] = "head"        -> st[s[2]].head
      [] s[1] = "delete"      -> d[s[2]].item
      [] s[1] = "next"        -> h[s[2]].next
      [] s[1] = "child"       -> h[s[2]].child
      [] s[1] = "valuestring" -> h[s[2]].valuestring
      [] s[1] = "string"      -> h[s[2]].string

Ptr(r, st, d, h) == [s \in SlotSet(st, d, h) |-> Target(r, st, d, h, s)]

LEMMA RootSlot ==
    ASSUME NEW r, NEW st, NEW d, NEW h
    PROVE  /\ <<"root", 0>> \in DOMAIN Ptr(r, st, d, h)
           /\ Ptr(r, st, d, h)[<<"root", 0>>] = r
           /\ ~StringSlot(<<"root", 0>>)
<1>1. <<"root", 0>> \in SlotSet(st, d, h)
  BY DEF SlotSet
<1>2. Target(r, st, d, h, <<"root", 0>>) = r
  BY DEF Target
<1>3. ~StringSlot(<<"root", 0>>)
  BY DEF StringSlot
<1> QED BY <1>1, <1>2, <1>3 DEF Ptr

LEMMA HeadSlot ==
    ASSUME NEW r, NEW st, NEW d, NEW h, NEW i
    PROVE  /\ <<"head", i>> \in DOMAIN Ptr(r, st, d, h) <=> i \in DOMAIN st
           /\ i \in DOMAIN st => Ptr(r, st, d, h)[<<"head", i>>] = st[i].head
           /\ ~StringSlot(<<"head", i>>)
<1>1. <<"head", i>> \in SlotSet(st, d, h) <=> i \in DOMAIN st
  BY DEF SlotSet, Fields
<1>2. Target(r, st, d, h, <<"head", i>>) = st[i].head
  BY DEF Target
<1>3. ~StringSlot(<<"head", i>>)
  BY DEF StringSlot
<1> QED BY <1>1, <1>2, <1>3 DEF Ptr

LEMMA DeleteSlot ==
    ASSUME NEW r, NEW st, NEW d, NEW h, NEW i
    PROVE  /\ <<"delete", i>> \in DOMAIN Ptr(r, st, d, h) <=> i \in DOMAIN d
           /\ i \in DOMAIN d => Ptr(r, st, d, h)[<<"delete", i>>] = d[i].item
           /\ ~StringSlot(<<"delete", i>>)
<1>1. <<"delete", i>> \in SlotSet(st, d, h) <=> i \in DOMAIN d
  BY DEF SlotSet, Fields
<1>2. Target(r, st, d, h, <<"delete", i>>) = d[i].item
  BY DEF Target
<1>3. ~StringSlot(<<"delete", i>>)
  BY DEF StringSlot
<1> QED BY <1>1, <1>2, <1>3 DEF Ptr

LEMMA NextSlot ==
    ASSUME NEW r, NEW st, NEW d, NEW h, NEW n
    PROVE  /\ <<"next", n>> \in DOMAIN Ptr(r, st, d, h) <=> n \in DOMAIN h
           /\ n \in DOMAIN h => Ptr(r, st, d, h)[<<"next", n>>] = h[n].next
           /\ ~StringSlot(<<"next", n>>)
<1>1. <<"next", n>> \in SlotSet(st, d, h) <=> n \in DOMAIN h
  BY DEF SlotSet, Fields
<1>2. Target(r, st, d, h, <<"next", n>>) = h[n].next
  BY DEF Target
<1>3. ~StringSlot(<<"next", n>>)
  BY DEF StringSlot
<1> QED BY <1>1, <1>2, <1>3 DEF Ptr

LEMMA KidSlot ==
    ASSUME NEW r, NEW st, NEW d, NEW h, NEW n
    PROVE  /\ <<"child", n>> \in DOMAIN Ptr(r, st, d, h) <=>
                n \in DOMAIN h /\ ~EnteredIn(d, n)
           /\ n \in DOMAIN h /\ ~EnteredIn(d, n) =>
                Ptr(r, st, d, h)[<<"child", n>>] = h[n].child
           /\ ~StringSlot(<<"child", n>>)
<1>1. <<"child", n>> \in SlotSet(st, d, h) <=> n \in DOMAIN h /\ ~EnteredIn(d, n)
  BY DEF SlotSet, Fields
<1>2. Target(r, st, d, h, <<"child", n>>) = h[n].child
  BY DEF Target
<1>3. ~StringSlot(<<"child", n>>)
  BY DEF StringSlot
<1> QED BY <1>1, <1>2, <1>3 DEF Ptr

LEMMA ValueSlot ==
    ASSUME NEW r, NEW st, NEW d, NEW h, NEW n
    PROVE  /\ <<"valuestring", n>> \in DOMAIN Ptr(r, st, d, h) <=> n \in DOMAIN h
           /\ n \in DOMAIN h => Ptr(r, st, d, h)[<<"valuestring", n>>] = h[n].valuestring
           /\ StringSlot(<<"valuestring", n>>)
<1>1. <<"valuestring", n>> \in SlotSet(st, d, h) <=> n \in DOMAIN h
  BY DEF SlotSet, Fields
<1>2. Target(r, st, d, h, <<"valuestring", n>>) = h[n].valuestring
  BY DEF Target
<1>3. StringSlot(<<"valuestring", n>>)
  BY DEF StringSlot
<1> QED BY <1>1, <1>2, <1>3 DEF Ptr

LEMMA NameSlot ==
    ASSUME NEW r, NEW st, NEW d, NEW h, NEW n
    PROVE  /\ <<"string", n>> \in DOMAIN Ptr(r, st, d, h) <=> n \in DOMAIN h
           /\ n \in DOMAIN h => Ptr(r, st, d, h)[<<"string", n>>] = h[n].string
           /\ StringSlot(<<"string", n>>)
<1>1. <<"string", n>> \in SlotSet(st, d, h) <=> n \in DOMAIN h
  BY DEF SlotSet, Fields
<1>2. Target(r, st, d, h, <<"string", n>>) = h[n].string
  BY DEF Target
<1>3. StringSlot(<<"string", n>>)
  BY DEF StringSlot
<1> QED BY <1>1, <1>2, <1>3 DEF Ptr

\* There is no other slot.
LEMMA SlotKinds ==
    ASSUME NEW r, NEW st, NEW d, NEW h, NEW s \in DOMAIN Ptr(r, st, d, h)
    PROVE  \/ s = <<"root", 0>>
           \/ \E i \in DOMAIN st : s = <<"head", i>>
           \/ \E i \in DOMAIN d : s = <<"delete", i>>
           \/ \E n \in DOMAIN h :
                s \in {<<"next", n>>, <<"valuestring", n>>, <<"string", n>>}
           \/ \E n \in DOMAIN h : ~EnteredIn(d, n) /\ s = <<"child", n>>
<1>1. s \in SlotSet(st, d, h)
  BY DEF Ptr
<1>2. CASE s \in Fields \X DOMAIN h
  <2>1. PICK f \in Fields, n \in DOMAIN h : s = <<f, n>>
    BY <1>2
  <2>2. s[1] = f /\ s[2] = n
    BY <2>1
  <2>3. f = "child" => ~EnteredIn(d, n)
    BY <1>1, <2>1, <2>2 DEF SlotSet
  <2> QED BY <2>1, <2>3 DEF Fields
<1> QED BY <1>1, <1>2 DEF SlotSet

\* All slots but those of X say the same before and after, or nothing.
Carried(r, st, d, h, r2, st2, d2, h2, X) ==
    /\ <<"root", 0>> \notin X => r = 0 \/ r2 = r
    /\ \A i \in DOMAIN st : <<"head", i>> \notin X =>
         st[i].head = 0 \/ (i \in DOMAIN st2 /\ st2[i].head = st[i].head)
    /\ \A i \in DOMAIN d : <<"delete", i>> \notin X =>
         d[i].item = 0 \/ (i \in DOMAIN d2 /\ d2[i].item = d[i].item)
    /\ \A n \in DOMAIN h :
         /\ <<"next", n>> \notin X =>
              h[n].next = 0 \/ (n \in DOMAIN h2 /\ h2[n].next = h[n].next)
         /\ <<"valuestring", n>> \notin X =>
              \/ h[n].valuestring = 0
              \/ n \in DOMAIN h2 /\ h2[n].valuestring = h[n].valuestring
         /\ <<"string", n>> \notin X =>
              \/ h[n].string = 0
              \/ n \in DOMAIN h2 /\ h2[n].string = h[n].string
         /\ <<"child", n>> \notin X /\ ~EnteredIn(d, n) =>
              \/ h[n].child = 0
              \/ /\ n \in DOMAIN h2 /\ ~EnteredIn(d2, n)
                 /\ h2[n].child = h[n].child

LEMMA KeptSlots ==
    ASSUME NEW r, NEW st, NEW d, NEW h, NEW r2, NEW st2, NEW d2, NEW h2,
           NEW X, Carried(r, st, d, h, r2, st2, d2, h2, X)
    PROVE  \A s \in DOMAIN Ptr(r, st, d, h) \ X :
             Kept(Ptr(r, st, d, h), Ptr(r2, st2, d2, h2), s)
<1> DEFINE P == Ptr(r, st, d, h)
           Q == Ptr(r2, st2, d2, h2)
<1> SUFFICES ASSUME NEW s \in DOMAIN P, s \notin X
             PROVE  Kept(P, Q, s)
  OBVIOUS
<1>1. CASE s = <<"root", 0>>
  <2>1. P[s] = r /\ s \in DOMAIN Q /\ Q[s] = r2
    BY <1>1, RootSlot
  <2> HIDE DEF P, Q
  <2> QED BY <1>1, <2>1 DEF Kept, Carried
<1>2. ASSUME NEW i \in DOMAIN st, s = <<"head", i>>
      PROVE  Kept(P, Q, s)
  <2>1. P[s] = st[i].head
    BY <1>2, HeadSlot
  <2>2. i \in DOMAIN st2 => s \in DOMAIN Q /\ Q[s] = st2[i].head
    BY <1>2, HeadSlot
  <2> HIDE DEF P, Q
  <2> QED BY <1>2, <2>1, <2>2 DEF Kept, Carried
<1>3. ASSUME NEW i \in DOMAIN d, s = <<"delete", i>>
      PROVE  Kept(P, Q, s)
  <2>1. P[s] = d[i].item
    BY <1>3, DeleteSlot
  <2>2. i \in DOMAIN d2 => s \in DOMAIN Q /\ Q[s] = d2[i].item
    BY <1>3, DeleteSlot
  <2> HIDE DEF P, Q
  <2> QED BY <1>3, <2>1, <2>2 DEF Kept, Carried
<1>4. ASSUME NEW n \in DOMAIN h, s = <<"next", n>>
      PROVE  Kept(P, Q, s)
  <2>1. P[s] = h[n].next
    BY <1>4, NextSlot
  <2>2. n \in DOMAIN h2 => s \in DOMAIN Q /\ Q[s] = h2[n].next
    BY <1>4, NextSlot
  <2> HIDE DEF P, Q
  <2> QED BY <1>4, <2>1, <2>2 DEF Kept, Carried
<1>5. ASSUME NEW n \in DOMAIN h, s = <<"valuestring", n>>
      PROVE  Kept(P, Q, s)
  <2>1. P[s] = h[n].valuestring
    BY <1>5, ValueSlot
  <2>2. n \in DOMAIN h2 => s \in DOMAIN Q /\ Q[s] = h2[n].valuestring
    BY <1>5, ValueSlot
  <2> HIDE DEF P, Q
  <2> QED BY <1>5, <2>1, <2>2 DEF Kept, Carried
<1>6. ASSUME NEW n \in DOMAIN h, s = <<"string", n>>
      PROVE  Kept(P, Q, s)
  <2>1. P[s] = h[n].string
    BY <1>6, NameSlot
  <2>2. n \in DOMAIN h2 => s \in DOMAIN Q /\ Q[s] = h2[n].string
    BY <1>6, NameSlot
  <2> HIDE DEF P, Q
  <2> QED BY <1>6, <2>1, <2>2 DEF Kept, Carried
<1>7. ASSUME NEW n \in DOMAIN h, ~EnteredIn(d, n), s = <<"child", n>>
      PROVE  Kept(P, Q, s)
  <2>1. P[s] = h[n].child
    BY <1>7, KidSlot
  <2>2. n \in DOMAIN h2 /\ ~EnteredIn(d2, n) =>
          s \in DOMAIN Q /\ Q[s] = h2[n].child
    BY <1>7, KidSlot
  <2> HIDE DEF P, Q
  <2> QED BY <1>7, <2>1, <2>2 DEF Kept, Carried
<1> QED BY <1>1, <1>2, <1>3, <1>4, <1>5, <1>6, <1>7, SlotKinds

(***************************************************************************)
(* The invariant.  The running parse_array and parse_object hold a chain   *)
(* of items, each of which is behind its frame's head in memory and is not *)
(* linked to anything yet.                                                 *)
(***************************************************************************)
Owned == WellOwned(Ptr(root, stack, del, nodes), DOMAIN nodes, DOMAIN strings)

\* Links lead to younger items, so there is no cycle.
Growing ==
    \A n \in DOMAIN nodes :
        /\ nodes[n].next # 0 => n < nodes[n].next
        /\ nodes[n].child # 0 => n < nodes[n].child

Reading == pc \in {"value", "element", "name", "colon", "after"}

Chain(i) == IF i = 0 THEN root ELSE stack[i].last

ChainInv ==
    /\ \A i \in 0..Depth : Chain(i) # 0 =>
         Chain(i) \in DOMAIN nodes /\ nodes[Chain(i)].next = 0
    /\ \A i, j \in 0..Depth : i < j /\ Chain(j) # 0 => Chain(i) < Chain(j)
    /\ \A i \in 0..Depth-1 : Chain(i) # 0 /\ nodes[Chain(i)].child = 0
    /\ \A i \in 1..Depth :
         /\ stack[i].head = 0 <=> Chain(i) = 0
         /\ stack[i].head # 0 => Chain(i - 1) < stack[i].head

Current ==
    /\ pc # "element" => Chain(Depth) # 0
    /\ pc \in {"value", "name", "colon"} =>
         nodes[Chain(Depth)].child = 0 /\ nodes[Chain(Depth)].valuestring = 0
    /\ pc = "name" => nodes[Chain(Depth)].string = 0

Placed ==
    /\ pc = "start" => root = 0 /\ stack = <<>> /\ DOMAIN nodes = {}
    /\ pc # "fail" => del = <<>>
    /\ pc = "done" => stack = <<>>
    /\ pc \in {"element", "name", "colon"} => Depth > 0
    /\ pc = "element" => pos < Len(text)
    /\ NameInBounds

ParserInv ==
    /\ ParserTypeOK
    /\ Placed
    /\ Growing
    /\ Reading => ChainInv /\ Current
    /\ Owned

(***************************************************************************)
(* The steps that only read.                                               *)
(***************************************************************************)
LEMMA TextEnds ==
    ASSUME ParserTypeOK
    PROVE  /\ text \in Seq(Tokens) /\ Len(text) \in Nat /\ Len(text) > 0
           /\ text[Len(text)] = Null
           /\ pos \in Nat /\ pos > 0 /\ pos <= Len(text) + 1
<1>1. text \in Seq(Tokens) /\ text # <<>> /\ text[Len(text)] = Null
  BY DEF ParserTypeOK, Buffers
<1>2. Len(text) \in Nat /\ Len(text) > 0
  BY <1>1
<1> QED BY <1>1, <1>2 DEF ParserTypeOK

LEMMA SkipRange ==
    ASSUME ParserTypeOK, NEW p \in Nat, NEW q, SkipsTo(p, q),
           p \in 1..Len(text) + 1
    PROVE  /\ q \in p..Len(text) + 1
           /\ p <= Len(text) => q <= Len(text)
BY DEF ParserTypeOK, Buffers, SkipsTo, CanAccess

LEMMA QuietStep ==
    ASSUME ParserInv,
           UNCHANGED <<text, root, stack, nodes, strings, fresh, del>>,
           pos' \in 1..Len(text) + 1, starved' \in BOOLEAN,
           pc' \in ParserPcs, Placed', Reading' => Reading /\ Current'
    PROVE  ParserInv'
<1>1. ParserTypeOK'
  BY DEF ParserInv, ParserTypeOK, Depth
<1>2. Growing'
  BY DEF ParserInv, Growing
<1>3. Owned'
  BY DEF ParserInv, Owned
<1>4. Reading' => ChainInv'
  <2>1. (\A i : Chain(i)' = Chain(i)) /\ Depth' = Depth
    BY DEF Chain, Depth
  <2> QED BY <2>1 DEF ParserInv, ChainInv
<1> QED BY <1>1, <1>2, <1>3, <1>4 DEF ParserInv

LEMMA ReadColonInv == ParserInv /\ ReadColon => ParserInv'
<1> SUFFICES ASSUME ParserInv, ReadColon
             PROVE  ParserInv'
  OBVIOUS
<1> USE DEF ParserInv
<1>1. pos \in Nat /\ pos <= Len(text)
  BY DEF ReadColon, At, CanAccess, ParserTypeOK
<1>2. pos' \in 1..Len(text) + 1
  BY <1>1 DEF ReadColon, SkipPast, ParserTypeOK
<1>3. Placed'
  BY DEF ReadColon, Unchanged, Placed, NameInBounds
<1>4. Reading /\ Current'
  <2>1. Reading /\ Current
    BY DEF ReadColon, Reading
  <2>2. Chain(Depth)' = Chain(Depth)
    BY DEF ReadColon, Unchanged, Chain, Depth
  <2> QED BY <2>1, <2>2 DEF Current, ReadColon, Unchanged
<1>5. starved' \in BOOLEAN /\ pc' \in ParserPcs
  BY DEF ReadColon, Unchanged, ParserTypeOK, ParserPcs
<1> QED BY <1>2, <1>3, <1>4, <1>5, QuietStep DEF ReadColon, Unchanged

LEMMA CommaInv == ParserInv /\ Comma => ParserInv'
<1> SUFFICES ASSUME ParserInv, Comma
             PROVE  ParserInv'
  OBVIOUS
<1> USE DEF ParserInv
<1>1. PICK q \in pos..Len(text) :
        /\ Behind(q)
        /\ text[q] = ","
        /\ pos' = q
        /\ pc' = "element"
        /\ UNCHANGED <<root, stack, nodes, strings, fresh>> /\ Unchanged
  BY DEF Comma
<1>2. q < Len(text) /\ q > 0 /\ q \in Nat /\ Len(text) \in Nat
  <2>1. /\ Len(text) \in Nat /\ text[Len(text)] = Null
        /\ pos \in Nat /\ pos > 0
    BY TextEnds
  <2>2. q # Len(text)
    BY <1>1, <2>1 DEF Null
  <2> QED BY <2>1, <2>2
<1>3. Placed'
  BY <1>1, <1>2 DEF Unchanged, Placed, NameInBounds, Behind, Depth
<1>4. Reading /\ Current'
  BY <1>1 DEF Reading, Behind, Current
<1>5. starved' \in BOOLEAN /\ pc' \in ParserPcs
  BY <1>1 DEF Unchanged, ParserTypeOK, ParserPcs
<1>6. pos' \in 1..Len(text) + 1
  <2>1. pos' = q
    BY <1>1
  <2> QED BY <1>2, <2>1
<1> QED BY <1>1, <1>3, <1>4, <1>5, <1>6, QuietStep DEF Unchanged

LEMMA FailsInv ==
    ParserInv /\ Fails /\ pc # "done" /\ del = <<>> /\ starved' \in BOOLEAN
      => ParserInv'
<1> SUFFICES ASSUME ParserInv, Fails, pc # "done", del = <<>>,
                    starved' \in BOOLEAN
             PROVE  ParserInv'
  OBVIOUS
<1> USE DEF ParserInv
<1>1. Placed'
  BY DEF Fails, Placed, NameInBounds
<1>2. ~Reading'
  BY DEF Fails, Reading
<1>3. pc' \in ParserPcs /\ pos' \in 1..Len(text) + 1
  BY DEF Fails, ParserTypeOK, ParserPcs
<1> QED BY <1>1, <1>2, <1>3, QuietStep DEF Fails

LEMMA StarveInv == ParserInv /\ Starve => ParserInv'
<1> SUFFICES ASSUME ParserInv, Starve
             PROVE  ParserInv'
  OBVIOUS
<1>1. Fails /\ pc # "done" /\ pc # "fail" /\ starved' \in BOOLEAN
  BY DEF Starve
<1> QED BY <1>1, FailsInv DEF ParserInv, Placed

LEMMA RefuseInv == ParserInv /\ Refuse => ParserInv'
<1> SUFFICES ASSUME ParserInv, Refuse
             PROVE  ParserInv'
  OBVIOUS
<1>1. Fails /\ pc # "done" /\ pc # "fail" /\ starved' = starved
  BY DEF Refuse
<1>2. starved' \in BOOLEAN
  BY <1>1 DEF ParserInv, ParserTypeOK
<1> QED BY <1>1, <1>2, FailsInv DEF ParserInv, Placed

LEMMA FinishInv == ParserInv /\ Finish => ParserInv'
<1> SUFFICES ASSUME ParserInv, Finish
             PROVE  ParserInv'
  OBVIOUS
<1> USE DEF ParserInv
<1>1. stack = <<>>
  BY DEF Finish, Depth, ParserTypeOK
<1>2. Placed' /\ ~Reading'
  BY <1>1 DEF Finish, Unchanged, Placed, NameInBounds, Reading
<1>3. starved' \in BOOLEAN /\ pc' \in ParserPcs /\ pos' \in 1..Len(text) + 1
  BY DEF Finish, Unchanged, ParserTypeOK, ParserPcs
<1> QED BY <1>2, <1>3, QuietStep DEF Finish, Unchanged

LEMMA ReturnNullInv == ParserInv /\ ReturnNull => ParserInv'
<1> SUFFICES ASSUME ParserInv, ReturnNull
             PROVE  ParserInv'
  OBVIOUS
<1> USE DEF ParserInv
<1>1. stack = <<>> /\ del = <<>>
  BY DEF ReturnNull, Failing, Depth, ParserTypeOK
<1>2. Placed' /\ ~Reading'
  BY <1>1 DEF ReturnNull, Placed, NameInBounds, Reading
<1>3. starved' \in BOOLEAN /\ pc' \in ParserPcs /\ pos' \in 1..Len(text) + 1
  BY DEF ReturnNull, ParserTypeOK, ParserPcs
<1> QED BY <1>2, <1>3, QuietStep DEF ReturnNull

(***************************************************************************)
(* The steps that fill in an item without linking it.                      *)
(***************************************************************************)
LEMMA ItemIsLast == Item = Chain(Depth)
BY DEF Item, Chain, Top

SameLinks(h, h2) ==
    /\ DOMAIN h2 = DOMAIN h
    /\ \A n \in DOMAIN h : /\ h2[n].next = h[n].next
                           /\ h2[n].child = h[n].child
                           /\ h2[n].valuestring = h[n].valuestring
                           /\ h2[n].string = h[n].string

LEMMA SameLinksOwned ==
    ASSUME Owned, SameLinks(nodes, nodes'), DOMAIN strings' = DOMAIN strings,
           UNCHANGED <<root, stack, del>>
    PROVE  Owned'
<1> DEFINE P == Ptr(root, stack, del, nodes)
           Q == Ptr(root, stack, del, nodes')
<1>1. Carried(root, stack, del, nodes, root, stack, del, nodes', {})
  BY DEF Carried, SameLinks
<1>2. Carried(root, stack, del, nodes', root, stack, del, nodes, {})
  BY DEF Carried, SameLinks
<1>3. \A s \in DOMAIN P : Kept(P, Q, s)
  BY <1>1, KeptSlots
<1>4. \A s \in DOMAIN Q : Kept(Q, P, s)
  BY <1>2, KeptSlots
<1>5. WellOwned(P, DOMAIN nodes, DOMAIN strings)
  BY DEF Owned
<1>6. WellOwned(Q, DOMAIN nodes, DOMAIN strings)
  <2> HIDE DEF P, Q
  <2> QED BY <1>3, <1>4, <1>5, SameOwners
<1> QED BY <1>6 DEF Owned, SameLinks

SameLists(h, h2) ==
    /\ DOMAIN h2 = DOMAIN h
    /\ \A n \in DOMAIN h : /\ h2[n].next = h[n].next
                           /\ h2[n].child = h[n].child

LEMMA CurrentItem ==
    ASSUME ParserInv, pc \in {"value", "name", "colon", "after"}
    PROVE  /\ Item \in DOMAIN nodes /\ nodes[Item] \in Nodes
           /\ Item # 0 /\ nodes[Item].next = 0
           /\ pc # "after" => nodes[Item].child = 0 /\ nodes[Item].valuestring = 0
           /\ pc = "name" => nodes[Item].string = 0
<1>1. ChainInv /\ Current
  BY DEF ParserInv, Reading
<1>2. Depth \in 0..Depth
  BY DEF Depth, ParserInv, ParserTypeOK
<1>3. Item \in DOMAIN nodes /\ Item # 0 /\ nodes[Item].next = 0
  BY <1>1, <1>2, ItemIsLast DEF ChainInv, Current
<1>4. nodes[Item] \in Nodes
  BY <1>3 DEF ParserInv, ParserTypeOK
<1> QED BY <1>1, <1>3, <1>4, ItemIsLast DEF Current

LEMMA FillStep ==
    ASSUME ParserInv, pc \in {"value", "name"}, pc' \in {"after", "colon"},
           pc' = "colon" => pc = "name" /\ nodes'[Item].valuestring = 0,
           SameLists(nodes, nodes'), nodes' \in [DOMAIN nodes -> Nodes],
           UNCHANGED <<text, root, stack, del, starved>>,
           strings' \in [DOMAIN strings' -> Strings],
           DOMAIN strings' \subseteq 1..fresh'-1,
           fresh' \in Nat, fresh <= fresh',
           Owned', pos' \in 1..Len(text) + 1
    PROVE  ParserInv'
<1> USE DEF ParserInv
<1>0. DOMAIN nodes' = DOMAIN nodes
  BY DEF SameLists
<1>1. ParserTypeOK'
  <2>1. DOMAIN nodes' \subseteq 1..fresh'-1 /\ fresh' \in Nat \ {0}
    BY <1>0 DEF ParserTypeOK
  <2> QED BY <1>0, <2>1 DEF ParserTypeOK, Depth, ParserPcs
<1>2. Placed'
  BY DEF Placed, NameInBounds, Depth
<1>3. Growing'
  BY DEF Growing, SameLists
<1>5. (\A i : Chain(i)' = Chain(i)) /\ Depth' = Depth
  BY DEF Chain, Depth
<1>6. ChainInv /\ Current
  BY DEF Reading
<1>7. ChainInv'
  <2>1. \A i \in 0..Depth : Chain(i) # 0 =>
          Chain(i) \in DOMAIN nodes' /\ nodes'[Chain(i)].next = 0
    BY <1>6 DEF ChainInv, SameLists
  <2>2. \A i \in 0..Depth-1 : Chain(i) # 0 /\ nodes'[Chain(i)].child = 0
    <3>1. \A i \in 0..Depth-1 : i \in 0..Depth
      BY DEF Depth, ParserTypeOK
    <3> QED BY <1>6, <3>1 DEF ChainInv, SameLists
  <2> QED BY <1>5, <1>6, <2>1, <2>2 DEF ChainInv
<1>8. Current'
  <2>1. Chain(Depth)' = Chain(Depth) /\ Item = Chain(Depth)
    BY <1>5, ItemIsLast
  <2>2. Chain(Depth) \in DOMAIN nodes /\ Chain(Depth) # 0
    BY <2>1, CurrentItem
  <2> QED BY <1>5, <1>6, <2>1, <2>2 DEF Current, SameLists
<1> QED BY <1>1, <1>2, <1>3, <1>7, <1>8

LEMMA LinksAreLists ==
    ASSUME SameLinks(nodes, nodes')
    PROVE  SameLists(nodes, nodes')
BY DEF SameLinks, SameLists

LEMMA ReadPlainInv == ParserInv /\ ReadPlain => ParserInv'
<1> SUFFICES ASSUME ParserInv, ReadPlain
             PROVE  ParserInv'
  OBVIOUS
<1>1. /\ Item \in DOMAIN nodes /\ nodes[Item] \in Nodes
      /\ nodes \in [DOMAIN nodes -> Nodes]
  BY CurrentItem DEF ReadPlain, ParserInv, ParserTypeOK
<1>2. text[pos] \in Types
  BY DEF ReadPlain, At, Types
<1>3. nodes' = [nodes EXCEPT ![Item].type = text[pos]]
  BY DEF ReadPlain
<1>4. SameLinks(nodes, nodes')
  BY <1>1, <1>3 DEF SameLinks, Nodes
<1>5. nodes' \in [DOMAIN nodes -> Nodes]
  BY <1>1, <1>2, <1>3 DEF Nodes
<1>6. pos' \in 1..Len(text) + 1
  <2>1. pos \in Nat /\ pos > 0 /\ pos <= Len(text) /\ Len(text) \in Nat
    BY TextEnds DEF ReadPlain, At, CanAccess, ParserInv
  <2>2. pos' = pos + 1
    BY DEF ReadPlain
  <2> QED BY <2>1, <2>2
<1>7. Owned'
  BY <1>4, SameLinksOwned DEF ReadPlain, Unchanged, ParserInv
<1>8. /\ fresh' \in Nat /\ fresh <= fresh' /\ DOMAIN strings' \subseteq 1..fresh'-1
      /\ strings' \in [DOMAIN strings' -> Strings]
  BY DEF ReadPlain, ParserInv, ParserTypeOK
<1> QED BY <1>4, <1>5, <1>6, <1>7, <1>8, LinksAreLists, FillStep
        DEF ReadPlain, Unchanged

LEMMA OpenEmptyInv == ParserInv /\ OpenEmpty => ParserInv'
<1> SUFFICES ASSUME ParserInv, OpenEmpty
             PROVE  ParserInv'
  OBVIOUS
<1>1. PICK object \in BOOLEAN, q \in pos+1..Len(text) :
        /\ Opening(object)
        /\ nodes' = [nodes EXCEPT
                       ![Item].type = IF object THEN "Object" ELSE "Array",
                       ![Item].child = 0]
        /\ pos' = q + 1
        /\ pc' = "after"
        /\ UNCHANGED <<root, stack, strings, fresh>> /\ Unchanged
  BY DEF OpenEmpty
<1>2. pc = "value"
  BY <1>1 DEF Opening, Bracket
<1>3. /\ Item \in DOMAIN nodes /\ nodes[Item] \in Nodes
      /\ nodes \in [DOMAIN nodes -> Nodes] /\ nodes[Item].child = 0
  BY <1>2, CurrentItem DEF ParserInv, ParserTypeOK
<1>4. SameLinks(nodes, nodes')
  BY <1>1, <1>3 DEF SameLinks, Nodes
<1>5. nodes' \in [DOMAIN nodes -> Nodes]
  <2>1. (IF object THEN "Object" ELSE "Array") \in Types
    BY DEF Types
  <2> DEFINE type == IF object THEN "Object" ELSE "Array"
  <2>2. nodes' = [nodes EXCEPT ![Item].type = type, ![Item].child = 0]
    BY <1>1
  <2> HIDE DEF type
  <2>3. type \in Types
    BY <2>1 DEF type
  <2> QED BY <1>3, <2>2, <2>3 DEF Nodes
<1>6. pos' \in 1..Len(text) + 1
  <2>1. pos \in Nat /\ Len(text) \in Nat
    BY TextEnds DEF ParserInv
  <2>2. pos' = q + 1
    BY <1>1
  <2> QED BY <2>1, <2>2
<1>7. Owned'
  BY <1>1, <1>4, SameLinksOwned DEF Unchanged, ParserInv
<1>8. /\ fresh' \in Nat /\ fresh <= fresh' /\ DOMAIN strings' \subseteq 1..fresh'-1
      /\ strings' \in [DOMAIN strings' -> Strings]
  BY <1>1 DEF ParserInv, ParserTypeOK
<1> QED BY <1>1, <1>2, <1>4, <1>5, <1>6, <1>7, <1>8, LinksAreLists, FillStep
        DEF Unchanged

\* String b is stored in a field of item n that was NULL.
StoredIn(h, h2, n, field, b) ==
    /\ \/ /\ field = "valuestring"
          /\ h[n].valuestring = 0 /\ h2[n].valuestring = b
          /\ h2[n].string = h[n].string
       \/ /\ field = "string"
          /\ h[n].string = 0 /\ h2[n].string = b
          /\ h2[n].valuestring = h[n].valuestring
    /\ \A m \in DOMAIN h \ {n} : h2[m] = h[m]

LEMMA StoredOwned ==
    ASSUME NEW r, NEW st, NEW d, NEW h, NEW h2, NEW M,
           NEW n \in DOMAIN h, NEW field, NEW b,
           StoredIn(h, h2, n, field, b), SameLists(h, h2),
           WellOwned(Ptr(r, st, d, h), DOMAIN h, M),
           b # 0, b \notin DOMAIN h \cup M
    PROVE  WellOwned(Ptr(r, st, d, h2), DOMAIN h, M \cup {b})
<1> DEFINE P == Ptr(r, st, d, h)
           Q == Ptr(r, st, d, h2)
           w == <<field, n>>
<1>1. Carried(r, st, d, h, r, st, d, h2, {})
  BY DEF Carried, SameLists, StoredIn
<1>2. Carried(r, st, d, h2, r, st, d, h, {w})
  BY DEF Carried, SameLists, StoredIn
<1>3. \A s \in DOMAIN P : Kept(P, Q, s)
  BY <1>1, KeptSlots
<1>4. \A s \in DOMAIN Q \ {w} : Kept(Q, P, s)
  BY <1>2, KeptSlots
<1>5. w \in DOMAIN Q /\ Q[w] = b
  <2>1. n \in DOMAIN h2
    BY DEF SameLists
  <2>2. CASE field = "valuestring"
    BY <2>1, <2>2, ValueSlot DEF StoredIn
  <2>3. CASE field = "string"
    BY <2>1, <2>3, NameSlot DEF StoredIn
  <2> QED BY <2>2, <2>3 DEF StoredIn
<1>6. StringSlot(w)
  BY DEF StringSlot, StoredIn
<1> HIDE DEF P, Q, w
<1>7. WellOwned(P, DOMAIN h, M)
  BY DEF P
<1> QED BY <1>3, <1>4, <1>5, <1>6, <1>7, NewOwner DEF Q

LEMMA NewString ==
    ASSUME ParserInv, NEW n \in DOMAIN nodes, NEW field,
           StoredIn(nodes, nodes', n, field, fresh),
           SameLists(nodes, nodes'),
           DOMAIN strings' = DOMAIN strings \cup {fresh},
           UNCHANGED <<root, stack, del>>
    PROVE  Owned'
<1>1. WellOwned(Ptr(root, stack, del, nodes), DOMAIN nodes, DOMAIN strings)
  BY DEF Owned, ParserInv
<1>2. fresh # 0 /\ fresh \notin DOMAIN nodes \cup DOMAIN strings
  BY DEF ParserInv, ParserTypeOK
<1>3. WellOwned(Ptr(root, stack, del, nodes'), DOMAIN nodes,
                DOMAIN strings \cup {fresh})
  BY <1>1, <1>2, StoredOwned
<1> QED BY <1>3 DEF Owned, SameLists

LEMMA ReadStringInv == ParserInv /\ ReadString => ParserInv'
<1> SUFFICES ASSUME ParserInv, ReadString
             PROVE  ParserInv'
  OBVIOUS
<1>1. /\ Item \in DOMAIN nodes /\ nodes[Item] \in Nodes
      /\ nodes \in [DOMAIN nodes -> Nodes] /\ nodes[Item].valuestring = 0
  BY CurrentItem DEF ReadString, ParserInv, ParserTypeOK
<1>2. nodes' = [nodes EXCEPT ![Item].type = "String",
                             ![Item].valuestring = fresh]
  BY DEF ReadString
<1>3. SameLists(nodes, nodes')
  BY <1>1, <1>2 DEF SameLists, Nodes
<1>4. fresh \in Nat /\ fresh' = fresh + 1
  BY DEF ReadString, ParserInv, ParserTypeOK
<1>5. nodes' \in [DOMAIN nodes -> Nodes]
  <2>1. "String" \in Types
    BY DEF Types
  <2> QED BY <1>1, <1>2, <1>4, <2>1 DEF Nodes
<1>6. /\ DOMAIN strings' = DOMAIN strings \cup {fresh}
      /\ strings' \in [DOMAIN strings' -> Strings]
  BY DEF ReadString, Alloc, At, ParserInv, ParserTypeOK
<1>7. /\ nodes'[Item].valuestring = fresh
      /\ nodes'[Item].string = nodes[Item].string
      /\ \A m \in DOMAIN nodes \ {Item} : nodes'[m] = nodes[m]
  BY <1>1, <1>2 DEF Nodes
<1>8. Owned'
  <2>1. StoredIn(nodes, nodes', Item, "valuestring", fresh)
    BY <1>1, <1>7 DEF StoredIn
  <2> QED BY <1>1, <1>3, <1>6, <2>1, NewString DEF ReadString, Unchanged
<1>9. pos' \in 1..Len(text) + 1
  <2>1. pos \in Nat /\ pos > 0 /\ pos <= Len(text) /\ Len(text) \in Nat
    BY TextEnds DEF ReadString, At, CanAccess, ParserInv
  <2>2. pos' = pos + 1
    BY DEF ReadString
  <2> QED BY <2>1, <2>2
<1>10. DOMAIN strings' \subseteq 1..fresh'-1
  BY <1>4, <1>6 DEF ParserInv, ParserTypeOK
<1> QED BY <1>3, <1>4, <1>5, <1>6, <1>8, <1>9, <1>10, FillStep
        DEF ReadString, Unchanged

LEMMA ReadNameInv == ParserInv /\ ReadName => ParserInv'
<1> SUFFICES ASSUME ParserInv, ReadName
             PROVE  ParserInv'
  OBVIOUS
<1> USE DEF ReadName, ReadNameLeaving
<1>1. /\ Item \in DOMAIN nodes /\ nodes[Item] \in Nodes
      /\ nodes \in [DOMAIN nodes -> Nodes]
      /\ nodes[Item].valuestring = 0 /\ nodes[Item].string = 0
  BY CurrentItem DEF ParserInv, ParserTypeOK
<1>2. nodes' = [nodes EXCEPT ![Item].type = "String",
                             ![Item].string = fresh,
                             ![Item].valuestring = 0]
  OBVIOUS
<1>3. SameLists(nodes, nodes')
  BY <1>1, <1>2 DEF SameLists, Nodes
<1>4. fresh \in Nat /\ fresh' = fresh + 1
  BY DEF ParserInv, ParserTypeOK
<1>5. nodes' \in [DOMAIN nodes -> Nodes]
  <2>1. "String" \in Types
    BY DEF Types
  <2> QED BY <1>1, <1>2, <1>4, <2>1 DEF Nodes
<1>6. /\ DOMAIN strings' = DOMAIN strings \cup {fresh}
      /\ strings' \in [DOMAIN strings' -> Strings]
  BY DEF Alloc, ParserInv, ParserTypeOK
<1>7. /\ nodes'[Item].string = fresh
      /\ nodes'[Item].valuestring = nodes[Item].valuestring
      /\ nodes'[Item].valuestring = 0
      /\ \A m \in DOMAIN nodes \ {Item} : nodes'[m] = nodes[m]
  BY <1>1, <1>2 DEF Nodes
<1>8. Owned'
  <2>1. StoredIn(nodes, nodes', Item, "string", fresh)
    BY <1>1, <1>7 DEF StoredIn
  <2> QED BY <1>1, <1>3, <1>6, <2>1, NewString DEF Unchanged
<1>9. pos' \in 1..Len(text) + 1
  <2>1. pos \in Nat /\ Len(text) \in Nat
    BY TextEnds DEF ParserInv
  <2>2. pos' \in pos+1..Len(text)+1
    BY DEF SkipPast
  <2> QED BY <2>1, <2>2
<1>10. DOMAIN strings' \subseteq 1..fresh'-1
  BY <1>4, <1>6 DEF ParserInv, ParserTypeOK
<1> QED BY <1>3, <1>4, <1>5, <1>6, <1>7, <1>8, <1>9, <1>10, FillStep
        DEF Unchanged

(***************************************************************************)
(* The steps that link items to each other and frames to items.            *)
(***************************************************************************)
LEMMA NewItem ==
    ASSUME NEW r, NEW st, NEW d, NEW h, NEW r2, NEW st2, NEW d2, NEW h2,
           NEW M, NEW w, NEW b,
           WellOwned(Ptr(r, st, d, h), DOMAIN h, M),
           Carried(r, st, d, h, r2, st2, d2, h2, {}),
           Carried(r2, st2, d2, h2, r, st, d, h, {w}),
           w \in DOMAIN Ptr(r2, st2, d2, h2), Ptr(r2, st2, d2, h2)[w] = b,
           ~StringSlot(w), b # 0, b \notin DOMAIN h \cup M,
           DOMAIN h2 = DOMAIN h \cup {b}
    PROVE  WellOwned(Ptr(r2, st2, d2, h2), DOMAIN h2, M)
<1> DEFINE P == Ptr(r, st, d, h)
           Q == Ptr(r2, st2, d2, h2)
<1>1. \A s \in DOMAIN P : Kept(P, Q, s)
  BY KeptSlots
<1>2. \A s \in DOMAIN Q \ {w} : Kept(Q, P, s)
  BY KeptSlots
<1>3. WellOwned(P, DOMAIN h, M) /\ w \in DOMAIN Q /\ Q[w] = b
  OBVIOUS
<1> HIDE DEF P, Q
<1>4. WellOwned(Q, DOMAIN h \cup {b}, M)
  BY <1>1, <1>2, <1>3, NewOwner
<1> QED BY <1>4 DEF Q

LEMMA MoveItem ==
    ASSUME NEW r, NEW st, NEW d, NEW h, NEW r2, NEW st2, NEW d2, NEW h2,
           NEW M, NEW v, NEW w,
           WellOwned(Ptr(r, st, d, h), DOMAIN h, M),
           Carried(r, st, d, h, r2, st2, d2, h2, {v}),
           Carried(r2, st2, d2, h2, r, st, d, h, {w}),
           v \in DOMAIN Ptr(r, st, d, h), w \in DOMAIN Ptr(r2, st2, d2, h2),
           Ptr(r2, st2, d2, h2)[w] = Ptr(r, st, d, h)[v],
           v \in DOMAIN Ptr(r2, st2, d2, h2) => Ptr(r2, st2, d2, h2)[v] = 0,
           ~StringSlot(v), ~StringSlot(w),
           DOMAIN h2 = DOMAIN h
    PROVE  WellOwned(Ptr(r2, st2, d2, h2), DOMAIN h2, M)
<1> DEFINE P == Ptr(r, st, d, h)
           Q == Ptr(r2, st2, d2, h2)
<1>1. \A s \in DOMAIN P \ {v} : Kept(P, Q, s)
  BY KeptSlots
<1>2. \A s \in DOMAIN Q \ {w} : Kept(Q, P, s)
  BY KeptSlots
<1>3. /\ WellOwned(P, DOMAIN h, M) /\ v \in DOMAIN P /\ w \in DOMAIN Q
      /\ Q[w] = P[v]
      /\ v \in DOMAIN Q => Q[v] = 0
  OBVIOUS
<1>5. StringSlot(v) = StringSlot(w)
  BY DEF StringSlot
<1> HIDE DEF P, Q
<1>4. WellOwned(Q, DOMAIN h, M)
  BY <1>1, <1>2, <1>3, <1>5, MoveOwner
<1> QED BY <1>4 DEF Q

LEMMA SameItems ==
    ASSUME NEW r, NEW st, NEW d, NEW h, NEW r2, NEW st2, NEW d2, NEW h2,
           NEW M,
           WellOwned(Ptr(r, st, d, h), DOMAIN h, M),
           Carried(r, st, d, h, r2, st2, d2, h2, {}),
           Carried(r2, st2, d2, h2, r, st, d, h, {}),
           DOMAIN h2 = DOMAIN h
    PROVE  WellOwned(Ptr(r2, st2, d2, h2), DOMAIN h2, M)
<1> DEFINE P == Ptr(r, st, d, h)
           Q == Ptr(r2, st2, d2, h2)
<1>1. \A s \in DOMAIN P : Kept(P, Q, s)
  BY KeptSlots
<1>2. \A s \in DOMAIN Q : Kept(Q, P, s)
  BY KeptSlots
<1>3. WellOwned(P, DOMAIN h, M)
  OBVIOUS
<1> HIDE DEF P, Q
<1>4. WellOwned(Q, DOMAIN h, M)
  BY <1>1, <1>2, <1>3, SameOwners
<1> QED BY <1>4 DEF Q

LEMMA BeginInv == ParserInv /\ Begin => ParserInv'
<1> SUFFICES ASSUME ParserInv, Begin
             PROVE  ParserInv'
  OBVIOUS
<1> USE DEF ParserInv
<1>1. /\ root = 0 /\ stack = <<>> /\ DOMAIN nodes = {} /\ del = <<>>
      /\ fresh \in Nat \ {0} /\ DOMAIN strings \subseteq 1..fresh-1
  BY DEF Begin, Placed, ParserTypeOK
<1>2. /\ root' = fresh /\ stack' = <<>> /\ del' = <<>> /\ strings' = strings
      /\ fresh' = fresh + 1 /\ text' = text /\ starved' = starved
      /\ pc' = "value"
  BY <1>1 DEF Begin, Unchanged
<1>3. DOMAIN nodes' = {fresh} /\ nodes'[fresh] = Blank
      /\ nodes' = [a \in {fresh} |-> Blank]
  BY <1>1 DEF Begin, Alloc
<1>4. pos' \in 1..Len(text) + 1
  <2>1. AfterBom \in {1, 2} /\ Len(text) \in Nat
    BY TextEnds DEF AfterBom
  <2>2. pos' \in AfterBom..Len(text)+1
    BY <2>1 DEF Begin, SkipPast
  <2> QED BY <2>1, <2>2
<1>5. ParserTypeOK'
  <2>1. Blank \in Nodes
    BY DEF Blank, Nodes, Types
  <2>2. nodes' \in [DOMAIN nodes' -> Nodes]
    BY <1>3, <2>1
  <2>3. DOMAIN nodes' \cup DOMAIN strings' \subseteq 1..fresh'-1
        /\ fresh' \in Nat \ {0} /\ root' \in Nat
    BY <1>1, <1>2, <1>3
  <2> QED BY <1>1, <1>2, <1>4, <2>2, <2>3 DEF ParserTypeOK, ParserPcs, Depth
<1>6. Placed'
  BY <1>1, <1>2 DEF Placed, NameInBounds
<1>7. Growing'
  BY <1>3 DEF Growing, Blank
<1>8. ChainInv' /\ Current'
  <2>1. Depth' = 0 /\ \A i : i = 0 => Chain(i)' = fresh
    BY <1>2 DEF Depth, Chain
  <2>2. \A i \in 0..0 : i = 0
    OBVIOUS
  <2>3. ChainInv'
    <3>1. \A i \in 0..Depth' : i = 0
      BY <2>1, <2>2
    <3>2. (\A i \in 0..Depth'-1 : FALSE) /\ (\A i \in 1..Depth' : FALSE)
      BY <2>1
    <3>3. \A i, j \in 0..Depth' : ~(i < j)
      BY <2>1
    <3> QED BY <1>3, <2>1, <3>1, <3>2, <3>3 DEF ChainInv, Blank
  <2>4. Chain(Depth)' = fresh
    BY <2>1
  <2>5. Current'
    BY <1>1, <1>2, <1>3, <2>4 DEF Current, Blank
  <2> QED BY <2>3, <2>5
<1>9. Owned'
  <2> DEFINE w == <<"root", 0>>
  <2>1. Carried(root, stack, del, nodes, root', stack', del', nodes', {})
    BY <1>1, <1>2 DEF Carried
  <2>2. Carried(root', stack', del', nodes', root, stack, del, nodes, {w})
    BY <1>1, <1>2, <1>3 DEF Carried, Blank
  <2>3. /\ w \in DOMAIN Ptr(root', stack', del', nodes')
        /\ Ptr(root', stack', del', nodes')[w] = fresh
        /\ ~StringSlot(w)
    BY <1>2, RootSlot
  <2>4. /\ fresh # 0 /\ fresh \notin DOMAIN nodes \cup DOMAIN strings
        /\ DOMAIN nodes' = DOMAIN nodes \cup {fresh}
    BY <1>1, <1>3
  <2>5. WellOwned(Ptr(root, stack, del, nodes), DOMAIN nodes, DOMAIN strings)
    BY DEF Owned
  <2>6. WellOwned(Ptr(root', stack', del', nodes'), DOMAIN nodes', DOMAIN strings)
    <3> HIDE DEF w
    <3> QED BY <2>1, <2>2, <2>3, <2>4, <2>5, NewItem
  <2> QED BY <1>2, <2>6 DEF Owned
<1> QED BY <1>5, <1>6, <1>7, <1>8, <1>9

LEMMA OpenInv == ParserInv /\ Open => ParserInv'
<1> SUFFICES ASSUME ParserInv, Open
             PROVE  ParserInv'
  OBVIOUS
<1> USE DEF ParserInv
<1>1. PICK object \in BOOLEAN, q \in pos+1..Len(text) :
        /\ Opening(object)
        /\ stack' = Append(stack, [object |-> object, head |-> 0, last |-> 0])
        /\ pos' = q - 1
        /\ pc' = "element"
        /\ UNCHANGED <<root, nodes, strings, fresh>> /\ Unchanged
  BY DEF Open
<1>2. pc = "value" /\ Depth < NestingLimit
  BY <1>1 DEF Opening, Bracket
<1>3. del = <<>> /\ del' = <<>> /\ text' = text /\ starved' = starved
  BY <1>1, <1>2 DEF Unchanged, Placed
<1>4. stack \in Seq(Frames) /\ Depth \in Nat /\ Depth' = Depth + 1
  BY <1>1 DEF ParserTypeOK, Depth
<1>5. /\ \A i \in 1..Depth : stack'[i] = stack[i]
      /\ stack'[Depth + 1] = [object |-> object, head |-> 0, last |-> 0]
      /\ DOMAIN stack = 1..Depth /\ DOMAIN stack' = 1..Depth + 1
  BY <1>1, <1>4 DEF Depth
<1>6. pos' \in 1..Len(text) + 1 /\ pos' < Len(text)
  <2>1. pos \in Nat /\ pos > 0 /\ Len(text) \in Nat
    BY TextEnds
  <2> QED BY <1>1, <2>1
<1>7. ParserTypeOK'
  <2>1. stack' \in Seq(Frames)
    BY <1>1, <1>4 DEF Frames
  <2>2. Depth' <= NestingLimit
    <3>1. NestingLimit \in Nat
      BY ParserAssumption
    <3> QED BY <1>2, <1>4, <3>1
  <2> QED BY <1>1, <1>3, <1>6, <2>1, <2>2 DEF ParserTypeOK, ParserPcs
<1>8. Placed'
  BY <1>1, <1>3, <1>4, <1>6 DEF Placed, NameInBounds
<1>9. Growing'
  BY <1>1 DEF Growing
<1>10. ChainInv' /\ Current'
  <2>1. ChainInv /\ Current /\ Chain(Depth) # 0 /\ nodes[Chain(Depth)].child = 0
    BY <1>2 DEF Reading, Current
  <2>2. \A i \in 0..Depth : Chain(i)' = Chain(i)
    BY <1>1, <1>4, <1>5 DEF Chain
  <2>3. \A i : i = Depth + 1 => Chain(i)' = 0
    BY <1>4, <1>5 DEF Chain
  <2>4. \A i \in 0..Depth+1 : i \in 0..Depth \/ i = Depth + 1
    BY <1>4
  <2>5. \A i \in 0..Depth' : Chain(i)' # 0 =>
          Chain(i)' \in DOMAIN nodes' /\ nodes'[Chain(i)'].next = 0
    BY <1>1, <1>4, <2>1, <2>2, <2>3, <2>4 DEF ChainInv
  <2>6. \A i, j \in 0..Depth' : i < j /\ Chain(j)' # 0 => Chain(i)' < Chain(j)'
    <3> SUFFICES ASSUME NEW i \in 0..Depth+1, NEW j \in 0..Depth+1,
                        i < j, Chain(j)' # 0
                 PROVE  Chain(i)' < Chain(j)'
      BY <1>4
    <3>1. j \in 0..Depth
      BY <2>3, <2>4
    <3>2. i \in 0..Depth
      BY <1>4, <3>1
    <3> QED BY <2>1, <2>2, <3>1, <3>2 DEF ChainInv
  <2>7. \A i \in 0..Depth'-1 : Chain(i)' # 0 /\ nodes'[Chain(i)'].child = 0
    <3> SUFFICES ASSUME NEW i \in 0..Depth
                 PROVE  Chain(i) # 0 /\ nodes[Chain(i)].child = 0
      BY <1>1, <1>4, <2>2
    <3>1. CASE i = Depth
      BY <2>1, <3>1
    <3>2. CASE i # Depth
      <4>1. i \in 0..Depth-1
        BY <1>4, <3>2
      <4> QED BY <2>1, <4>1 DEF ChainInv
    <3> QED BY <3>1, <3>2
  <2>8. \A i \in 1..Depth' :
          /\ stack'[i].head = 0 <=> Chain(i)' = 0
          /\ stack'[i].head # 0 => Chain(i - 1)' < stack'[i].head
    <3> SUFFICES ASSUME NEW i \in 1..Depth+1
                 PROVE  /\ stack'[i].head = 0 <=> Chain(i)' = 0
                        /\ stack'[i].head # 0 => Chain(i - 1)' < stack'[i].head
      BY <1>4
    <3>1. CASE i = Depth + 1
      BY <1>5, <2>3, <3>1
    <3>2. CASE i # Depth + 1
      <4>1. i \in 1..Depth /\ i \in 0..Depth /\ i - 1 \in 0..Depth
        BY <1>4, <3>2
      <4> QED BY <1>5, <2>1, <2>2, <4>1 DEF ChainInv
    <3> QED BY <3>1, <3>2
  <2>9. ChainInv'
    BY <2>5, <2>6, <2>7, <2>8 DEF ChainInv
  <2>10. Current'
    BY <1>1 DEF Current
  <2> QED BY <2>9, <2>10
<1>11. Owned'
  <2>1. Carried(root, stack, del, nodes, root', stack', del', nodes', {})
    BY <1>1, <1>3, <1>4, <1>5 DEF Carried
  <2>2. Carried(root', stack', del', nodes', root, stack, del, nodes, {})
    <3>1. \A i \in DOMAIN stack' : stack'[i].head = 0 \/
            (i \in DOMAIN stack /\ stack[i].head = stack'[i].head)
      BY <1>4, <1>5
    <3> QED BY <1>1, <1>3, <3>1 DEF Carried
  <2>3. WellOwned(Ptr(root, stack, del, nodes), DOMAIN nodes, DOMAIN strings)
    BY DEF Owned
  <2>4. WellOwned(Ptr(root', stack', del', nodes'), DOMAIN nodes', DOMAIN strings)
    BY <1>1, <2>1, <2>2, <2>3, SameItems
  <2> QED BY <1>1, <2>4 DEF Owned
<1> QED BY <1>7, <1>8, <1>9, <1>10, <1>11

LEMMA NextElementInv == ParserInv /\ NextElement => ParserInv'
<1> SUFFICES ASSUME ParserInv, NextElement
             PROVE  ParserInv'
  OBVIOUS
<1> USE DEF ParserInv
<1> DEFINE L == Chain(Depth)
           H == stack[Depth].head
           new == [Blank EXCEPT !.prev = L]
           added == Alloc(nodes, new)
<1>1. /\ pc = "element" /\ del = <<>> /\ Depth > 0 /\ pos < Len(text)
      /\ ChainInv /\ Current
  BY DEF NextElement, AddElement, Placed, Reading
<1>2. /\ stack \in Seq(Frames) /\ Depth \in Nat /\ Depth = Len(stack)
      /\ DOMAIN stack = 1..Depth /\ Depth \in 1..Depth /\ Depth \in 0..Depth
      /\ fresh \in Nat \ {0}
      /\ DOMAIN nodes \subseteq 1..fresh-1 /\ DOMAIN strings \subseteq 1..fresh-1
      /\ nodes \in [DOMAIN nodes -> Nodes]
  BY <1>1 DEF ParserTypeOK, Depth
<1>3. L = Top.last /\ H = Top.head /\ Top = stack[Depth] /\ Top \in Frames
  BY <1>1, <1>2 DEF Chain, Top
<1>4. /\ L \in Nat /\ H \in Nat /\ (H = 0 <=> L = 0)
      /\ L # 0 => L \in DOMAIN nodes /\ nodes[L].next = 0
  <2>1. L \in Nat /\ H \in Nat
    BY <1>3 DEF Frames
  <2> QED BY <1>1, <1>2, <2>1 DEF ChainInv
<1>5. /\ nodes' = IF H = 0 THEN added ELSE [added EXCEPT ![L].next = fresh]
      /\ stack' = [stack EXCEPT ![Depth].head = IF H = 0 THEN fresh ELSE @,
                                ![Depth].last = fresh]
      /\ fresh' = fresh + 1
      /\ pc' \in {"name", "value"}
      /\ root' = root /\ strings' = strings /\ text' = text /\ del' = <<>>
      /\ starved' = starved
  BY <1>1, <1>3 DEF NextElement, AddElement, Unchanged
<1>6. /\ new \in Nodes /\ new.next = 0 /\ new.child = 0
      /\ new.valuestring = 0 /\ new.string = 0
  BY <1>4 DEF Blank, Nodes, Types
<1>7. /\ DOMAIN added = DOMAIN nodes \cup {fresh} /\ added[fresh] = new
      /\ \A n \in DOMAIN nodes : added[n] = nodes[n]
      /\ fresh \notin DOMAIN nodes
      /\ added \in [DOMAIN nodes \cup {fresh} -> Nodes]
  <2> HIDE DEF new
  <2>1. fresh \notin DOMAIN nodes
    BY <1>2
  <2> QED BY <1>2, <1>6, <2>1 DEF Alloc
<1> HIDE DEF L, H, new, added
<1>8. /\ DOMAIN nodes' = DOMAIN nodes \cup {fresh}
      /\ nodes'[fresh] = new
      /\ \A n \in DOMAIN nodes : n # L => nodes'[n] = nodes[n]
      /\ L # 0 => nodes'[L] = [nodes[L] EXCEPT !.next = fresh]
      /\ nodes' \in [DOMAIN nodes' -> Nodes]
  <2>1. CASE H = 0
    BY <1>4, <1>5, <1>7, <2>1
  <2>2. CASE H # 0
    <3>1. nodes' = [added EXCEPT ![L].next = fresh]
      BY <1>5, <2>2
    <3>2. L \in DOMAIN nodes /\ L # fresh /\ added[L] = nodes[L]
      BY <1>4, <1>7, <2>2
    <3>3. [nodes[L] EXCEPT !.next = fresh] \in Nodes
      BY <1>2, <3>2 DEF Nodes
    <3>4. nodes' = [added EXCEPT ![L] = [nodes[L] EXCEPT !.next = fresh]]
      BY <3>1, <3>2
    <3> QED BY <1>7, <3>2, <3>3, <3>4
  <2> QED BY <2>1, <2>2
<1>9. /\ Depth' = Depth /\ stack' \in Seq(Frames) /\ DOMAIN stack' = 1..Depth
      /\ \A i \in 1..Depth : i # Depth => stack'[i] = stack[i]
      /\ stack'[Depth].head = (IF H = 0 THEN fresh ELSE H)
      /\ stack'[Depth].last = fresh
  <2> DEFINE h2 == IF H = 0 THEN fresh ELSE H
             g == [Top EXCEPT !.head = h2]
             f2 == [g EXCEPT !.last = fresh]
             mid == [stack EXCEPT ![Depth] = g]
  <2>1. h2 \in Nat /\ fresh \in Nat
    BY <1>2, <1>4
  <2>2. g \in Frames /\ g.head = h2
    <3> HIDE DEF h2
    <3> QED BY <1>3, <2>1 DEF Frames
  <2>3. f2 \in Frames /\ f2.head = h2 /\ f2.last = fresh
    <3> HIDE DEF h2, g
    <3> QED BY <2>1, <2>2 DEF Frames
  <2>4. stack' = [stack EXCEPT ![Depth].head = h2, ![Depth].last = fresh]
    BY <1>3, <1>5
  <2>5. stack' = [mid EXCEPT ![Depth].last = fresh]
    <3> HIDE DEF h2
    <3> QED BY <1>3, <2>4
  <2> HIDE DEF h2
  <2>6. mid \in Seq(Frames) /\ mid[Depth] = g /\ DOMAIN mid = 1..Depth
    <3> HIDE DEF g
    <3> QED BY <1>2, <2>2
  <2>7. \A i \in 1..Depth : i # Depth => mid[i] = stack[i]
    BY <1>2
  <2> HIDE DEF g, mid
  <2>8. stack' = [mid EXCEPT ![Depth] = f2]
    BY <2>5, <2>6
  <2> HIDE DEF f2
  <2>9. stack' \in Seq(Frames) /\ stack'[Depth] = f2 /\ DOMAIN stack' = 1..Depth
    BY <1>2, <2>3, <2>6, <2>8
  <2>10. \A i \in 1..Depth : i # Depth => stack'[i] = mid[i]
    BY <2>6, <2>8
  <2>11. Depth' = Depth
    BY <1>2, <2>9 DEF Depth
  <2> QED BY <2>3, <2>7, <2>9, <2>10, <2>11 DEF h2
<1>10. pos' \in 1..Len(text) + 1 /\ pos' <= Len(text)
  <2>1. pos \in Nat /\ pos > 0 /\ Len(text) \in Nat
    BY TextEnds
  <2>2. pos' \in pos+1..Len(text)+1 /\ SkipsTo(pos + 1, pos')
    BY DEF NextElement, AddElement, SkipPast
  <2>3. pos + 1 \in 1..Len(text) + 1 /\ pos + 1 <= Len(text) /\ pos + 1 \in Nat
    BY <1>1, <2>1
  <2>4. pos' <= Len(text)
    BY <2>2, <2>3, SkipRange
  <2> QED BY <2>1, <2>2, <2>4
<1>11. ParserTypeOK'
  <2>1. /\ DOMAIN nodes' \cup DOMAIN strings' \subseteq 1..fresh'-1
        /\ fresh' \in Nat \ {0}
    BY <1>2, <1>5, <1>8
  <2>2. pc' \in ParserPcs
    BY <1>5 DEF ParserPcs
  <2>3. Depth' <= NestingLimit
    BY <1>9 DEF ParserTypeOK
  <2> QED BY <1>5, <1>8, <1>9, <1>10, <2>1, <2>2, <2>3, <1>1 DEF ParserTypeOK
<1>12. Placed'
  BY <1>1, <1>5, <1>9, <1>10 DEF Placed, NameInBounds, CanAccess
<1>13. \A i \in 0..Depth : i # Depth => Chain(i)' = Chain(i)
  BY <1>2, <1>5, <1>9 DEF Chain
<1>14. Chain(Depth)' = fresh
  BY <1>1, <1>9 DEF Chain
<1>15. \A i \in 0..Depth : Chain(i) \in Nat /\ Chain(i) < fresh
  BY <1>1, <1>2 DEF ChainInv, Chain
<1>16. \A i \in 0..Depth : i # Depth =>
         /\ Chain(i) \in DOMAIN nodes /\ Chain(i) # 0 /\ Chain(i) # L
         /\ nodes[Chain(i)].next = 0 /\ nodes[Chain(i)].child = 0
  <2> SUFFICES ASSUME NEW i \in 0..Depth, i # Depth
               PROVE  /\ Chain(i) \in DOMAIN nodes /\ Chain(i) # 0 /\ Chain(i) # L
                      /\ nodes[Chain(i)].next = 0 /\ nodes[Chain(i)].child = 0
    OBVIOUS
  <2>1. i \in 0..Depth-1 /\ i < Depth
    BY <1>2
  <2>2. Chain(i) # 0 /\ nodes[Chain(i)].child = 0
    BY <1>1, <2>1 DEF ChainInv
  <2>3. Chain(i) \in DOMAIN nodes /\ nodes[Chain(i)].next = 0
    BY <1>1, <2>2 DEF ChainInv
  <2>4. L # 0 => Chain(i) < L
    BY <1>1, <1>2, <2>1 DEF ChainInv, L
  <2>5. Chain(i) # L
    BY <1>4, <1>15, <2>2, <2>4
  <2> QED BY <2>2, <2>3, <2>5
<1>17. ChainInv'
  <2>1. \A i \in 0..Depth' : Chain(i)' # 0 =>
          Chain(i)' \in DOMAIN nodes' /\ nodes'[Chain(i)'].next = 0
    <3> SUFFICES ASSUME NEW i \in 0..Depth
                 PROVE  Chain(i)' \in DOMAIN nodes' /\ nodes'[Chain(i)'].next = 0
      BY <1>9
    <3>1. CASE i = Depth
      BY <1>6, <1>8, <1>9, <1>14, <3>1
    <3>2. CASE i # Depth
      BY <1>8, <1>13, <1>16, <3>2
    <3> QED BY <3>1, <3>2
  <2>2. \A i, j \in 0..Depth' : i < j /\ Chain(j)' # 0 => Chain(i)' < Chain(j)'
    <3> SUFFICES ASSUME NEW i \in 0..Depth, NEW j \in 0..Depth, i < j
                 PROVE  Chain(i)' < Chain(j)'
      BY <1>9
    <3>1. i # Depth /\ Chain(i)' = Chain(i)
      BY <1>2, <1>13
    <3>2. CASE j = Depth
      BY <1>9, <1>14, <1>15, <3>1, <3>2
    <3>3. CASE j # Depth
      <4>1. Chain(j)' = Chain(j) /\ Chain(j) # 0
        BY <1>13, <1>16, <3>3
      <4> QED BY <1>1, <3>1, <4>1 DEF ChainInv
    <3> QED BY <3>2, <3>3
  <2>3. \A i \in 0..Depth'-1 : Chain(i)' # 0 /\ nodes'[Chain(i)'].child = 0
    <3> SUFFICES ASSUME NEW i \in 0..Depth, i # Depth
                 PROVE  Chain(i)' # 0 /\ nodes'[Chain(i)'].child = 0
      BY <1>2, <1>9
    <3> QED BY <1>8, <1>13, <1>16
  <2>4. \A i \in 1..Depth' :
          /\ stack'[i].head = 0 <=> Chain(i)' = 0
          /\ stack'[i].head # 0 => Chain(i - 1)' < stack'[i].head
    <3> SUFFICES ASSUME NEW i \in 1..Depth
                 PROVE  /\ stack'[i].head = 0 <=> Chain(i)' = 0
                        /\ stack'[i].head # 0 => Chain(i - 1)' < stack'[i].head
      BY <1>9
    <3>1. /\ i \in 0..Depth /\ i - 1 \in 0..Depth /\ i - 1 # Depth
          /\ Chain(i - 1)' = Chain(i - 1)
      BY <1>2, <1>13
    <3>2. CASE i = Depth
      <4>1. Chain(i)' = fresh /\ fresh # 0
        BY <1>2, <1>9, <1>14, <3>2
      <4>2. CASE H = 0
        BY <1>9, <1>15, <3>1, <3>2, <4>1, <4>2
      <4>3. CASE H # 0
        BY <1>1, <1>9, <3>1, <3>2, <4>1, <4>3 DEF ChainInv, H
      <4> QED BY <4>2, <4>3
    <3>3. CASE i # Depth
      BY <1>1, <1>9, <1>13, <3>1, <3>3 DEF ChainInv
    <3> QED BY <3>2, <3>3
  <2> QED BY <2>1, <2>2, <2>3, <2>4 DEF ChainInv
<1>18. Current'
  <2>1. nodes'[fresh].child = 0 /\ nodes'[fresh].valuestring = 0
        /\ nodes'[fresh].string = 0 /\ fresh # 0
    BY <1>2, <1>6, <1>8
  <2> QED BY <1>14, <2>1 DEF Current
<1>19. Growing'
  <2> SUFFICES ASSUME NEW n \in DOMAIN nodes'
               PROVE  /\ nodes'[n].next # 0 => n < nodes'[n].next
                      /\ nodes'[n].child # 0 => n < nodes'[n].child
    BY DEF Growing
  <2>1. CASE n = fresh
    BY <1>6, <1>8, <2>1
  <2>2. CASE n = L /\ n # fresh
    <3>1. L # 0 /\ L \in DOMAIN nodes /\ L < fresh /\ nodes[L] \in Nodes
      BY <1>2, <1>8, <2>2
    <3>2. nodes'[L].next = fresh /\ nodes'[L].child = nodes[L].child
      BY <1>8, <3>1 DEF Nodes
    <3> QED BY <2>2, <3>1, <3>2 DEF Growing
  <2>3. CASE n # L /\ n # fresh
    BY <1>8, <2>3 DEF Growing
  <2> QED BY <2>1, <2>2, <2>3
<1>20. Owned'
  <2> DEFINE w == IF H = 0 THEN <<"head", Depth>> ELSE <<"next", L>>
  <2>1. WellOwned(Ptr(root, stack, del, nodes), DOMAIN nodes, DOMAIN strings)
    BY DEF Owned
  <2>2. /\ fresh # 0 /\ fresh \notin DOMAIN nodes \cup DOMAIN strings
        /\ DOMAIN nodes' = DOMAIN nodes \cup {fresh}
    BY <1>2, <1>7, <1>8
  <2>3. L # 0 => /\ L \in DOMAIN nodes /\ nodes[L].next = 0
                 /\ nodes'[L].next = fresh
                 /\ nodes'[L].child = nodes[L].child
                 /\ nodes'[L].valuestring = nodes[L].valuestring
                 /\ nodes'[L].string = nodes[L].string
    BY <1>2, <1>4, <1>8 DEF Nodes
  <2>4. \A n : ~EnteredIn(del, n) /\ ~EnteredIn(del', n)
    BY <1>1, <1>5 DEF EnteredIn
  <2>5. stack[Depth].head = H
    BY DEF H
  <2>6. Carried(root, stack, del, nodes, root', stack', del', nodes', {})
    <3>1. \A i \in DOMAIN stack :
            stack[i].head = 0 \/ (i \in DOMAIN stack' /\ stack'[i].head = stack[i].head)
      BY <1>2, <1>9, <2>5
    <3>2. ASSUME NEW n \in DOMAIN nodes
          PROVE  /\ n \in DOMAIN nodes'
                 /\ nodes[n].next = 0 \/ nodes'[n].next = nodes[n].next
                 /\ nodes'[n].valuestring = nodes[n].valuestring
                 /\ nodes'[n].string = nodes[n].string
                 /\ nodes'[n].child = nodes[n].child
      <4>1. CASE n = L
        <5>1. L # 0
          BY <1>2, <4>1
        <5> QED BY <1>8, <2>3, <4>1, <5>1
      <4>2. CASE n # L
        BY <1>8, <4>2
      <4> QED BY <4>1, <4>2
    <3> QED BY <1>1, <1>5, <2>4, <3>1, <3>2 DEF Carried
  <2>7. Carried(root', stack', del', nodes', root, stack, del, nodes, {w})
    <3>1. \A i \in DOMAIN stack' : <<"head", i>> # w =>
            stack'[i].head = 0 \/ (i \in DOMAIN stack /\ stack[i].head = stack'[i].head)
      BY <1>2, <1>9, <2>5
    <3>2. ASSUME NEW n \in DOMAIN nodes', n # fresh
          PROVE  /\ n \in DOMAIN nodes
                 /\ <<"next", n>> # w =>
                      nodes'[n].next = 0 \/ nodes'[n].next = nodes[n].next
                 /\ nodes'[n].valuestring = nodes[n].valuestring
                 /\ nodes'[n].string = nodes[n].string
                 /\ nodes'[n].child = nodes[n].child
      <4>0. n \in DOMAIN nodes
        BY <1>8, <3>2
      <4>1. CASE n = L
        <5>1. L # 0 /\ H # 0
          BY <1>2, <1>4, <4>0, <4>1
        <5> QED BY <2>3, <4>0, <4>1, <5>1
      <4>2. CASE n # L
        BY <1>8, <4>0, <4>2
      <4> QED BY <4>1, <4>2
    <3>3. /\ nodes'[fresh].next = 0 /\ nodes'[fresh].child = 0
          /\ nodes'[fresh].valuestring = 0 /\ nodes'[fresh].string = 0
      BY <1>6, <1>8
    <3> HIDE DEF w
    <3> QED BY <1>1, <1>5, <2>4, <3>1, <3>2, <3>3 DEF Carried
  <2>8. /\ w \in DOMAIN Ptr(root', stack', del', nodes')
        /\ Ptr(root', stack', del', nodes')[w] = fresh
        /\ ~StringSlot(w)
    <3>1. CASE H = 0
      BY <1>1, <1>2, <1>9, <3>1, HeadSlot
    <3>2. CASE H # 0
      <4>1. L \in DOMAIN nodes' /\ nodes'[L].next = fresh
        BY <1>4, <1>8, <2>3, <3>2
      <4> QED BY <3>2, <4>1, NextSlot
    <3> QED BY <3>1, <3>2
  <2>9. WellOwned(Ptr(root', stack', del', nodes'), DOMAIN nodes', DOMAIN strings)
    <3> HIDE DEF w
    <3> QED BY <2>1, <2>2, <2>6, <2>7, <2>8, NewItem
  <2> QED BY <1>5, <2>9 DEF Owned
<1> QED BY <1>11, <1>12, <1>17, <1>18, <1>19, <1>20

LEMMA FrontFrames ==
    ASSUME NEW S, NEW s \in Seq(S), Len(s) > 0
    PROVE  /\ Front(s) \in Seq(S) /\ Len(Front(s)) = Len(s) - 1
           /\ DOMAIN Front(s) = 1..Len(s)-1
           /\ \A i \in 1..Len(s)-1 : Front(s)[i] = s[i]
<1>1. Front(s) = SubSeq(s, 1, Len(s) - 1)
  BY DEF Front
<1>2. Len(s) \in Nat /\ 1..Len(s)-1 \subseteq 1..Len(s)
  OBVIOUS
<1> DEFINE n == Len(s) - 1
<1>3. n \in Nat /\ n <= Len(s)
  OBVIOUS
<1> HIDE DEF n
<1>4. Front(s) = SubSeq(s, 1, n)
  BY <1>1 DEF n
<1>5. Front(s) \in Seq(S) /\ Len(Front(s)) = n
  BY <1>3, <1>4
<1>6. \A i \in 1..n : Front(s)[i] = s[i]
  BY <1>3, <1>4
<1>7. DOMAIN Front(s) = 1..n
  BY <1>5
<1> QED BY <1>5, <1>6, <1>7 DEF n

LEMMA CloseInv == ParserInv /\ Close => ParserInv'
<1> SUFFICES ASSUME ParserInv, Close
             PROVE  ParserInv'
  OBVIOUS
<1> USE DEF ParserInv
<1> DEFINE L == Chain(Depth)
           C == Chain(Depth - 1)
           H == stack[Depth].head
           type == IF Top.object THEN "Object" ELSE "Array"
<1>1. PICK q \in pos..Len(text) :
        /\ Behind(q)
        /\ text[q] = Closer(Top.object)
        /\ nodes' = [nodes EXCEPT ![Top.head].prev = Top.last,
                                  ![Container].type = type,
                                  ![Container].child = Top.head]
        /\ stack' = Front(stack)
        /\ pos' = q + 1
        /\ pc' = "after"
        /\ UNCHANGED <<root, strings, fresh>> /\ Unchanged
  BY DEF Close, CloseAs
<1>2. /\ pc = "after" /\ Depth > 0 /\ del = <<>> /\ del' = <<>>
      /\ ChainInv /\ Current /\ text' = text /\ starved' = starved
  BY <1>1 DEF Behind, Placed, Reading, Unchanged
<1>3. /\ stack \in Seq(Frames) /\ Depth \in Nat /\ Depth = Len(stack)
      /\ DOMAIN stack = 1..Depth /\ Depth \in 1..Depth /\ Depth \in 0..Depth
      /\ Depth - 1 \in 0..Depth-1 /\ Depth - 1 \in 0..Depth
      /\ Depth - 1 < Depth
      /\ DOMAIN nodes \subseteq 1..fresh-1 /\ fresh \in Nat \ {0}
      /\ nodes \in [DOMAIN nodes -> Nodes]
  BY <1>2 DEF ParserTypeOK, Depth
<1>4. /\ L = Top.last /\ H = Top.head /\ Top = stack[Depth] /\ Top \in Frames
      /\ C = Container
  <2>1. Depth = 1 <=> Depth - 1 = 0
    BY <1>3
  <2> QED BY <1>2, <1>3, <2>1 DEF Chain, Top, Container
<1>5. /\ L # 0 /\ H # 0 /\ C # 0 /\ C < H
      /\ C \in DOMAIN nodes /\ nodes[C].next = 0 /\ nodes[C].child = 0
  BY <1>2, <1>3 DEF Current, ChainInv
<1>6. H \in DOMAIN nodes
  <2> DEFINE P == Ptr(root, stack, del, nodes)
             s == <<"head", Depth>>
  <2>1. s \in DOMAIN P /\ P[s] = H /\ ~StringSlot(s)
    BY <1>3, HeadSlot
  <2>2. WellOwned(P, DOMAIN nodes, DOMAIN strings)
    BY DEF Owned
  <2> HIDE DEF P, s, H
  <2> QED BY <1>5, <2>1, <2>2 DEF WellOwned
<1>7. /\ nodes' = [nodes EXCEPT ![H].prev = L, ![C].type = type, ![C].child = H]
      /\ C # H /\ L \in Nat /\ H \in Nat /\ C \in Nat
      /\ type \in Types
  <2>1. L \in Nat /\ H \in Nat
    BY <1>4 DEF Frames
  <2>2. C \in Nat
    BY <1>3, <1>5
  <2>3. type \in Types
    BY DEF Types
  <2>4. nodes' = [nodes EXCEPT ![H].prev = L, ![C].type = type, ![C].child = H]
    BY <1>1, <1>4
  <2> HIDE DEF L, C, H, type
  <2>5. C # H
    BY <1>5, <2>1, <2>2
  <2> QED BY <2>1, <2>2, <2>3, <2>4, <2>5
<1> HIDE DEF L, C, H, type
<1>8. /\ DOMAIN nodes' = DOMAIN nodes
      /\ \A n \in DOMAIN nodes : /\ nodes'[n].next = nodes[n].next
                                 /\ nodes'[n].valuestring = nodes[n].valuestring
                                 /\ nodes'[n].string = nodes[n].string
                                 /\ n # C => nodes'[n].child = nodes[n].child
      /\ nodes'[C].child = H
      /\ nodes' \in [DOMAIN nodes -> Nodes]
  <2> DEFINE h == [nodes[H] EXCEPT !.prev = L]
             c == [nodes[C] EXCEPT !.type = type, !.child = H]
  <2>1. nodes[H] \in Nodes /\ nodes[C] \in Nodes
    BY <1>3, <1>5, <1>6
  <2>2. /\ h \in Nodes /\ h.next = nodes[H].next /\ h.child = nodes[H].child
        /\ h.valuestring = nodes[H].valuestring /\ h.string = nodes[H].string
    BY <1>7, <2>1 DEF Nodes
  <2>3. /\ c \in Nodes /\ c.next = nodes[C].next /\ c.child = H
        /\ c.valuestring = nodes[C].valuestring /\ c.string = nodes[C].string
    BY <1>7, <2>1 DEF Nodes
  <2>4. nodes'[H] = h /\ nodes'[C] = c /\ DOMAIN nodes' = DOMAIN nodes
        /\ \A n \in DOMAIN nodes : n # H /\ n # C => nodes'[n] = nodes[n]
    BY <1>3, <1>5, <1>6, <1>7
  <2>5. nodes' = [n \in DOMAIN nodes |-> nodes'[n]]
    BY <1>7
  <2> HIDE DEF h, c
  <2>6. nodes' \in [DOMAIN nodes -> Nodes]
    BY <1>3, <2>2, <2>3, <2>4, <2>5
  <2>7. \A n \in DOMAIN nodes : /\ nodes'[n].next = nodes[n].next
                                /\ nodes'[n].valuestring = nodes[n].valuestring
                                /\ nodes'[n].string = nodes[n].string
                                /\ n # C => nodes'[n].child = nodes[n].child
    BY <2>2, <2>3, <2>4
  <2> QED BY <2>3, <2>4, <2>6, <2>7
<1>9. /\ stack' \in Seq(Frames) /\ Depth' = Depth - 1 /\ DOMAIN stack' = 1..Depth-1
      /\ \A i \in 1..Depth-1 : stack'[i] = stack[i]
  BY <1>1, <1>2, <1>3, FrontFrames DEF Depth
<1>10. pos' \in 1..Len(text) + 1
  <2>1. pos \in Nat /\ pos > 0 /\ Len(text) \in Nat
    BY TextEnds
  <2> QED BY <1>1, <2>1
<1>11. ParserTypeOK'
  <2>1. Depth' <= NestingLimit
    <3>1. NestingLimit \in Nat
      BY ParserAssumption
    <3>2. Depth <= NestingLimit
      BY DEF ParserTypeOK
    <3> QED BY <1>3, <1>9, <3>1, <3>2
  <2> QED BY <1>1, <1>2, <1>8, <1>9, <1>10, <2>1 DEF ParserTypeOK, ParserPcs
<1>12. Placed'
  BY <1>1, <1>2 DEF Placed, NameInBounds
<1>13. \A i \in 0..Depth-1 : Chain(i)' = Chain(i) /\ i \in 0..Depth
  BY <1>1, <1>3, <1>9 DEF Chain
<1>14. Chain(Depth)' = C
  BY <1>3, <1>9, <1>13 DEF C
<1>15. ChainInv'
  <2>1. \A i \in 0..Depth' : Chain(i)' # 0 =>
          Chain(i)' \in DOMAIN nodes' /\ nodes'[Chain(i)'].next = 0
    BY <1>2, <1>8, <1>9, <1>13 DEF ChainInv
  <2>2. \A i, j \in 0..Depth' : i < j /\ Chain(j)' # 0 => Chain(i)' < Chain(j)'
    BY <1>2, <1>9, <1>13 DEF ChainInv
  <2>3. \A i \in 0..Depth'-1 : Chain(i)' # 0 /\ nodes'[Chain(i)'].child = 0
    <3> SUFFICES ASSUME NEW i \in 0..Depth-2
                 PROVE  Chain(i) # 0 /\ nodes'[Chain(i)].child = 0
      BY <1>3, <1>9, <1>13
    <3>1. i \in 0..Depth-1 /\ i \in 0..Depth /\ i < Depth - 1
      BY <1>3
    <3>2. Chain(i) # 0 /\ nodes[Chain(i)].child = 0
      BY <1>2, <3>1 DEF ChainInv
    <3>3. Chain(i) \in DOMAIN nodes
      BY <1>2, <3>1, <3>2 DEF ChainInv
    <3>4. Chain(i) < C
      BY <1>2, <1>3, <1>5, <3>1 DEF ChainInv, C
    <3>5. Chain(i) # C
      BY <1>3, <3>3, <3>4, <1>7
    <3> QED BY <1>8, <3>2, <3>3, <3>5
  <2>4. \A i \in 1..Depth' :
          /\ stack'[i].head = 0 <=> Chain(i)' = 0
          /\ stack'[i].head # 0 => Chain(i - 1)' < stack'[i].head
    <3> SUFFICES ASSUME NEW i \in 1..Depth-1
                 PROVE  /\ stack'[i].head = 0 <=> Chain(i)' = 0
                        /\ stack'[i].head # 0 => Chain(i - 1)' < stack'[i].head
      BY <1>9
    <3>1. i \in 0..Depth-1 /\ i - 1 \in 0..Depth-1 /\ i \in 1..Depth
      BY <1>3
    <3> QED BY <1>2, <1>9, <1>13, <3>1 DEF ChainInv
  <2> QED BY <2>1, <2>2, <2>3, <2>4 DEF ChainInv
<1>16. Current'
  BY <1>1, <1>5, <1>14 DEF Current
<1>17. Growing'
  <2> SUFFICES ASSUME NEW n \in DOMAIN nodes
               PROVE  /\ nodes'[n].next # 0 => n < nodes'[n].next
                      /\ nodes'[n].child # 0 => n < nodes'[n].child
    BY <1>8 DEF Growing
  <2>1. CASE n = C
    BY <1>5, <1>8, <2>1 DEF Growing
  <2>2. CASE n # C
    BY <1>8, <2>2 DEF Growing
  <2> QED BY <2>1, <2>2
<1>18. Owned'
  <2> DEFINE v == <<"head", Depth>>
             w == <<"child", C>>
             P == Ptr(root, stack, del, nodes)
             Q == Ptr(root', stack', del', nodes')
  <2>1. WellOwned(P, DOMAIN nodes, DOMAIN strings)
    BY DEF Owned
  <2>2. \A n : ~EnteredIn(del, n) /\ ~EnteredIn(del', n)
    BY <1>2 DEF EnteredIn
  <2>3. v \in DOMAIN P /\ P[v] = H /\ ~StringSlot(v)
    BY <1>3, HeadSlot DEF H
  <2>4. v \notin DOMAIN Q
    <3>1. Depth \notin DOMAIN stack'
      BY <1>3, <1>9
    <3> QED BY <3>1, HeadSlot
  <2>5. w \in DOMAIN Q /\ Q[w] = H /\ ~StringSlot(w)
    BY <1>5, <1>8, <2>2, KidSlot
  <2>6. Carried(root, stack, del, nodes, root', stack', del', nodes', {v})
    <3>1. \A i \in DOMAIN stack : <<"head", i>> # v =>
            i \in DOMAIN stack' /\ stack'[i].head = stack[i].head
      BY <1>3, <1>9
    <3>2. \A n \in DOMAIN nodes : nodes[n].child = 0 \/ nodes'[n].child = nodes[n].child
      BY <1>5, <1>8
    <3> HIDE DEF v
    <3> QED BY <1>1, <1>2, <1>8, <2>2, <3>1, <3>2 DEF Carried
  <2>7. Carried(root', stack', del', nodes', root, stack, del, nodes, {w})
    <3>1. \A i \in DOMAIN stack' :
            i \in DOMAIN stack /\ stack'[i].head = stack[i].head
      BY <1>3, <1>9
    <3>2. \A n \in DOMAIN nodes : <<"child", n>> # w =>
            nodes'[n].child = nodes[n].child
      BY <1>8
    <3> HIDE DEF w
    <3> QED BY <1>1, <1>2, <1>8, <2>2, <3>1, <3>2 DEF Carried
  <2>8. WellOwned(Q, DOMAIN nodes', DOMAIN strings)
    <3>1. DOMAIN nodes' = DOMAIN nodes
      BY <1>8
    <3>2. Q[w] = P[v]
      BY <2>3, <2>5
    <3> HIDE DEF v, w
    <3> QED BY <2>1, <2>3, <2>4, <2>5, <2>6, <2>7, <3>1, <3>2, MoveItem
  <2> QED BY <1>1, <2>8 DEF Owned
<1> QED BY <1>11, <1>12, <1>15, <1>16, <1>17, <1>18

(***************************************************************************)
(* The steps of a parser that has failed.                                  *)
(***************************************************************************)
LEMMA CleanupStep ==
    ASSUME ParserInv, pc = "fail",
           UNCHANGED <<pc, text, pos, fresh, starved>>,
           root' \in Nat, stack' \in Seq(Frames), Len(stack') <= Len(stack),
           del' \in Seq(Deletes),
           DOMAIN nodes' \subseteq DOMAIN nodes,
           DOMAIN strings' \subseteq DOMAIN strings,
           nodes' = [n \in DOMAIN nodes' |-> nodes[n]],
           strings' = [n \in DOMAIN strings' |-> strings[n]],
           Owned'
    PROVE  ParserInv'
<1> USE DEF ParserInv
<1>1. nodes' \in [DOMAIN nodes' -> Nodes]
  <2>1. \A n \in DOMAIN nodes' : nodes[n] \in Nodes
    BY DEF ParserTypeOK
  <2> QED BY <2>1
<1>2. strings' \in [DOMAIN strings' -> Strings]
  <2>1. \A n \in DOMAIN strings' : strings[n] \in Strings
    BY DEF ParserTypeOK
  <2> QED BY <2>1
<1>3. DOMAIN nodes' \cup DOMAIN strings' \subseteq 1..fresh'-1
  BY DEF ParserTypeOK
<1>4. Depth' <= NestingLimit
  <2>1. NestingLimit \in Nat
    BY ParserAssumption
  <2>2. Depth <= NestingLimit /\ Depth' <= Depth /\ Depth \in Nat /\ Depth' \in Nat
    BY DEF Depth, ParserTypeOK
  <2> QED BY <2>1, <2>2
<1>5. ParserTypeOK'
  BY <1>1, <1>2, <1>3, <1>4 DEF ParserTypeOK
<1>6. Placed' /\ ~Reading'
  BY DEF Placed, NameInBounds, Reading
<1>7. Growing'
  BY DEF Growing
<1> QED BY <1>5, <1>6, <1>7

LEMMA UnwindInv == ParserInv /\ Unwind => ParserInv'
<1> SUFFICES ASSUME ParserInv, Unwind
             PROVE  ParserInv'
  OBVIOUS
<1> USE DEF ParserInv
<1> DEFINE H == stack[Depth].head
<1>1. /\ pc = "fail" /\ del = <<>> /\ Depth > 0
      /\ stack' = Front(stack)
      /\ del' = IF H = 0 THEN <<>> ELSE Delete(H)
      /\ UNCHANGED <<pc, text, pos, root, nodes, strings, fresh, starved>>
  BY DEF Unwind, UnwindWith, Failing, Top
<1>2. /\ stack \in Seq(Frames) /\ Depth \in Nat /\ Depth = Len(stack)
      /\ DOMAIN stack = 1..Depth /\ Depth \in 1..Depth
      /\ stack[Depth] \in Frames /\ H \in Nat
  <2>1. stack \in Seq(Frames) /\ Depth = Len(stack)
    BY DEF ParserTypeOK, Depth
  <2>2. Depth \in Nat /\ DOMAIN stack = 1..Depth /\ Depth \in 1..Depth
    BY <1>1, <2>1
  <2>3. stack[Depth] \in Frames
    BY <2>1, <2>2
  <2> QED BY <2>1, <2>2, <2>3 DEF Frames
<1>3. /\ stack' \in Seq(Frames) /\ Len(stack') = Depth - 1
      /\ DOMAIN stack' = 1..Depth-1
      /\ \A i \in 1..Depth-1 : stack'[i] = stack[i]
  BY <1>1, <1>2, FrontFrames
<1> DEFINE v == <<"head", Depth>>
           w == <<"delete", 1>>
           P == Ptr(root, stack, del, nodes)
           Q == Ptr(root', stack', del', nodes')
<1>4. v \in DOMAIN P /\ P[v] = H /\ ~StringSlot(v)
  BY <1>2, HeadSlot
<1>5. v \notin DOMAIN Q
  <2>1. Depth \notin DOMAIN stack'
    BY <1>2, <1>3
  <2> QED BY <2>1, HeadSlot
<1> HIDE DEF H
<1>6. /\ del' \in Seq(Deletes) /\ \A n : ~EnteredIn(del, n) /\ ~EnteredIn(del', n)
      /\ H # 0 => DOMAIN del' = {1} /\ del'[1].item = H
      /\ H = 0 => del' = <<>>
  <2>1. CASE H = 0
    BY <1>1, <2>1 DEF EnteredIn
  <2>2. CASE H # 0
    <3>1. [item |-> H, entered |-> FALSE] \in Deletes
      BY <1>2 DEF Deletes
    <3> QED BY <1>1, <2>2, <3>1 DEF EnteredIn, Delete
  <2> QED BY <2>1, <2>2
<1>7. Carried(root, stack, del, nodes, root', stack', del', nodes', {v})
  <2>1. \A i \in DOMAIN stack : <<"head", i>> # v =>
          i \in DOMAIN stack' /\ stack'[i].head = stack[i].head
    BY <1>2, <1>3
  <2> HIDE DEF v
  <2> QED BY <1>1, <1>6, <2>1 DEF Carried
<1>8. Carried(root', stack', del', nodes', root, stack, del, nodes, {w})
  <2>1. \A i \in DOMAIN stack' : i \in DOMAIN stack /\ stack'[i].head = stack[i].head
    BY <1>2, <1>3
  <2>2. \A i \in DOMAIN del' : <<"delete", i>> = w
    BY <1>6
  <2> HIDE DEF w
  <2> QED BY <1>1, <1>6, <2>1, <2>2 DEF Carried
<1>9. WellOwned(P, DOMAIN nodes, DOMAIN strings)
  BY DEF Owned
<1>10. Owned'
  <2>1. CASE H # 0
    <3>1. w \in DOMAIN Q /\ Q[w] = P[v] /\ ~StringSlot(w)
      <4>1. 1 \in DOMAIN del' /\ del'[1].item = H
        BY <1>6, <2>1
      <4> QED BY <1>4, <4>1, DeleteSlot
    <3>2. DOMAIN nodes' = DOMAIN nodes /\ DOMAIN strings' = DOMAIN strings
      BY <1>1
    <3>3. WellOwned(Q, DOMAIN nodes', DOMAIN strings)
      <4> HIDE DEF v, w
      <4> QED BY <1>4, <1>5, <1>7, <1>8, <1>9, <3>1, <3>2, MoveItem
    <3> QED BY <3>2, <3>3 DEF Owned
  <2>2. CASE H = 0
    <3>1. Carried(root, stack, del, nodes, root', stack', del', nodes', {})
      <4>1. \A i \in DOMAIN stack : stack[i].head = 0 \/
              (i \in DOMAIN stack' /\ stack'[i].head = stack[i].head)
        BY <1>2, <1>3, <2>2 DEF H
      <4> QED BY <1>1, <1>6, <4>1 DEF Carried
    <3>2. Carried(root', stack', del', nodes', root, stack, del, nodes, {})
      <4>1. \A i \in DOMAIN stack' : i \in DOMAIN stack /\ stack'[i].head = stack[i].head
        BY <1>2, <1>3
      <4> QED BY <1>1, <1>6, <2>2, <4>1 DEF Carried
    <3>3. DOMAIN nodes' = DOMAIN nodes /\ DOMAIN strings' = DOMAIN strings
      BY <1>1
    <3>4. WellOwned(Q, DOMAIN nodes', DOMAIN strings)
      BY <1>9, <3>1, <3>2, <3>3, SameItems
    <3> QED BY <3>3, <3>4 DEF Owned
  <2> QED BY <2>1, <2>2
<1>11. /\ root' \in Nat /\ Len(stack') <= Len(stack)
       /\ nodes' = [n \in DOMAIN nodes' |-> nodes[n]]
       /\ strings' = [n \in DOMAIN strings' |-> strings[n]]
       /\ DOMAIN nodes' \subseteq DOMAIN nodes
       /\ DOMAIN strings' \subseteq DOMAIN strings
  <2>1. Len(stack') <= Len(stack)
    BY <1>2, <1>3
  <2> QED BY <1>1, <2>1 DEF ParserTypeOK
<1> QED BY <1>1, <1>3, <1>6, <1>10, <1>11, CleanupStep

LEMMA DeleteRootInv == ParserInv /\ DeleteRoot => ParserInv'
<1> SUFFICES ASSUME ParserInv, DeleteRoot
             PROVE  ParserInv'
  OBVIOUS
<1> USE DEF ParserInv
<1>1. /\ pc = "fail" /\ del = <<>> /\ root # 0 /\ root' = 0
      /\ del' = Delete(root)
      /\ UNCHANGED <<pc, text, pos, stack, nodes, strings, fresh, starved>>
      /\ root \in Nat
  BY DEF DeleteRoot, Failing, ParserTypeOK
<1> DEFINE v == <<"root", 0>>
           w == <<"delete", 1>>
           P == Ptr(root, stack, del, nodes)
           Q == Ptr(root', stack', del', nodes')
<1>2. /\ del' \in Seq(Deletes) /\ \A n : ~EnteredIn(del, n) /\ ~EnteredIn(del', n)
      /\ DOMAIN del' = {1} /\ del'[1].item = root
  <2>1. [item |-> root, entered |-> FALSE] \in Deletes
    BY <1>1 DEF Deletes
  <2> QED BY <1>1, <2>1 DEF EnteredIn, Delete
<1>3. /\ v \in DOMAIN P /\ P[v] = root /\ ~StringSlot(v)
      /\ v \in DOMAIN Q => Q[v] = 0
  BY <1>1, RootSlot
<1>4. w \in DOMAIN Q /\ Q[w] = root /\ ~StringSlot(w)
  <2>1. 1 \in DOMAIN del' /\ del'[1].item = root
    BY <1>2
  <2> QED BY <2>1, DeleteSlot
<1>5. Carried(root, stack, del, nodes, root', stack', del', nodes', {v})
  BY <1>1, <1>2 DEF Carried
<1>6. Carried(root', stack', del', nodes', root, stack, del, nodes, {w})
  <2>1. \A i \in DOMAIN del' : <<"delete", i>> = w
    BY <1>2
  <2> HIDE DEF w
  <2> QED BY <1>1, <1>2, <2>1 DEF Carried
<1>7. Owned'
  <2>1. WellOwned(P, DOMAIN nodes, DOMAIN strings)
    BY DEF Owned
  <2>2. DOMAIN nodes' = DOMAIN nodes /\ DOMAIN strings' = DOMAIN strings
    BY <1>1
  <2>3. Q[w] = P[v]
    BY <1>3, <1>4
  <2>4. WellOwned(Q, DOMAIN nodes', DOMAIN strings)
    <3> HIDE DEF v, w
    <3> QED BY <1>3, <1>4, <1>5, <1>6, <2>1, <2>2, <2>3, MoveItem
  <2> QED BY <2>2, <2>4 DEF Owned
<1>8. /\ root' \in Nat /\ stack' \in Seq(Frames) /\ Len(stack') <= Len(stack)
      /\ nodes' = [n \in DOMAIN nodes' |-> nodes[n]]
      /\ strings' = [n \in DOMAIN strings' |-> strings[n]]
      /\ DOMAIN nodes' \subseteq DOMAIN nodes
      /\ DOMAIN strings' \subseteq DOMAIN strings
  <2>1. stack \in Seq(Frames) /\ Len(stack) \in Nat
    BY DEF ParserTypeOK
  <2> QED BY <1>1, <2>1 DEF ParserTypeOK
<1> QED BY <1>1, <1>2, <1>7, <1>8, CleanupStep

\* What cJSON_Delete is about to free is live, and no caller is freeing it.
LEMMA VictimLive ==
    ASSUME ParserInv, Deleting
    PROVE  /\ pc = "fail"
           /\ del \in Seq(Deletes) /\ Len(del) \in Nat /\ Len(del) > 0
           /\ DOMAIN del = 1..Len(del) /\ Len(del) \in DOMAIN del
           /\ Victim \in Deletes
           /\ Victim.item # 0 =>
                /\ Victim.item \in DOMAIN nodes
                /\ \A i \in DOMAIN del : del[i].item = Victim.item => i = Len(del)
                /\ EnteredIn(del, Victim.item) = Victim.entered
<1> USE DEF ParserInv
<1>1. del \in Seq(Deletes) /\ del # <<>> /\ pc = "fail"
  BY DEF Deleting, Placed, ParserTypeOK
<1>2. /\ Len(del) \in Nat /\ Len(del) > 0 /\ DOMAIN del = 1..Len(del)
      /\ Len(del) \in DOMAIN del
  BY <1>1
<1>3. Victim \in Deletes
  BY <1>1, <1>2 DEF Victim
<1>4. ASSUME Victim.item # 0
      PROVE  /\ Victim.item \in DOMAIN nodes
             /\ \A i \in DOMAIN del : del[i].item = Victim.item => i = Len(del)
  <2> DEFINE P == Ptr(root, stack, del, nodes)
             d == <<"delete", Len(del)>>
  <2>1. \A i \in DOMAIN del : /\ <<"delete", i>> \in DOMAIN P
                              /\ P[<<"delete", i>>] = del[i].item
                              /\ ~StringSlot(<<"delete", i>>)
    <3> SUFFICES ASSUME NEW i \in DOMAIN del
                 PROVE  /\ <<"delete", i>> \in DOMAIN P
                        /\ P[<<"delete", i>>] = del[i].item
                        /\ ~StringSlot(<<"delete", i>>)
      OBVIOUS
    <3> QED BY DeleteSlot
  <2>2. WellOwned(P, DOMAIN nodes, DOMAIN strings)
    BY DEF Owned
  <2> HIDE DEF P
  <2>3. d \in DOMAIN P /\ P[d] = Victim.item /\ ~StringSlot(d)
    BY <1>2, <2>1 DEF Victim
  <2>4. Victim.item \in DOMAIN nodes
    <3> HIDE DEF d
    <3> QED BY <1>4, <2>2, <2>3 DEF WellOwned
  <2>5. ASSUME NEW i \in DOMAIN del, del[i].item = Victim.item
        PROVE  i = Len(del)
    <3> DEFINE s == <<"delete", i>>
    <3>1. s \in DOMAIN P /\ P[s] = P[d] /\ P[d] # 0
      BY <1>4, <2>1, <2>3, <2>5
    <3>2. s = d
      <4> HIDE DEF s, d
      <4> QED BY <2>2, <2>3, <3>1 DEF WellOwned
    <3> QED BY <3>2
  <2> QED BY <2>4, <2>5
<1>5. ASSUME Victim.item # 0
      PROVE  EnteredIn(del, Victim.item) = Victim.entered
  <2>1. EnteredIn(del, Victim.item) <=> Victim.entered
    BY <1>2, <1>4, <1>5 DEF EnteredIn, Victim
  <2>2. Victim.entered \in BOOLEAN
    BY <1>3 DEF Deletes
  <2> QED BY <2>1, <2>2 DEF EnteredIn
<1> QED BY <1>1, <1>2, <1>3, <1>4, <1>5

LEMMA DeleteChildInv == ParserInv /\ DeleteChild => ParserInv'
<1> SUFFICES ASSUME ParserInv, DeleteChild
             PROVE  ParserInv'
  OBVIOUS
<1> USE DEF ParserInv
<1> DEFINE n == Victim.item
           c == nodes[n].child
           k == Len(del)
           marked == [del EXCEPT ![k].entered = TRUE]
           v == <<"child", n>>
           w == <<"delete", k + 1>>
           P == Ptr(root, stack, del, nodes)
           Q == Ptr(root', stack', del', nodes')
<1>1. /\ Deleting /\ n # 0 /\ Victim.entered = FALSE /\ c # 0
      /\ del' = marked \o Delete(c)
      /\ UNCHANGED <<pc, text, pos, root, stack, nodes, strings, fresh, starved>>
  <2>1. Victim.entered \in BOOLEAN
    BY VictimLive DEF DeleteChild, Deletes
  <2> QED BY <2>1 DEF DeleteChild
<1>2. /\ pc = "fail" /\ del \in Seq(Deletes) /\ k \in Nat /\ k > 0
      /\ DOMAIN del = 1..k /\ k \in DOMAIN del /\ Victim \in Deletes
      /\ Victim = del[k] /\ n \in DOMAIN nodes
      /\ ~EnteredIn(del, n)
  BY <1>1, VictimLive DEF Victim
<1>3. c \in Nat
  BY <1>2 DEF ParserTypeOK, Nodes
<1> HIDE DEF n, c, k
<1>4. /\ marked \in Seq(Deletes) /\ Len(marked) = k
      /\ \A i \in 1..k : marked[i].item = del[i].item
      /\ \A i \in 1..k : i # k => marked[i] = del[i]
      /\ marked[k].entered = TRUE
  <2> DEFINE e == [Victim EXCEPT !.entered = TRUE]
  <2>1. e \in Deletes /\ e.item = Victim.item /\ e.entered = TRUE
    BY <1>2 DEF Deletes
  <2>2. marked = [del EXCEPT ![k] = e]
    BY <1>2
  <2> HIDE DEF e, marked
  <2>3. /\ marked \in Seq(Deletes) /\ DOMAIN marked = DOMAIN del
        /\ marked[k] = e /\ \A i \in 1..k : i # k => marked[i] = del[i]
    BY <1>2, <2>1, <2>2
  <2>4. Len(marked) = k
    BY <1>2, <2>3
  <2>5. \A i \in 1..k : marked[i].item = del[i].item
    BY <1>2, <2>1, <2>3
  <2> QED BY <2>1, <2>3, <2>4, <2>5
<1> HIDE DEF marked
<1>5. /\ del' \in Seq(Deletes) /\ DOMAIN del' = 1..k+1
      /\ \A i \in 1..k : del'[i].item = del[i].item
      /\ \A i \in 1..k : i # k => del'[i] = del[i]
      /\ del'[k].entered = TRUE
      /\ del'[k + 1] = [item |-> c, entered |-> FALSE]
  <2> DEFINE e == [item |-> c, entered |-> FALSE]
  <2>1. e \in Deletes
    BY <1>3 DEF Deletes
  <2> HIDE DEF e
  <2>2. del' = Append(marked, e)
    BY <1>1, <1>4, <2>1 DEF Delete, e
  <2>3. del' \in Seq(Deletes) /\ Len(del') = k + 1 /\ del'[k + 1] = e
        /\ \A i \in 1..k : del'[i] = marked[i]
    BY <1>2, <1>4, <2>1, <2>2
  <2>4. DOMAIN del' = 1..k+1 /\ k \in 1..k
    BY <1>2, <2>3
  <2> QED BY <1>4, <2>3, <2>4 DEF e
<1>6. \A m : m # n => (EnteredIn(del', m) <=> EnteredIn(del, m))
  <2> SUFFICES ASSUME NEW m, m # n
               PROVE  EnteredIn(del', m) <=> EnteredIn(del, m)
    OBVIOUS
  <2>1. del[k].item = n
    BY <1>2 DEF n
  <2>2. \A i \in 1..k+1 : i \in 1..k \/ i = k + 1
    BY <1>2
  <2>3. \A i \in 1..k : i \in 1..k+1
    BY <1>2
  <2> QED BY <1>2, <1>5, <2>1, <2>2, <2>3 DEF EnteredIn
<1>7. EnteredIn(del', n)
  <2>1. del[k].item = n /\ k \in 1..k+1 /\ k \in 1..k
    BY <1>2 DEF n
  <2> QED BY <1>2, <1>5, <2>1 DEF EnteredIn
<1>8. v \in DOMAIN P /\ P[v] = c /\ ~StringSlot(v) /\ v \notin DOMAIN Q
  BY <1>1, <1>2, <1>7, KidSlot DEF c
<1>9. w \in DOMAIN Q /\ Q[w] = c /\ ~StringSlot(w)
  <2>1. k + 1 \in DOMAIN del' /\ del'[k + 1].item = c
    BY <1>2, <1>5
  <2> QED BY <2>1, DeleteSlot
<1>10. Carried(root, stack, del, nodes, root', stack', del', nodes', {v})
  <2>1. \A i \in DOMAIN del : i \in DOMAIN del' /\ del'[i].item = del[i].item
    BY <1>2, <1>5
  <2>2. \A m \in DOMAIN nodes : <<"child", m>> # v /\ ~EnteredIn(del, m)
           => ~EnteredIn(del', m)
    BY <1>6
  <2> HIDE DEF v
  <2> QED BY <1>1, <2>1, <2>2 DEF Carried
<1>11. Carried(root', stack', del', nodes', root, stack, del, nodes, {w})
  <2>1. ASSUME NEW i \in DOMAIN del', <<"delete", i>> # w
        PROVE  i \in DOMAIN del /\ del[i].item = del'[i].item
    <3>1. i # k + 1
      BY <2>1
    <3> QED BY <1>2, <1>5, <3>1
  <2>2. \A m \in DOMAIN nodes : ~EnteredIn(del', m) => ~EnteredIn(del, m)
    BY <1>6, <1>7
  <2> HIDE DEF w
  <2> QED BY <1>1, <2>1, <2>2 DEF Carried
<1>12. Owned'
  <2>1. WellOwned(P, DOMAIN nodes, DOMAIN strings)
    BY DEF Owned
  <2>2. DOMAIN nodes' = DOMAIN nodes /\ DOMAIN strings' = DOMAIN strings
    BY <1>1
  <2>3. Q[w] = P[v]
    BY <1>8, <1>9
  <2>4. WellOwned(Q, DOMAIN nodes', DOMAIN strings)
    <3> HIDE DEF v, w
    <3> QED BY <1>8, <1>9, <1>10, <1>11, <2>1, <2>2, <2>3, MoveItem
  <2> QED BY <2>2, <2>4 DEF Owned
<1>13. /\ root' \in Nat /\ stack' \in Seq(Frames) /\ Len(stack') <= Len(stack)
       /\ nodes' = [m \in DOMAIN nodes' |-> nodes[m]]
       /\ strings' = [m \in DOMAIN strings' |-> strings[m]]
       /\ DOMAIN nodes' \subseteq DOMAIN nodes
       /\ DOMAIN strings' \subseteq DOMAIN strings
  <2>1. stack \in Seq(Frames) /\ Len(stack) \in Nat
    BY DEF ParserTypeOK
  <2> QED BY <1>1, <2>1 DEF ParserTypeOK
<1> QED BY <1>1, <1>2, <1>5, <1>12, <1>13, CleanupStep

LEMMA DeleteReturnsInv == ParserInv /\ DeleteReturns => ParserInv'
<1> SUFFICES ASSUME ParserInv, DeleteReturns
             PROVE  ParserInv'
  OBVIOUS
<1> USE DEF ParserInv
<1> DEFINE k == Len(del)
           P == Ptr(root, stack, del, nodes)
           Q == Ptr(root', stack', del', nodes')
<1>1. /\ Deleting /\ Victim.item = 0 /\ del' = Front(del)
      /\ UNCHANGED <<pc, text, pos, root, stack, nodes, strings, fresh, starved>>
  BY DEF DeleteReturns
<1>2. /\ pc = "fail" /\ del \in Seq(Deletes) /\ k \in Nat /\ k > 0
      /\ DOMAIN del = 1..k /\ del[k].item = 0
  BY <1>1, VictimLive DEF Victim
<1>3. /\ del' \in Seq(Deletes) /\ DOMAIN del' = 1..k-1
      /\ \A i \in 1..k-1 : del'[i] = del[i]
  BY <1>1, <1>2, FrontFrames
<1> HIDE DEF k
<1>4. \A i \in DOMAIN del : del[i].item = 0 \/
        (i \in DOMAIN del' /\ del'[i] = del[i])
  BY <1>2, <1>3
<1>5. \A i \in DOMAIN del' : i \in DOMAIN del /\ del'[i] = del[i]
  BY <1>2, <1>3
<1>6. \A m \in DOMAIN nodes : EnteredIn(del', m) <=> EnteredIn(del, m)
  <2>1. \A m \in DOMAIN nodes : m # 0
    BY DEF ParserTypeOK
  <2> QED BY <1>4, <1>5, <2>1 DEF EnteredIn
<1>7. Carried(root, stack, del, nodes, root', stack', del', nodes', {})
  BY <1>1, <1>4, <1>6 DEF Carried
<1>8. Carried(root', stack', del', nodes', root, stack, del, nodes, {})
  BY <1>1, <1>5, <1>6 DEF Carried
<1>9. Owned'
  <2>1. WellOwned(P, DOMAIN nodes, DOMAIN strings)
    BY DEF Owned
  <2>2. DOMAIN nodes' = DOMAIN nodes /\ DOMAIN strings' = DOMAIN strings
    BY <1>1
  <2>3. WellOwned(Q, DOMAIN nodes', DOMAIN strings)
    BY <1>7, <1>8, <2>1, <2>2, SameItems
  <2> QED BY <2>2, <2>3 DEF Owned
<1>10. /\ root' \in Nat /\ stack' \in Seq(Frames) /\ Len(stack') <= Len(stack)
       /\ nodes' = [m \in DOMAIN nodes' |-> nodes[m]]
       /\ strings' = [m \in DOMAIN strings' |-> strings[m]]
       /\ DOMAIN nodes' \subseteq DOMAIN nodes
       /\ DOMAIN strings' \subseteq DOMAIN strings
  <2>1. stack \in Seq(Frames) /\ Len(stack) \in Nat
    BY DEF ParserTypeOK
  <2> QED BY <1>1, <2>1 DEF ParserTypeOK
<1> QED BY <1>1, <1>2, <1>3, <1>9, <1>10, CleanupStep

LEMMA DeleteItemInv == ParserInv /\ DeleteItem => ParserInv'
<1> SUFFICES ASSUME ParserInv, DeleteItem
             PROVE  ParserInv'
  OBVIOUS
<1> USE DEF ParserInv
<1> DEFINE n == Victim.item
           x == nodes[n].valuestring
           y == nodes[n].string
           z == nodes[n].next
           k == Len(del)
           e == [item |-> z, entered |-> FALSE]
           d == <<"delete", k>>
           next == <<"next", n>>
           s1 == <<"valuestring", n>>
           s2 == <<"string", n>>
           P == Ptr(root, stack, del, nodes)
           Q == Ptr(root', stack', del', nodes')
<1>1. /\ Deleting /\ n # 0 /\ (Victim.entered \/ nodes[n].child = 0)
      /\ strings' = Free(strings, {x, y})
      /\ nodes' = Free(nodes, {n})
      /\ del' = [del EXCEPT ![k] = e]
      /\ UNCHANGED <<pc, text, pos, root, stack, fresh, starved>>
  BY DEF DeleteItem
<1>2. Deleting /\ n # 0 /\ (Victim.entered \/ nodes[n].child = 0)
  BY DEF DeleteItem
<1>3. /\ pc = "fail" /\ del \in Seq(Deletes) /\ k \in Nat /\ k > 0
      /\ DOMAIN del = 1..k /\ k \in 1..k /\ del[k].item = n /\ n \in DOMAIN nodes
      /\ EnteredIn(del, n) = Victim.entered
      /\ \A i \in 1..k : del[i].item = n => i = k
  BY <1>2, VictimLive DEF Victim
<1>4. /\ DOMAIN nodes' = DOMAIN nodes \ {n}
      /\ \A m \in DOMAIN nodes' : nodes'[m] = nodes[m]
      /\ nodes' = [m \in DOMAIN nodes' |-> nodes[m]]
      /\ DOMAIN strings' = DOMAIN strings \ {x, y}
      /\ strings' = [m \in DOMAIN strings' |-> strings[m]]
  <2> HIDE DEF n, x, y
  <2> QED BY <1>1 DEF Free
<1>5. e \in Deletes /\ e.item = z /\ e.entered = FALSE
  BY <1>3 DEF ParserTypeOK, Nodes, Deletes
<1> HIDE DEF n, x, y, z, k, e
<1>7. /\ del' \in Seq(Deletes) /\ DOMAIN del' = 1..k /\ del'[k] = e
      /\ \A i \in 1..k : i # k => del'[i] = del[i]
  BY <1>1, <1>3, <1>5
<1>8. \A m : m # n /\ ~EnteredIn(del, m) => ~EnteredIn(del', m)
  BY <1>3, <1>5, <1>7 DEF EnteredIn
<1>9. \A m : m # n /\ ~EnteredIn(del', m) => ~EnteredIn(del, m)
  BY <1>3, <1>5, <1>7 DEF EnteredIn
<1>10. /\ d \in DOMAIN P /\ P[d] = n /\ ~StringSlot(d)
       /\ d \in DOMAIN Q /\ Q[d] = z
  <2>1. d \in DOMAIN P /\ P[d] = n /\ ~StringSlot(d)
    BY <1>3, DeleteSlot
  <2>2. d \in DOMAIN Q /\ Q[d] = del'[k].item
    BY <1>3, <1>7, DeleteSlot
  <2> QED BY <1>5, <1>7, <2>1, <2>2
<1>11. next \in DOMAIN P /\ P[next] = z /\ ~StringSlot(next) /\ next \notin DOMAIN Q
  BY <1>3, <1>4, NextSlot DEF z
<1>12. /\ s1 \in DOMAIN P /\ P[s1] = x /\ StringSlot(s1) /\ s1 \notin DOMAIN Q
       /\ s2 \in DOMAIN P /\ P[s2] = y /\ StringSlot(s2) /\ s2 \notin DOMAIN Q
  <2>1. s1 \in DOMAIN P /\ P[s1] = x /\ StringSlot(s1) /\ s1 \notin DOMAIN Q
    BY <1>3, <1>4, ValueSlot DEF x
  <2>2. s2 \in DOMAIN P /\ P[s2] = y /\ StringSlot(s2) /\ s2 \notin DOMAIN Q
    BY <1>3, <1>4, NameSlot DEF y
  <2> QED BY <2>1, <2>2
<1> HIDE DEF d, next, s1, s2
<1>13. Carried(root, stack, del, nodes, root', stack', del', nodes', {d, next, s1, s2})
  <2>1. \A i \in DOMAIN del : <<"delete", i>> \notin {d, next, s1, s2} =>
          i \in DOMAIN del' /\ del'[i].item = del[i].item
    BY <1>3, <1>7 DEF d
  <2>2. ASSUME NEW m \in DOMAIN nodes
        PROVE  /\ <<"next", m>> \notin {d, next, s1, s2} => m # n
               /\ <<"valuestring", m>> \notin {d, next, s1, s2} => m # n
               /\ <<"string", m>> \notin {d, next, s1, s2} => m # n
    BY DEF next, s1, s2
  <2>3. ASSUME NEW m \in DOMAIN nodes, ~EnteredIn(del, m)
        PROVE  \/ nodes[m].child = 0
               \/ /\ m \in DOMAIN nodes' /\ ~EnteredIn(del', m)
                  /\ nodes'[m].child = nodes[m].child
    <3>1. CASE m = n
      BY <1>2, <1>3, <2>3, <3>1
    <3>2. CASE m # n
      BY <1>4, <1>8, <2>3, <3>2
    <3> QED BY <3>1, <3>2
  <2>4. \A m \in DOMAIN nodes : m # n => m \in DOMAIN nodes' /\ nodes'[m] = nodes[m]
    BY <1>4
  <2>5. root' = root /\ stack' = stack
    BY <1>1
  <2> QED BY <2>1, <2>2, <2>3, <2>4, <2>5 DEF Carried
<1>14. Carried(root', stack', del', nodes', root, stack, del, nodes, {d})
  <2>1. \A i \in DOMAIN del' : <<"delete", i>> # d =>
          i \in DOMAIN del /\ del'[i].item = del[i].item
    BY <1>3, <1>7 DEF d
  <2>2. \A m \in DOMAIN nodes' : m # n /\ m \in DOMAIN nodes /\ nodes'[m] = nodes[m]
    BY <1>4
  <2>3. \A m \in DOMAIN nodes' : ~EnteredIn(del', m) => ~EnteredIn(del, m)
    BY <1>9, <2>2
  <2>4. root' = root /\ stack' = stack
    BY <1>1
  <2> QED BY <2>1, <2>2, <2>3, <2>4 DEF Carried
<1>15. Owned'
  <2>1. WellOwned(P, DOMAIN nodes, DOMAIN strings)
    BY DEF Owned
  <2>2. \A s \in DOMAIN P \ {d, next, s1, s2} : Kept(P, Q, s)
    BY <1>13, KeptSlots
  <2>3. \A s \in DOMAIN Q \ {d} : Kept(Q, P, s)
    BY <1>14, KeptSlots
  <2> HIDE DEF P, Q
  <2>4. P[d] # 0 /\ Q[d] = P[next]
    BY <1>2, <1>10, <1>11
  <2>5. WellOwned(Q, DOMAIN nodes \ {P[d]}, DOMAIN strings \ {P[s1], P[s2]})
    BY <1>10, <1>11, <1>12, <2>1, <2>2, <2>3, <2>4, RemoveItem
  <2>6. WellOwned(Q, DOMAIN nodes', DOMAIN strings')
    BY <1>4, <1>10, <1>12, <2>5
  <2> QED BY <2>6 DEF Owned, Q
<1>16. /\ root' \in Nat /\ stack' \in Seq(Frames) /\ Len(stack') <= Len(stack)
       /\ DOMAIN nodes' \subseteq DOMAIN nodes
       /\ DOMAIN strings' \subseteq DOMAIN strings
  <2>1. stack \in Seq(Frames) /\ Len(stack) \in Nat
    BY DEF ParserTypeOK
  <2> QED BY <1>1, <1>4, <2>1 DEF ParserTypeOK
<1> QED BY <1>1, <1>3, <1>4, <1>7, <1>15, <1>16, CleanupStep

(***************************************************************************)
(* The invariant is inductive.                                             *)
(***************************************************************************)
LEMMA NothingOwned ==
    ASSUME NEW st, NEW d, NEW h, NEW M,
           DOMAIN st = {}, DOMAIN d = {}, DOMAIN h = {}, M = {}
    PROVE  WellOwned(Ptr(0, st, d, h), DOMAIN h, M)
<1> DEFINE P == Ptr(0, st, d, h)
<1>1. \A s \in DOMAIN P : P[s] = 0
  <2>1. \A s \in DOMAIN P : s = <<"root", 0>>
    BY SlotKinds
  <2>2. P[<<"root", 0>>] = 0
    BY RootSlot
  <2> HIDE DEF P
  <2> QED BY <2>1, <2>2
<1> HIDE DEF P
<1>2. WellOwned(P, DOMAIN h, M)
  BY <1>1 DEF WellOwned
<1> QED BY <1>2 DEF P

LEMMA EmptyHeap == ASSUME NEW S PROVE <<>> \in [DOMAIN <<>> -> S]
<1>1. <<>> \in Seq(S) /\ Len(<<>>) = 0
  OBVIOUS
<1> QED BY <1>1, SMT

LEMMA IdleInv ==
    ASSUME pc \in {"start", "done"}, text \in Buffers, pos = 1, root = 0,
           stack = <<>>, nodes = <<>>, strings = <<>>, fresh = 1, del = <<>>,
           starved = FALSE
    PROVE  ParserInv
<1>1. DOMAIN nodes = {} /\ DOMAIN strings = {} /\ DOMAIN stack = {} /\ DOMAIN del = {}
  OBVIOUS
<1>2. pos \in 1..Len(text) + 1
  <2>1. text \in Seq(Tokens)
    BY DEF Buffers
  <2> QED BY <2>1
<1>3. Depth = 0 /\ Depth <= NestingLimit
  <2>1. NestingLimit \in Nat
    BY ParserAssumption
  <2> QED BY <2>1 DEF Depth
<1>4. ParserTypeOK
  <2>1. nodes \in [DOMAIN nodes -> Nodes] /\ strings \in [DOMAIN strings -> Strings]
    BY EmptyHeap
  <2>2. stack \in Seq(Frames) /\ del \in Seq(Deletes)
    OBVIOUS
  <2>3. pc \in ParserPcs /\ starved \in BOOLEAN /\ root \in Nat
    BY DEF ParserPcs
  <2>4. /\ DOMAIN nodes \cup DOMAIN strings \subseteq 1..fresh-1
        /\ fresh \in Nat \ {0}
    BY <1>1
  <2>5. text \in Buffers
    OBVIOUS
  <2> QED BY <1>2, <1>3, <2>1, <2>2, <2>3, <2>4, <2>5 DEF ParserTypeOK
<1>5. Placed /\ Growing /\ ~Reading
  BY <1>1 DEF Placed, Growing, Reading, NameInBounds
<1>6. Owned
  BY <1>1, NothingOwned DEF Owned
<1> QED BY <1>4, <1>5, <1>6 DEF ParserInv

LEMMA InitInv == ParserInit => ParserInv
BY IdleInv DEF ParserInit

\* A call of cJSON_Parse in a process that has not called it before.
LEMMA ParseInv ==
    ASSUME NEW value \in Seq(Tokens), Parse(value)
    PROVE  ParserInv'
<1> USE DEF Parse
<1>0. PICK n \in 0..Len(value) : text' = Append(SubSeq(value, 1, n), Null)
  OBVIOUS
<1>1. /\ DOMAIN nodes' = {} /\ DOMAIN strings' = {}
      /\ DOMAIN stack' = {} /\ DOMAIN del' = {}
  OBVIOUS
<1>2. text' \in Buffers /\ text' \in Seq(Tokens) /\ Len(text') \in Nat /\ Len(text') > 0
  <2> DEFINE before == SubSeq(value, 1, n)
  <2>1. before \in Seq(Tokens)
    OBVIOUS
  <2>2. Null \in Tokens
    BY DEF Tokens, Blanks
  <2> HIDE DEF before
  <2>3. text' = Append(before, Null)
    BY <1>0 DEF before
  <2>4. /\ text' \in Seq(Tokens) /\ Len(text') = Len(before) + 1
        /\ text'[Len(before) + 1] = Null /\ Len(before) \in Nat
    BY <2>1, <2>2, <2>3
  <2> DEFINE k == Len(before)
             t == text'
  <2>5. t \in Seq(Tokens) /\ Len(t) = k + 1 /\ t[k + 1] = Null /\ k \in Nat
    BY <2>4
  <2> HIDE DEF k, t
  <2>6. t # <<>> /\ t[Len(t)] = Null /\ Len(t) \in Nat /\ Len(t) > 0
    BY <2>5
  <2> QED BY <2>5, <2>6 DEF Buffers, t
<1>3. pos' \in 1..Len(text') + 1
  BY <1>2
<1>4. Depth' = 0 /\ Depth' <= NestingLimit
  <2>1. NestingLimit \in Nat
    BY ParserAssumption
  <2> QED BY <2>1 DEF Depth
<1>5. ParserTypeOK'
  <2>1. /\ nodes' \in [DOMAIN nodes' -> Nodes]
        /\ strings' \in [DOMAIN strings' -> Strings]
    BY EmptyHeap
  <2>2. stack' \in Seq(Frames) /\ del' \in Seq(Deletes)
    OBVIOUS
  <2>3. pc' \in ParserPcs /\ starved' \in BOOLEAN /\ root' \in Nat
    BY DEF ParserPcs
  <2>4. /\ DOMAIN nodes' \cup DOMAIN strings' \subseteq 1..fresh'-1
        /\ fresh' \in Nat \ {0}
    BY <1>1
  <2>5. text' \in Buffers
    BY <1>2
  <2> HIDE DEF Parse
  <2> QED BY <1>3, <1>4, <2>1, <2>2, <2>3, <2>4, <2>5 DEF ParserTypeOK
<1>6. Placed' /\ Growing' /\ ~Reading'
  BY <1>1 DEF Placed, Growing, Reading, NameInBounds
<1>7. Owned'
  BY <1>1, NothingOwned DEF Owned
<1> QED BY <1>5, <1>6, <1>7 DEF ParserInv

LEMMA StepInv == ParserInv /\ [ParserNext]_parserVars => ParserInv'
<1> SUFFICES ASSUME ParserInv, [ParserNext]_parserVars
             PROVE  ParserInv'
  OBVIOUS
<1>1. CASE UNCHANGED parserVars
  BY <1>1 DEF parserVars, ParserInv, ParserTypeOK, Placed, Growing, Reading,
              ChainInv, Current, Owned, Chain, Depth, NameInBounds, CanAccess
<1>2. CASE ParserNext
  BY <1>2, BeginInv, ReadPlainInv, ReadStringInv, OpenEmptyInv, OpenInv,
     NextElementInv, ReadNameInv, ReadColonInv, CommaInv, CloseInv, FinishInv,
     StarveInv, RefuseInv, UnwindInv, DeleteRootInv, ReturnNullInv,
     DeleteChildInv, DeleteItemInv, DeleteReturnsInv
  DEF ParserNext
<1> QED BY <1>1, <1>2

(***************************************************************************)
(* What the invariant says of leaks.                                       *)
(***************************************************************************)
LEMMA SlotsArePtr ==
    /\ Slots = DOMAIN Ptr(root, stack, del, nodes)
    /\ \A s \in Slots : Pointer(s) = Ptr(root, stack, del, nodes)[s]
<1>1. Slots = SlotSet(stack, del, nodes)
  BY DEF Slots, SlotSet, Entered, EnteredIn
<1>2. \A s : Pointer(s) = Target(root, stack, del, nodes, s)
  BY DEF Pointer, Target
<1> QED BY <1>1, <1>2 DEF Ptr

LEMMA OwnersCount ==
    ASSUME NEW S, NEW T, NEW P, NEW k \in Nat, T \subseteq 1..k,
           S \subseteq DOMAIN P,
           {P[s] : s \in S} = T,
           \A s, t \in S : P[s] = P[t] => s = t
    PROVE  Cardinality(S) = Cardinality(T)
<1> DEFINE f == [s \in S |-> P[s]]
<1>1. f \in [S -> T] /\ \A s, t \in S : f[s] = f[t] => s = t
  OBVIOUS
<1>2. f \in Injection(S, T)
  BY <1>1 DEF Injection, IsInjective
<1>3. f \in Surjection(S, T)
  BY <1>1 DEF Surjection
<1>4. IsFiniteSet(T)
  <2>1. IsFiniteSet(1..k) /\ T \in SUBSET (1..k)
    BY FS_Interval
  <2> QED BY <2>1, FS_Subset
<1> QED BY <1>2, <1>3, <1>4, FS_Injection

LEMMA OwnedOnce == ParserInv => OneOwner
<1> SUFFICES ASSUME ParserInv
             PROVE  OneOwner
  OBVIOUS
<1> DEFINE P == Ptr(root, stack, del, nodes)
           N == DOMAIN nodes
           M == DOMAIN strings
           S == Owners(FALSE)
           T == Owners(TRUE)
<1>1. WellOwned(P, N, M)
  BY DEF ParserInv, Owned
<1>2. Slots = DOMAIN P /\ \A s \in Slots : Pointer(s) = P[s]
  BY SlotsArePtr
<1>3. \A s : StringSlot(s) \in BOOLEAN
  BY DEF StringSlot
<1> HIDE DEF P
<1>4. /\ S = {s \in DOMAIN P : P[s] # 0 /\ ~StringSlot(s)}
      /\ T = {s \in DOMAIN P : P[s] # 0 /\ StringSlot(s)}
      /\ {Pointer(s) : s \in S} = {P[s] : s \in S}
      /\ {Pointer(s) : s \in T} = {P[s] : s \in T}
  BY <1>2, <1>3 DEF Owners
<1> HIDE DEF S, T
<1>5. {P[s] : s \in S} = N /\ {P[s] : s \in T} = M
  <2>1. (\A s \in S : P[s] \in N) /\ (\A s \in T : P[s] \in M)
    BY <1>1, <1>4 DEF WellOwned
  <2>2. \A b \in N : \E s \in S : P[s] = b
    BY <1>1, <1>4 DEF WellOwned
  <2>3. \A b \in M : \E s \in T : P[s] = b
    BY <1>1, <1>4 DEF WellOwned
  <2> QED BY <2>1, <2>2, <2>3
<1>6. /\ \A s, t \in S : P[s] = P[t] => s = t
      /\ \A s, t \in T : P[s] = P[t] => s = t
      /\ S \subseteq DOMAIN P /\ T \subseteq DOMAIN P
  BY <1>1, <1>4 DEF WellOwned
<1>7. N \subseteq 1..fresh-1 /\ M \subseteq 1..fresh-1 /\ fresh - 1 \in Nat
  BY DEF ParserInv, ParserTypeOK
<1> HIDE DEF N, M
<1>8. Cardinality(S) = Cardinality(N)
  BY <1>5, <1>6, <1>7, OwnersCount
<1>9. Cardinality(T) = Cardinality(M)
  BY <1>5, <1>6, <1>7, OwnersCount
<1> QED BY <1>4, <1>5, <1>8, <1>9 DEF OneOwner, S, T, N, M

LEMMA LeastNatural ==
    ASSUME NEW T, T \subseteq Nat, T # {}
    PROVE  \E x \in T : \A y \in T : x <= y
<1> DEFINE R == OpToRel(<, Nat)
<1>1. \A x, y \in Nat : y < x => <<y, x>> \in R
  BY DEF OpToRel
<1>2. IsWellFoundedOn(R, Nat)
  BY NatLessThanWellFounded
<1> HIDE DEF R
<1>3. PICK x \in T : \A y \in T : ~(<<y, x>> \in R)
  BY <1>2, WFMin
<1>4. \A y \in T : ~(y < x)
  BY <1>1, <1>3
<1> QED BY <1>4

\* When nothing is left on the stack, what is left on the heap owns itself;
\* the oldest item, though, can be owned by none of the others.
LEMMA NothingLeft == ParserInv => NoLeak
<1> SUFFICES ASSUME ParserInv, pc = "done", root = 0
             PROVE  DOMAIN nodes = {} /\ DOMAIN strings = {}
  BY DEF NoLeak
<1> DEFINE P == Ptr(root, stack, del, nodes)
           N == DOMAIN nodes
           M == DOMAIN strings
<1>1. stack = <<>> /\ del = <<>>
  BY DEF ParserInv, Placed
<1>2. WellOwned(P, N, M)
  BY DEF ParserInv, Owned
<1>3. \A s \in DOMAIN P : P[s] # 0 => \E n \in N :
        \/ s \in {<<"valuestring", n>>, <<"string", n>>}
        \/ s = <<"next", n>> /\ P[s] = nodes[n].next
        \/ s = <<"child", n>> /\ P[s] = nodes[n].child
  <2> SUFFICES ASSUME NEW s \in DOMAIN P, P[s] # 0
               PROVE  \E n \in N :
                        \/ s \in {<<"valuestring", n>>, <<"string", n>>}
                        \/ s = <<"next", n>> /\ P[s] = nodes[n].next
                        \/ s = <<"child", n>> /\ P[s] = nodes[n].child
    OBVIOUS
  <2>1. s # <<"root", 0>>
    BY RootSlot
  <2>2. DOMAIN stack = {} /\ DOMAIN del = {}
    BY <1>1
  <2>3. ASSUME NEW n \in N
        PROVE  P[<<"next", n>>] = nodes[n].next
    BY NextSlot
  <2>4. ASSUME NEW n \in N, ~EnteredIn(del, n)
        PROVE  P[<<"child", n>>] = nodes[n].child
    BY <2>4, KidSlot
  <2>5. \/ \E n \in N : s \in {<<"next", n>>, <<"valuestring", n>>, <<"string", n>>}
        \/ \E n \in N : ~EnteredIn(del, n) /\ s = <<"child", n>>
    BY <2>1, <2>2, SlotKinds
  <2> HIDE DEF P, N
  <2> QED BY <2>3, <2>4, <2>5
<1> HIDE DEF P
<1>4. N = {}
  <2> SUFFICES ASSUME N # {}
               PROVE  FALSE
    OBVIOUS
  <2>1. N \subseteq Nat
    BY DEF ParserInv, ParserTypeOK
  <2>2. PICK b \in N : \A n \in N : b <= n
    <3> HIDE DEF N
    <3> QED BY <2>1, LeastNatural
  <2>3. PICK s \in DOMAIN P : P[s] = b
    BY <1>2 DEF WellOwned
  <2>4. b # 0 /\ ~StringSlot(s)
    BY <1>2, <2>3 DEF WellOwned
  <2>5. PICK n \in N : nodes[n].next = b \/ nodes[n].child = b
    BY <1>3, <2>3, <2>4 DEF StringSlot
  <2>6. n < b
    BY <2>4, <2>5 DEF ParserInv, Growing
  <2>7. n \in Nat /\ b \in Nat
    BY <2>1
  <2> HIDE DEF N
  <2> QED BY <2>2, <2>6, <2>7
<1>5. M = {}
  BY <1>2, <1>3, <1>4 DEF WellOwned
<1> QED BY <1>4, <1>5

-----------------------------------------------------------------------------
LEMMA InvAlways == ParserSpec => []ParserInv
BY InitInv, StepInv, PTL DEF ParserSpec

\* For every text, nesting limit and failing allocation: the variables keep
\* their types, the offset stays in the buffer, and the nesting has its limit.
THEOREM ParserTypeCorrect == ParserSpec => []ParserTypeOK
<1>1. ParserInv => ParserTypeOK
  BY DEF ParserInv
<1> QED BY <1>1, InvAlways, PTL

\* parse_object never reads behind its buffer for a name.
THEOREM NamesInBounds == ParserSpec => []NameInBounds
<1>1. ParserInv => NameInBounds
  BY DEF ParserInv, Placed
<1> QED BY <1>1, InvAlways, PTL

\* Each live block has one owner, wherever the parser fails: nothing is freed
\* twice, used after it is freed, or lost.
THEOREM BlocksHaveOneOwner == ParserSpec => []OneOwner
BY OwnedOnce, InvAlways, PTL

\* A parser that returns NULL has given back all it took.
THEOREM FailureLeaksNothing == ParserSpec => []NoLeak
BY NothingLeft, InvAlways, PTL

-----------------------------------------------------------------------------
(***************************************************************************)
(* What is proved of the parser holds wherever the programs use it: on a   *)
(* file without an end, and on what a recv() has cut off.                  *)
(***************************************************************************)

\* Every text that a program parses is made of tokens.
Texts == file \in Seq(Tokens) /\ sent \in Seq(Tokens)

ConfigInv == ParserInv /\ Texts

LEMMA TokensContinued ==
    ASSUME NEW k \in Tokens
    PROVE  Continued(k) \subseteq Tokens
BY DEF Continued, Tokens, Plain, Bad, Blanks, Brackets, Literals, Unsupported

LEMMA TokensCut ==
    ASSUME NEW k \in Tokens
    PROVE  CutShort(k) \subseteq Tokens
BY DEF CutShort, Tokens, Plain, Bad, Blanks, Brackets, Literals, Unsupported

LEMMA UnterminatedTokens ==
    ASSUME NEW t \in Seq(Tokens), NEW u \in Unterminated(t)
    PROVE  u \in Seq(Tokens)
<1>1. Garbage \subseteq Seq(Tokens)
  BY ConfigurationAssumption
<1>2. CASE t = <<>>
  BY <1>1, <1>2 DEF Unterminated
<1>3. CASE t # <<>>
  <2>1. Len(t) \in Nat /\ Len(t) > 0
    BY <1>3
  <2>2. Front(t) \in Seq(Tokens)
    BY <2>1, FrontFrames
  <2>3. Last(t) \in Tokens
    BY <2>1 DEF Last
  <2>4. PICK k \in Continued(Last(t)), g \in Garbage : u = RunOn(t, k, g)
    BY <1>3 DEF Unterminated
  <2>5. k \in Tokens /\ g \in Seq(Tokens)
    BY <1>1, <2>3, <2>4, TokensContinued
  <2> QED BY <2>2, <2>4, <2>5 DEF RunOn
<1> QED BY <1>2, <1>3

LEMMA ReceivedTokens ==
    ASSUME NEW t \in Seq(Tokens), NEW u \in Received(t)
    PROVE  u \in Seq(Tokens)
<1>1. CASE u = <<>>
  BY <1>1
<1>2. CASE u # <<>>
  <2>1. PICK n \in {m \in 1..RecvBuffer : m <= Len(t)} :
          u \in {Append(SubSeq(t, 1, n - 1), k) : k \in CutShort(t[n]) \cup {t[n]}}
    BY <1>2 DEF Received
  <2>2. PICK k \in CutShort(t[n]) \cup {t[n]} : u = Append(SubSeq(t, 1, n - 1), k)
    BY <2>1
  <2>3. n \in 1..Len(t) /\ t[n] \in Tokens
    BY <2>1, ConfigurationAssumption
  <2>4. k \in Tokens
    BY <2>2, <2>3, TokensCut
  <2>5. SubSeq(t, 1, n - 1) \in Seq(Tokens)
    BY <2>3
  <2> QED BY <2>2, <2>4, <2>5
<1> QED BY <1>1, <1>2

LEMMA ConfigInit == Init => ConfigInv
<1> SUFFICES ASSUME Init
             PROVE  ConfigInv
  OBVIOUS
<1> USE DEF Init
<1>1. text \in Buffers
  <2>1. Null \in Tokens
    BY DEF Tokens, Blanks
  <2>2. text \in Seq(Tokens) /\ text # <<>> /\ text[Len(text)] = Null
    BY <2>1
  <2> QED BY <2>2 DEF Buffers
<1>2. ParserInv
  <2>1. pc \in {"start", "done"}
    OBVIOUS
  <2> QED BY <1>1, <2>1, IdleInv
<1>3. Texts
  BY ConfigurationAssumption DEF Texts
<1> QED BY <1>2, <1>3 DEF ConfigInv

LEMMA ConfigQuiet ==
    ASSUME ConfigInv, UNCHANGED parserVars, UNCHANGED file, sent' \in Seq(Tokens)
    PROVE  ConfigInv'
<1>1. ParserInv'
  BY StepInv DEF ConfigInv
<1> QED BY <1>1 DEF ConfigInv, Texts

LEMMA ConfigStep == ConfigInv /\ [Next]_vars => ConfigInv'
<1> SUFFICES ASSUME ConfigInv, [Next]_vars
             PROVE  ConfigInv'
  OBVIOUS
<1>0. file \in Seq(Tokens) /\ sent \in Seq(Tokens)
  BY DEF ConfigInv, Texts
<1>1. CASE ReadFile
  <2>1. PICK t \in Unterminated(file) : Parse(t)
    BY <1>1 DEF ReadFile
  <2>2. ParserInv'
    BY <1>0, <2>1, UnterminatedTokens, ParseInv
  <2> QED BY <1>0, <1>1, <2>2 DEF ReadFile, ConfigInv, Texts
<1>2. CASE ReceiveStream
  <2>1. PICK t \in Received(sent) : \E u \in InBuffer(t) : Parse(u)
    BY <1>2 DEF ReceiveStream
  <2>2. PICK u \in InBuffer(t) : Parse(u)
    BY <2>1
  <2>3. t \in Seq(Tokens)
    BY <1>0, ReceivedTokens
  <2>4. u \in Seq(Tokens)
    BY <2>3, UnterminatedTokens DEF InBuffer
  <2>5. ParserInv'
    BY <2>2, <2>4, ParseInv
  <2> QED BY <1>0, <1>2, <2>5 DEF ReceiveStream, ConfigInv, Texts
<1>3. CASE Parsing
  <2>1. ParserInv'
    BY <1>3, StepInv DEF Parsing, ConfigInv
  <2> QED BY <1>0, <1>3, <2>1 DEF Parsing, configVars, ConfigInv, Texts
<1>4. CASE SendStream
  <2>1. PICK t \in Unterminated(file) : \E n \in 0..Len(t) : sent' = SubSeq(t, 1, n)
    BY <1>4 DEF SendStream
  <2>2. PICK n \in 0..Len(t) : sent' = SubSeq(t, 1, n)
    BY <2>1
  <2>3. sent' \in Seq(Tokens)
    <3>1. t \in Seq(Tokens)
      BY <1>0, UnterminatedTokens
    <3> QED BY <2>2, <3>1
  <2> QED BY <1>4, <2>3, ConfigQuiet DEF SendStream, Proceed
<1>5. CASE UNCHANGED vars
  BY <1>0, <1>5, ConfigQuiet DEF vars, configVars
<1>6. ASSUME \/ Parsed \/ LookUpPointer \/ LookUpNumber \/ NullPointer \/ Unchecked
             \/ Configured \/ NoAddress \/ CallFails \/ Stopped
      PROVE  ConfigInv'
  <2>1. UNCHANGED parserVars /\ file' = file /\ sent' = sent
    BY <1>6 DEF Parsed, LookUpPointer, LookUpNumber, Store, NullPointer, Unchecked,
                Crash, Configured, NoAddress, CallFails, Proceed, Stopped, vars,
                configVars
  <2> QED BY <1>0, <2>1, ConfigQuiet
<1> QED BY <1>1, <1>2, <1>3, <1>4, <1>5, <1>6 DEF Next

LEMMA ConfigAlways == Spec => []ConfigInv
BY ConfigInit, ConfigStep, PTL DEF Spec

\* In each program that parses a configuration, whatever the file holds and
\* wherever the text is cut: the parser's variables keep their types.
THEOREM ConfigParserTypeCorrect == Spec => []ParserTypeOK
<1>1. ConfigInv => ParserTypeOK
  BY DEF ConfigInv, ParserInv
<1> QED BY <1>1, ConfigAlways, PTL

\* In each of them, parse_object never reads behind the text for a name.
THEOREM ConfigNamesInBounds == Spec => []NameInBounds
<1>1. ConfigInv => NameInBounds
  BY DEF ConfigInv, ParserInv, Placed
<1> QED BY <1>1, ConfigAlways, PTL

\* In each of them, every live block has one owner: cJSON_Delete, and what
\* runs after it, frees nothing twice and loses nothing.
THEOREM ConfigBlocksHaveOneOwner == Spec => []OneOwner
<1>1. ConfigInv => OneOwner
  BY OwnedOnce DEF ConfigInv
<1> QED BY <1>1, ConfigAlways, PTL

\* In each of them, a parser that returns NULL has given back all it took.
THEOREM ConfigFailureLeaksNothing == Spec => []NoLeak
<1>1. ConfigInv => NoLeak
  BY NothingLeft DEF ConfigInv
<1> QED BY <1>1, ConfigAlways, PTL

-----------------------------------------------------------------------------
(***************************************************************************)
(* Induction and recursion.                                                *)
(***************************************************************************)
LEMMA Induction ==
    ASSUME NEW T, T \subseteq Nat, 0 \in T, \A n \in T : n + 1 \in T
    PROVE  T = Nat
<1> SUFFICES ASSUME Nat \ T # {}
             PROVE  FALSE
  OBVIOUS
<1>1. PICK n \in Nat \ T : \A m \in Nat \ T : n <= m
  BY LeastNatural
<1>2. n # 0 /\ n - 1 \in Nat /\ n - 1 \in T
  BY <1>1
<1>3. (n - 1) + 1 = n
  BY <1>1
<1> QED BY <1>1, <1>2, <1>3

\* What a step makes of each value determines a function on 0..N.
Iterates(f, N, x, step) ==
    /\ f[0] = x
    /\ \A n \in 1..N : f[n] = step[<<n, f[n - 1]>>]

LEMMA BoundedRecursion ==
    ASSUME NEW N \in Nat, NEW V, NEW x \in V, NEW step \in [(Nat \ {0}) \X V -> V]
    PROVE  \E f \in [0..N -> V] : Iterates(f, N, x, step)
<1> DEFINE T == {n \in Nat : \E f \in [0..n -> V] : Iterates(f, n, x, step)}
<1>1. 0 \in T
  <2>1. [k \in 0..0 |-> x] \in [0..0 -> V]
    OBVIOUS
  <2>2. Iterates([k \in 0..0 |-> x], 0, x, step)
    BY DEF Iterates
  <2> QED BY <2>1, <2>2
<1>2. ASSUME NEW n \in T
      PROVE  n + 1 \in T
  <2>1. PICK f \in [0..n -> V] : Iterates(f, n, x, step)
    OBVIOUS
  <2> DEFINE g == [k \in 0..n+1 |-> IF k <= n THEN f[k] ELSE step[<<n + 1, f[n]>>]]
  <2>2. step[<<n + 1, f[n]>>] \in V
    <3>1. <<n + 1, f[n]>> \in (Nat \ {0}) \X V
      BY <2>1
    <3> QED BY <3>1
  <2>3. g \in [0..n+1 -> V]
    BY <2>1, <2>2
  <2>4. g[0] = x
    BY <2>1 DEF Iterates
  <2>5. ASSUME NEW k \in 1..n+1
        PROVE  g[k] = step[<<k, g[k - 1]>>]
    <3>1. CASE k <= n
      <4>1. k \in 1..n /\ k - 1 <= n /\ k \in 0..n+1 /\ k - 1 \in 0..n+1
        BY <3>1
      <4>2. g[k] = f[k] /\ g[k - 1] = f[k - 1]
        BY <4>1, <3>1
      <4>3. f[k] = step[<<k, f[k - 1]>>]
        BY <2>1, <4>1 DEF Iterates
      <4> HIDE DEF g
      <4> QED BY <4>2, <4>3
    <3>2. CASE k > n
      <4>1. k = n + 1 /\ k - 1 = n /\ k \in 0..n+1 /\ n \in 0..n+1 /\ ~(k <= n)
        BY <3>2
      <4>2. g[k] = step[<<n + 1, f[n]>>] /\ g[k - 1] = f[n]
        BY <4>1
      <4> HIDE DEF g
      <4> QED BY <4>1, <4>2
    <3> QED BY <3>1, <3>2
  <2>6. Iterates(g, n + 1, x, step)
    <3> HIDE DEF g
    <3> QED BY <2>4, <2>5 DEF Iterates
  <2> HIDE DEF g
  <2> QED BY <2>3, <2>6
<1>3. T = Nat
  <2> HIDE DEF T
  <2>1. T \subseteq Nat
    BY DEF T
  <2> QED BY <1>1, <1>2, <2>1, Induction
<1> QED BY <1>3

(***************************************************************************)
(* What is read of a text.                                                 *)
(***************************************************************************)
Visible(k) == IF k \in Blanks THEN <<>> ELSE <<k>>

LEMMA SignificantIs ==
    ASSUME ParserTypeOK
    PROVE  /\ Significant \in [0..Len(text) -> Seq(Tokens)]
           /\ \A n \in 0..Len(text) : n < AfterBom => Significant[n] = <<>>
           /\ \A n \in 1..Len(text) : n >= AfterBom =>
                Significant[n] = Significant[n - 1] \o Visible(text[n])
<1> DEFINE N == Len(text)
           V == Seq(Tokens)
           b == AfterBom
           step == [p \in (Nat \ {0}) \X V |->
                      IF p[1] < b \/ p[1] > N THEN <<>>
                      ELSE p[2] \o Visible(text[p[1]])]
           Is(f) == f = [n \in 0..N |->
                           IF n < b THEN <<>>
                           ELSE f[n - 1] \o (IF text[n] \in Blanks THEN <<>>
                                                                ELSE <<text[n]>>)]
<1>1. /\ N \in Nat /\ b \in Nat \ {0} /\ <<>> \in V
      /\ \A n \in 1..N : text[n] \in Tokens
  BY TextEnds DEF AfterBom
<1>2. \A n \in 1..N : Visible(text[n]) \in V
  BY <1>1 DEF Visible
<1>3. step \in [(Nat \ {0}) \X V -> V]
  <2>1. \A p \in (Nat \ {0}) \X V :
          (IF p[1] < b \/ p[1] > N THEN <<>> ELSE p[2] \o Visible(text[p[1]])) \in V
    <3> SUFFICES ASSUME NEW k \in Nat \ {0}, NEW s \in V, ~(k < b \/ k > N)
                 PROVE  s \o Visible(text[k]) \in V
      BY <1>1
    <3>1. k \in 1..N
      BY <1>1
    <3>2. Visible(text[k]) \in V
      BY <3>1, <1>2
    <3> QED BY <3>2
  <2> HIDE DEF V
  <2> QED BY <2>1
<1>4. PICK f \in [0..N -> V] : Iterates(f, N, <<>>, step)
  <2> HIDE DEF V, step
  <2> QED BY <1>1, <1>3, BoundedRecursion
<1>5. \A n \in 1..N : f[n] = IF n < b THEN <<>> ELSE f[n - 1] \o Visible(text[n])
  <2> SUFFICES ASSUME NEW n \in 1..N
               PROVE  f[n] = IF n < b THEN <<>> ELSE f[n - 1] \o Visible(text[n])
    OBVIOUS
  <2>1. n \in Nat \ {0} /\ n - 1 \in 0..N /\ ~(n > N)
    BY <1>1
  <2>2. f[n - 1] \in V
    BY <2>1, <1>4
  <2>3. f[n] = step[<<n, f[n - 1]>>]
    BY <1>4 DEF Iterates
  <2> HIDE DEF V
  <2> QED BY <2>1, <2>2, <2>3
<1>6. Is(f)
  <2>1. \A n \in 0..N : f[n] = IF n < b THEN <<>>
            ELSE f[n - 1] \o (IF text[n] \in Blanks THEN <<>> ELSE <<text[n]>>)
    <3> SUFFICES ASSUME NEW n \in 0..N
                 PROVE  f[n] = IF n < b THEN <<>>
            ELSE f[n - 1] \o (IF text[n] \in Blanks THEN <<>> ELSE <<text[n]>>)
      OBVIOUS
    <3>1. CASE n = 0
      BY <3>1, <1>1, <1>4 DEF Iterates
    <3>2. CASE n # 0
      <4>1. n \in 1..N
        BY <1>1, <3>2
      <4> QED BY <4>1, <1>5 DEF Visible
    <3> QED BY <3>1, <3>2
  <2> HIDE DEF N, b, V
  <2> QED BY <1>4, <2>1
<1>7. Significant = CHOOSE g : Is(g)
  BY DEF Significant
<1>8. Is(Significant)
  <2> HIDE DEF Is
  <2> QED BY <1>6, <1>7
<1> HIDE DEF N, b
<1>9. \A n \in 0..N : Significant[n] = IF n < b THEN <<>>
            ELSE Significant[n - 1] \o Visible(text[n])
  <2> DEFINE sig == Significant
  <2>1. Is(sig)
    BY <1>8
  <2> HIDE DEF sig
  <2>2. \A n \in 0..N : sig[n] = IF n < b THEN <<>>
            ELSE sig[n - 1] \o Visible(text[n])
    BY <2>1 DEF Visible
  <2> QED BY <2>2 DEF sig
<1>10. Significant \in [0..N -> V]
  <2> DEFINE sig == Significant
             T == {n \in Nat : n <= N => sig[n] \in V}
  <2>1. DOMAIN sig = 0..N /\ sig = [n \in 0..N |-> sig[n]]
    <3> USE <1>8
    <3> HIDE DEF sig
    <3>1. Is(sig)
      BY DEF sig
    <3> QED BY <3>1
  <2>2. 0 \in T
    <3>1. 0 \in 0..N /\ 0 < b
      BY <1>1
    <3> QED BY <3>1, <1>1, <1>9
  <2>3. ASSUME NEW n \in T
        PROVE  n + 1 \in T
    <3> SUFFICES ASSUME n + 1 <= N
                 PROVE  sig[n + 1] \in V
      OBVIOUS
    <3>1. n + 1 \in 0..N /\ n + 1 \in 1..N /\ (n + 1) - 1 = n /\ sig[n] \in V
      BY <1>1
    <3>2. sig[n + 1] = IF n + 1 < b THEN <<>> ELSE sig[n] \o Visible(text[n + 1])
      BY <3>1, <1>9
    <3> HIDE DEF sig
    <3> QED BY <3>1, <3>2, <1>1, <1>2
  <2> HIDE DEF sig
  <2>4. T = Nat
    <3>1. T \subseteq Nat
      OBVIOUS
    <3> HIDE DEF T
    <3> QED BY <2>2, <2>3, <3>1, Induction
  <2>5. \A n \in 0..N : sig[n] \in V
    <3> HIDE DEF V
    <3> SUFFICES ASSUME NEW n \in 0..N
                 PROVE  sig[n] \in V
      OBVIOUS
    <3>1. n \in T /\ n <= N
      BY <2>4, <1>1
    <3> QED BY <3>1
  <2>6. sig \in [0..N -> V]
    <3> HIDE DEF V
    <3> QED BY <2>1, <2>5
  <2> QED BY <2>6 DEF sig
<1>11. \A n \in 1..N : n >= b => Significant[n] = Significant[n - 1] \o Visible(text[n])
  <2>1. \A n \in 1..N : n \in 0..N /\ (n >= b => ~(n < b))
    BY <1>1
  <2> QED BY <2>1, <1>9
<1>12. \A n \in 0..N : n < b => Significant[n] = <<>>
  BY <1>9
<1> QED BY <1>10, <1>11, <1>12 DEF N, b

\* Blanks add nothing to what is read.
LEMMA BlanksSkipped ==
    ASSUME ParserTypeOK, NEW p \in Nat, NEW q \in Nat,
           AfterBom <= p, p <= q, q <= Len(text) + 1,
           \A i \in p..q-1 : text[i] \in Blanks
    PROVE  Significant[q - 1] = Significant[p - 1]
<1> DEFINE N == Len(text)
           sig == Significant
           T == {m \in Nat : p + m <= q => sig[(p + m) - 1] = sig[p - 1]}
<1>1. N \in Nat /\ AfterBom \in Nat \ {0}
  BY TextEnds DEF AfterBom
<1>2. 0 \in T
  OBVIOUS
<1>3. ASSUME NEW m \in T
      PROVE  m + 1 \in T
  <2> SUFFICES ASSUME p + (m + 1) <= q
               PROVE  sig[(p + (m + 1)) - 1] = sig[p - 1]
    OBVIOUS
  <2> DEFINE k == p + m
  <2>1. /\ k \in 1..N /\ k >= AfterBom /\ k \in p..q-1
        /\ (p + (m + 1)) - 1 = k /\ (p + m) - 1 = k - 1 /\ p + m <= q
    BY <1>1
  <2>2. sig[k] = sig[k - 1] \o <<>>
    BY <2>1, SignificantIs DEF Visible
  <2>3. sig[k - 1] \in Seq(Tokens)
    <3>1. k - 1 \in 0..N
      BY <2>1
    <3> QED BY <3>1, SignificantIs
  <2>4. sig[k] = sig[k - 1]
    BY <2>2, <2>3, ConcatEmptySeq
  <2>5. sig[(p + m) - 1] = sig[p - 1]
    BY <2>1
  <2> QED BY <2>1, <2>4, <2>5
<1>4. T = Nat
  <2> HIDE DEF T
  <2>1. T \subseteq Nat
    BY DEF T
  <2> QED BY <1>2, <1>3, <2>1, Induction
<1>5. q - p \in Nat /\ p + (q - p) = q
  OBVIOUS
<1>6. q - p \in T
  <2> HIDE DEF T
  <2> QED BY <1>4, <1>5
<1> QED BY <1>5, <1>6

LEMMA SkippedOver ==
    ASSUME ParserTypeOK, NEW p \in Nat, NEW q, SkipsTo(p, q),
           AfterBom <= p, p <= Len(text) + 1
    PROVE  /\ q \in Nat /\ p <= q /\ q <= Len(text) + 1
           /\ Significant[q - 1] = Significant[p - 1]
<1>1. Len(text) \in Nat /\ AfterBom \in Nat \ {0}
  BY TextEnds DEF AfterBom
<1>2. p \in 1..Len(text) + 1
  BY <1>1
<1>3. q \in p..Len(text) + 1
  BY <1>2, SkipRange
<1>4. q \in Nat /\ p <= q /\ q <= Len(text) + 1
  BY <1>1, <1>3
<1>5. \A i \in p..q-1 : text[i] \in Blanks
  BY <1>1, <1>4 DEF SkipsTo, CanAccess
<1> QED BY <1>4, <1>5, BlanksSkipped

LEMMA OneMore ==
    ASSUME ParserTypeOK, NEW p \in Nat, AfterBom <= p, p <= Len(text),
           text[p] \notin Blanks
    PROVE  Significant[p] = Significant[p - 1] \o <<text[p]>>
<1>1. p \in 1..Len(text)
  BY TextEnds DEF AfterBom
<1> QED BY <1>1, SignificantIs DEF Visible

\* Which tokens are blank.
LEMMA NotBlank ==
    ASSUME NEW k \in Plain \cup Literals \cup {"{", "}", "[", "]", ":", ","}
    PROVE  k \notin Blanks /\ k \in Tokens
<1>1. Numbers \cap Blanks = {} /\ Literals \cap Blanks = {}
  BY ParserAssumption DEF Literals, Lone, Blanks, Null
<1> QED BY <1>1 DEF Plain, Blanks, Tokens, Brackets, Bad, Unsupported, Literals, Null

LEMMA SameReading ==
    ASSUME text' = text
    PROVE  Significant' = Significant /\ AfterBom' = AfterBom
BY DEF Significant, AfterBom

\* v is a beginning of w.
Further(w, v) == \E x \in Seq(Tokens) : w = v \o x

LEMMA FurtherOn ==
    ASSUME NEW w, NEW v \in Seq(Tokens), Further(w, v), NEW y \in Seq(Tokens)
    PROVE  Further(w \o y, v)
<1>1. PICK x \in Seq(Tokens) : w = v \o x
  BY DEF Further
<1>2. x \o y \in Seq(Tokens)
  OBVIOUS
<1>3. (v \o x) \o y = v \o (x \o y)
  BY ConcatAssociative
<1> QED BY <1>1, <1>2, <1>3 DEF Further

LEMMA Furthest ==
    ASSUME NEW v \in Seq(Tokens)
    PROVE  Further(v, v)
<1>1. v = v \o <<>> /\ <<>> \in Seq(Tokens)
  BY ConcatEmptySeq
<1> QED BY <1>1 DEF Further

LEMMA IteratesOnce ==
    ASSUME NEW x, NEW step, NEW n \in Nat, NEW f, Iterates(f, n, x, step),
           NEW m \in Nat, NEW g, Iterates(g, m, x, step)
    PROVE  \A k \in Nat : k <= n /\ k <= m => f[k] = g[k]
<1> DEFINE T == {k \in Nat : k <= n /\ k <= m => f[k] = g[k]}
<1>1. 0 \in T
  BY DEF Iterates
<1>2. ASSUME NEW k \in T
      PROVE  k + 1 \in T
  <2> SUFFICES ASSUME k + 1 <= n, k + 1 <= m
               PROVE  f[k + 1] = g[k + 1]
    OBVIOUS
  <2>1. k + 1 \in 1..n /\ k + 1 \in 1..m /\ (k + 1) - 1 = k /\ k <= n /\ k <= m
    OBVIOUS
  <2>2. f[k] = g[k]
    BY <2>1
  <2>3. f[k + 1] = step[<<k + 1, f[k]>>] /\ g[k + 1] = step[<<k + 1, g[k]>>]
    BY <2>1 DEF Iterates
  <2> QED BY <2>2, <2>3
<1>3. T = Nat
  <2> HIDE DEF T
  <2>1. T \subseteq Nat
    BY DEF T
  <2> QED BY <1>1, <1>2, <2>1, Induction
<1> QED BY <1>3

\* What a step makes of each value determines a function on Nat.
Recurs(f, x, step) == f[0] = x /\ \A n \in Nat \ {0} : f[n] = step[<<n, f[n - 1]>>]

LEMMA NatRecursion ==
    ASSUME NEW V, NEW x \in V, NEW step \in [(Nat \ {0}) \X V -> V]
    PROVE  \E f \in [Nat -> V] : Recurs(f, x, step)
<1>1. \A n \in Nat : \E h \in [0..n -> V] : Iterates(h, n, x, step)
  BY BoundedRecursion
<1> DEFINE H(n) == CHOOSE h \in [0..n -> V] : Iterates(h, n, x, step)
           f == [n \in Nat |-> H(n)[n]]
<1>2. \A n \in Nat : H(n) \in [0..n -> V] /\ Iterates(H(n), n, x, step)
  BY <1>1
<1>3. \A n \in Nat : f[n] = H(n)[n]
  OBVIOUS
<1> HIDE DEF H
<1>4. f \in [Nat -> V]
  <2>1. \A n \in Nat : H(n)[n] \in V
    <3> SUFFICES ASSUME NEW n \in Nat
                 PROVE  H(n)[n] \in V
      OBVIOUS
    <3>1. n \in 0..n
      OBVIOUS
    <3> QED BY <1>2, <3>1
  <2> QED BY <2>1
<1> HIDE DEF f
<1>5. f[0] = x
  <2>1. H(0)[0] = x
    BY <1>2 DEF Iterates
  <2> QED BY <1>3, <2>1
<1>6. ASSUME NEW n \in Nat \ {0}
      PROVE  f[n] = step[<<n, f[n - 1]>>]
  <2>1. n \in Nat /\ n - 1 \in Nat /\ n \in 1..n /\ n - 1 <= n /\ n - 1 <= n - 1
    OBVIOUS
  <2>2. H(n)[n] = step[<<n, H(n)[n - 1]>>]
    BY <1>2, <2>1 DEF Iterates
  <2>3. H(n)[n - 1] = H(n - 1)[n - 1]
    BY <1>2, <2>1, IteratesOnce
  <2> QED BY <1>3, <2>1, <2>2, <2>3
<1> QED BY <1>4, <1>5, <1>6 DEF Recurs

(***************************************************************************)
(* The grammar.                                                            *)
(***************************************************************************)
\* What a phrase can be: a kind, its first and its last token.
Cells == Kinds \X (1..Len(Sentence)) \X (1..Len(Sentence))

\* What can be derived in one step from X.
DerivedFrom(X) ==
    LET Is(kind, i, j) == <<kind, i, j>> \in X
        Bracketed(i, j, ends, kind) ==
            /\ i < j /\ <<Sentence[i], Sentence[j]>> = ends
            /\ j = i + 1 \/ Is(kind, i + 1, j - 1)
        List(i, j, kind, list) ==
            \/ Is(kind, i, j)
            \/ \E k \in i+1..j-1 : /\ Is(kind, i, k - 1)
                                   /\ Sentence[k] = ","
                                   /\ Is(list, k + 1, j)
        Rule(kind, i, j) ==
            CASE kind = "value" ->
                   \/ i = j /\ Sentence[i] \in Plain \cup Literals
                   \/ /\ j = i + 1
                      /\ Sentence[i] \in Numbers /\ Sentence[j] = More
                   \/ Bracketed(i, j, <<"[", "]">>, "elements")
                   \/ Bracketed(i, j, <<"{", "}">>, "members")
              [] kind = "member" ->
                   /\ i + 2 <= j
                   /\ Sentence[i] \in Literals /\ Sentence[i + 1] = ":"
                   /\ Is("value", i + 2, j)
              [] kind = "elements" -> List(i, j, "value", "elements")
              [] kind = "members"  -> List(i, j, "member", "members")
    IN  {p \in Kinds \X (1..Len(Sentence)) \X (1..Len(Sentence)) :
           p[2] <= p[3] /\ Rule(p[1], p[2], p[3])}

LEMMA DerivedIs ==
    /\ Derived[0] = {}
    /\ \A n \in Nat \ {0} : Derived[n] = DerivedFrom(Derived[n - 1])
<1> DEFINE V == SUBSET Cells
           step == [p \in (Nat \ {0}) \X V |-> DerivedFrom(p[2])]
           Is(f) == f = [n \in Nat |-> IF n = 0 THEN {} ELSE DerivedFrom(f[n - 1])]
<1>1. \A X : DerivedFrom(X) \in V
  BY DEF DerivedFrom, Cells
<1>2. step \in [(Nat \ {0}) \X V -> V]
  <2> HIDE DEF V
  <2> QED BY <1>1
<1>3. {} \in V
  OBVIOUS
<1>4. PICK f \in [Nat -> V] : Recurs(f, {}, step)
  <2> HIDE DEF V, step, Is
  <2> QED BY <1>2, <1>3, NatRecursion
<1>5. \A n \in Nat \ {0} : f[n] = DerivedFrom(f[n - 1])
  <2> SUFFICES ASSUME NEW n \in Nat \ {0}
               PROVE  f[n] = DerivedFrom(f[n - 1])
    OBVIOUS
  <2>1. n - 1 \in Nat
    OBVIOUS
  <2>2. f[n - 1] \in V
    BY <2>1
  <2>3. f[n] = step[<<n, f[n - 1]>>]
    BY <1>4 DEF Recurs
  <2> HIDE DEF V
  <2> QED BY <2>2, <2>3
<1>6. Is(f)
  <2>1. \A n \in Nat : f[n] = IF n = 0 THEN {} ELSE DerivedFrom(f[n - 1])
    BY <1>4, <1>5 DEF Recurs
  <2> HIDE DEF V
  <2> QED BY <2>1
<1>7. Derived = CHOOSE g : Is(g)
  BY DEF Derived, DerivedFrom
<1> HIDE DEF Is
<1>8. Is(Derived)
  BY <1>6, <1>7
<1> QED BY <1>8 DEF Is

(***************************************************************************)
(* The phrases of the grammar, rule by rule.                               *)
(***************************************************************************)
ListOf(object) == IF object THEN "members" ELSE "elements"
OneOf(object)  == IF object THEN "member" ELSE "value"

\* What has a derivation of any depth.
Phrases == UNION {Derived[n] : n \in Nat}
Phrase(P, kind, i, j) == <<kind, i, j>> \in P

\* What is behind an element that ends at x, up to the bracket at c.
GoesOn(S, P, object, x, c) ==
    \/ x + 1 = c
    \/ x + 3 <= c /\ S[x + 1] = "," /\ Phrase(P, ListOf(object), x + 2, c - 1)

\* A phrase is derived by one of the rules from phrases.
LEMMA PhraseFrom ==
    ASSUME NEW kind, NEW i, NEW j, Phrase(Phrases, kind, i, j)
    PROVE  \E X : X \subseteq Phrases /\ <<kind, i, j>> \in DerivedFrom(X)
<1>1. PICK n \in Nat : <<kind, i, j>> \in Derived[n]
  BY DEF Phrase, Phrases
<1>2. n # 0
  BY <1>1, DerivedIs
<1>3. n - 1 \in Nat /\ <<kind, i, j>> \in DerivedFrom(Derived[n - 1])
  BY <1>1, <1>2, DerivedIs
<1>4. Derived[n - 1] \subseteq Phrases
  BY <1>3 DEF Phrases
<1> QED BY <1>3, <1>4

LEMMA PhraseSpan ==
    ASSUME NEW kind, NEW i, NEW j, Phrase(Phrases, kind, i, j)
    PROVE  i \in 1..Len(Sentence) /\ j \in 1..Len(Sentence) /\ i <= j
<1>1. PICK X : X \subseteq Phrases /\ <<kind, i, j>> \in DerivedFrom(X)
  BY PhraseFrom
<1> QED BY <1>1 DEF DerivedFrom

LEMMA ValuePhrase ==
    ASSUME NEW i, NEW j, Phrase(Phrases, "value", i, j)
    PROVE  \/ i = j /\ Sentence[i] \in Plain \cup Literals
           \/ j = i + 1 /\ Sentence[i] \in Numbers /\ Sentence[j] = More
           \/ \E object \in BOOLEAN :
                /\ i < j /\ Sentence[i] = Opener(object) /\ Sentence[j] = Closer(object)
                /\ j = i + 1 \/ Phrase(Phrases, ListOf(object), i + 1, j - 1)
<1>1. PICK X : X \subseteq Phrases /\ <<"value", i, j>> \in DerivedFrom(X)
  BY PhraseFrom
<1>2. \/ i = j /\ Sentence[i] \in Plain \cup Literals
      \/ j = i + 1 /\ Sentence[i] \in Numbers /\ Sentence[j] = More
      \/ /\ i < j /\ <<Sentence[i], Sentence[j]>> = <<"[", "]">>
         /\ j = i + 1 \/ <<"elements", i + 1, j - 1>> \in X
      \/ /\ i < j /\ <<Sentence[i], Sentence[j]>> = <<"{", "}">>
         /\ j = i + 1 \/ <<"members", i + 1, j - 1>> \in X
  BY <1>1 DEF DerivedFrom
<1>3. CASE /\ i < j /\ <<Sentence[i], Sentence[j]>> = <<"[", "]">>
           /\ j = i + 1 \/ <<"elements", i + 1, j - 1>> \in X
  <2>1. Sentence[i] = Opener(FALSE) /\ Sentence[j] = Closer(FALSE) /\ ListOf(FALSE) = "elements"
    BY <1>3 DEF Opener, Closer, ListOf
  <2>2. j = i + 1 \/ Phrase(Phrases, ListOf(FALSE), i + 1, j - 1)
    BY <1>1, <1>3, <2>1 DEF Phrase
  <2> QED BY <1>3, <2>1, <2>2
<1>4. CASE /\ i < j /\ <<Sentence[i], Sentence[j]>> = <<"{", "}">>
           /\ j = i + 1 \/ <<"members", i + 1, j - 1>> \in X
  <2>1. Sentence[i] = Opener(TRUE) /\ Sentence[j] = Closer(TRUE) /\ ListOf(TRUE) = "members"
    BY <1>4 DEF Opener, Closer, ListOf
  <2>2. j = i + 1 \/ Phrase(Phrases, ListOf(TRUE), i + 1, j - 1)
    BY <1>1, <1>4, <2>1 DEF Phrase
  <2> QED BY <1>4, <2>1, <2>2
<1> QED BY <1>2, <1>3, <1>4

LEMMA MemberPhrase ==
    ASSUME NEW i, NEW j, Phrase(Phrases, "member", i, j)
    PROVE  /\ i + 2 <= j /\ Sentence[i] \in Literals /\ Sentence[i + 1] = ":"
           /\ Phrase(Phrases, "value", i + 2, j)
<1>1. PICK X : X \subseteq Phrases /\ <<"member", i, j>> \in DerivedFrom(X)
  BY PhraseFrom
<1>2. /\ i + 2 <= j /\ Sentence[i] \in Literals /\ Sentence[i + 1] = ":"
      /\ <<"value", i + 2, j>> \in X
  BY <1>1 DEF DerivedFrom
<1> QED BY <1>1, <1>2 DEF Phrase

LEMMA ListPhrase ==
    ASSUME NEW object \in BOOLEAN, NEW i, NEW j, Phrase(Phrases, ListOf(object), i, j)
    PROVE  \E x \in Nat : Phrase(Phrases, OneOf(object), i, x) /\ GoesOn(Sentence, Phrases, object, x, j + 1)
<1>0. i \in Nat /\ j \in Nat
  BY PhraseSpan
<1>1. PICK X : X \subseteq Phrases /\ <<ListOf(object), i, j>> \in DerivedFrom(X)
  BY PhraseFrom
<1>2. \/ <<OneOf(object), i, j>> \in X
      \/ \E k \in i+1..j-1 : /\ <<OneOf(object), i, k - 1>> \in X
                             /\ Sentence[k] = ","
                             /\ <<ListOf(object), k + 1, j>> \in X
  <2>1. CASE object
    <3>1. ListOf(object) = "members" /\ OneOf(object) = "member"
      BY <2>1 DEF ListOf, OneOf
    <3> QED BY <1>1, <3>1 DEF DerivedFrom
  <2>2. CASE ~object
    <3>1. ListOf(object) = "elements" /\ OneOf(object) = "value"
      BY <2>2 DEF ListOf, OneOf
    <3> QED BY <1>1, <3>1 DEF DerivedFrom
  <2> QED BY <2>1, <2>2
<1>3. CASE <<OneOf(object), i, j>> \in X
  <2>1. Phrase(Phrases, OneOf(object), i, j) /\ GoesOn(Sentence, Phrases, object, j, j + 1)
    BY <1>1, <1>3 DEF Phrase, GoesOn
  <2> QED BY <1>0, <2>1
<1>4. ASSUME NEW k \in i+1..j-1, <<OneOf(object), i, k - 1>> \in X, Sentence[k] = ",",
             <<ListOf(object), k + 1, j>> \in X
      PROVE  \E x \in Nat : Phrase(Phrases, OneOf(object), i, x) /\ GoesOn(Sentence, Phrases, object, x, j + 1)
  <2>1. k - 1 \in Nat /\ (k - 1) + 1 = k /\ (k - 1) + 2 = k + 1 /\ (j + 1) - 1 = j
        /\ (k - 1) + 3 <= j + 1
    BY <1>0
  <2>2. Phrase(Phrases, OneOf(object), i, k - 1) /\ Phrase(Phrases, ListOf(object), k + 1, j)
    BY <1>1, <1>4 DEF Phrase
  <2>3. GoesOn(Sentence, Phrases, object, k - 1, j + 1)
    BY <1>4, <2>1, <2>2 DEF GoesOn
  <2> QED BY <2>1, <2>2, <2>3
<1> QED BY <1>2, <1>3, <1>4

\* No phrase begins with a closing bracket or a comma.
LEMMA PhraseBegins ==
    ASSUME NEW object \in BOOLEAN, NEW i, NEW j, Phrase(Phrases, ListOf(object), i, j)
    PROVE  Sentence[i] \in Plain \cup Literals \cup {"{", "["}
<1>1. PICK x \in Nat : Phrase(Phrases, OneOf(object), i, x)
  BY ListPhrase
<1>2. CASE object
  BY <1>1, <1>2, MemberPhrase DEF OneOf
<1>3. CASE ~object
  <2>1. Phrase(Phrases, "value", i, x)
    BY <1>1, <1>3 DEF OneOf
  <2> QED BY <2>1, ValuePhrase DEF Opener, Plain
<1> QED BY <1>2, <1>3

(***************************************************************************)
(* The place of a token among those that are not blank.                    *)
(***************************************************************************)
LEMMA SentenceIs ==
    ASSUME ParserTypeOK
    PROVE  Sentence \in Seq(Tokens) /\ Len(Sentence) \in Nat
<1>1. Len(text) \in 0..Len(text)
  BY TextEnds
<1>2. Sentence \in Seq(Tokens)
  BY <1>1, SignificantIs DEF Sentence
<1> QED BY <1>2

LEMMA SignificantOn ==
    ASSUME ParserTypeOK, NEW p \in 0..Len(text), p >= AfterBom \/ p = AfterBom - 1
    PROVE  Further(Sentence, Significant[p])
<1>1. /\ Len(text) \in Nat /\ p \in Nat /\ AfterBom \in {1, 2}
      /\ \A n \in 1..Len(text) : text[n] \in Tokens
  BY TextEnds DEF AfterBom
<1>2. \A n \in 0..Len(text) : Significant[n] \in Seq(Tokens)
  BY SignificantIs
<1> DEFINE T == {n \in Nat : p + n <= Len(text) => Further(Significant[p + n], Significant[p])}
<1>3. 0 \in T
  BY <1>1, <1>2, Furthest
<1>4. ASSUME NEW n \in T
      PROVE  n + 1 \in T
  <2> SUFFICES ASSUME p + (n + 1) <= Len(text)
               PROVE  Further(Significant[p + (n + 1)], Significant[p])
    OBVIOUS
  <2>1. /\ p + (n + 1) \in 1..Len(text) /\ (p + (n + 1)) - 1 = p + n /\ p + n <= Len(text)
        /\ p + (n + 1) >= AfterBom
    BY <1>1
  <2>2. Further(Significant[p + n], Significant[p])
    BY <2>1
  <2> HIDE DEF T
  <2>3. Significant[p + (n + 1)] = Significant[p + n] \o Visible(text[p + (n + 1)])
    BY <2>1, SignificantIs
  <2>4. PICK k \in Tokens : k = text[p + (n + 1)]
    BY <1>1, <2>1
  <2>5. Visible(k) \in Seq(Tokens)
    BY DEF Visible
  <2>6. Further(Significant[p + n] \o Visible(k), Significant[p])
    BY <1>2, <2>2, <2>5, FurtherOn
  <2> QED BY <2>3, <2>4, <2>6
<1>5. T = Nat
  <2> HIDE DEF T
  <2>1. T \subseteq Nat
    BY DEF T
  <2> QED BY <1>3, <1>4, <2>1, Induction
<1>6. Len(text) - p \in Nat /\ p + (Len(text) - p) = Len(text) /\ p + (Len(text) - p) <= Len(text)
  BY <1>1
<1>7. Len(text) - p \in T
  BY <1>5, <1>6
<1>8. Further(Significant[p + (Len(text) - p)], Significant[p])
  BY <1>6, <1>7
<1> QED BY <1>6, <1>8 DEF Sentence

LEMMA FurtherTokens ==
    ASSUME NEW v \in Seq(Tokens), NEW w, Further(w, v)
    PROVE  Len(v) <= Len(w) /\ \A i \in 1..Len(v) : w[i] = v[i]
<1>1. PICK x \in Seq(Tokens) : w = v \o x
  BY DEF Further
<1>2. /\ Len(v \o x) = Len(v) + Len(x) /\ Len(v) \in Nat /\ Len(x) \in Nat
      /\ \A i \in 1..Len(v) : (v \o x)[i] = v[i]
  OBVIOUS
<1> QED BY <1>1, <1>2

\* How many tokens are read up to p.
Count(p) == Len(Significant[p])

LEMMA CountIs ==
    ASSUME ParserTypeOK, NEW p \in Nat, AfterBom <= p, p <= Len(text) + 1
    PROVE  Count(p - 1) \in Nat /\ Count(p - 1) <= Len(Sentence)
<1>1. Len(text) \in Nat /\ AfterBom \in {1, 2}
  BY TextEnds DEF AfterBom
<1>2. p - 1 \in 0..Len(text) /\ (p - 1 >= AfterBom \/ p - 1 = AfterBom - 1)
  BY <1>1
<1>3. Significant[p - 1] \in Seq(Tokens)
  BY <1>2, SignificantIs
<1>4. Further(Sentence, Significant[p - 1])
  BY <1>2, SignificantOn
<1>5. Len(Significant[p - 1]) \in Nat
  BY <1>3
<1>6. Len(Significant[p - 1]) <= Len(Sentence)
  BY <1>3, <1>4, FurtherTokens
<1> QED BY <1>5, <1>6 DEF Count

\* The token at p is the next one of the sentence.
LEMMA NextToken ==
    ASSUME ParserTypeOK, NEW p \in Nat, AfterBom <= p, p <= Len(text), text[p] \notin Blanks
    PROVE  /\ Count(p) = Count(p - 1) + 1 /\ Count(p) \in 1..Len(Sentence)
           /\ Sentence[Count(p)] = text[p]
<1>1. Len(text) \in Nat /\ AfterBom \in {1, 2} /\ p \in 1..Len(text) /\ text[p] \in Tokens
  BY TextEnds DEF AfterBom
<1>2. p - 1 \in 0..Len(text) /\ p \in 0..Len(text)
  BY <1>1
<1>3. PICK s \in Seq(Tokens) : s = Significant[p - 1]
  BY <1>2, SignificantIs
<1>4. Significant[p] = s \o <<text[p]>>
  BY <1>3, OneMore
<1>5. PICK k \in Tokens : k = text[p]
  BY <1>1
<1>6. /\ s \o <<k>> \in Seq(Tokens) /\ Len(s \o <<k>>) = Len(s) + 1
      /\ (s \o <<k>>)[Len(s) + 1] = k /\ Len(s) \in Nat
  OBVIOUS
<1>7. Further(Sentence, s \o <<k>>)
  BY <1>2, <1>4, <1>5, SignificantOn
<1>8. /\ Len(s \o <<k>>) <= Len(Sentence)
      /\ \A i \in 1..Len(s \o <<k>>) : Sentence[i] = (s \o <<k>>)[i]
  BY <1>6, <1>7, FurtherTokens
<1>9. Count(p) = Len(s) + 1 /\ Count(p - 1) = Len(s)
  BY <1>3, <1>4, <1>5, <1>6 DEF Count
<1>10. Len(Sentence) \in Nat
  BY SentenceIs
<1> QED BY <1>5, <1>6, <1>8, <1>9, <1>10

\* If there is more of the sentence, there is a token ahead.
LEMMA MoreAhead ==
    ASSUME ParserTypeOK, NEW p \in Nat, AfterBom <= p, p <= Len(text) + 1,
           Count(p - 1) < Len(Sentence)
    PROVE  \E q \in p..Len(text) :
             /\ text[q] \notin Blanks /\ \A i \in p..q-1 : text[i] \in Blanks
             /\ SkipsTo(p, q)
             /\ Count(q - 1) = Count(p - 1)
             /\ Sentence[Count(p - 1) + 1] = text[q]
<1>1. Len(text) \in Nat /\ AfterBom \in {1, 2}
  BY TextEnds DEF AfterBom
<1> DEFINE T == {q \in Nat : q \in p..Len(text) /\ text[q] \notin Blanks}
<1>2. T # {}
  <2> SUFFICES ASSUME T = {}
               PROVE  FALSE
    OBVIOUS
  <2>1. \A i \in p..(Len(text) + 1)-1 : text[i] \in Blanks
    <3> SUFFICES ASSUME NEW i \in p..(Len(text) + 1)-1, text[i] \notin Blanks
                 PROVE  FALSE
      OBVIOUS
    <3>1. i \in Nat /\ i \in p..Len(text)
      BY <1>1
    <3> QED BY <3>1
  <2>2. Len(text) + 1 \in Nat /\ (Len(text) + 1) - 1 = Len(text)
    BY <1>1
  <2>3. Significant[Len(text)] = Significant[p - 1]
    <3> HIDE DEF T
    <3>1. \A q \in Nat : p <= q /\ q <= Len(text) + 1 /\ (\A i \in p..q-1 : text[i] \in Blanks)
             => Significant[q - 1] = Significant[p - 1]
      BY BlanksSkipped
    <3>2. Significant[(Len(text) + 1) - 1] = Significant[p - 1]
      BY <1>1, <2>1, <2>2, <3>1
    <3> QED BY <2>2, <3>2
  <2>4. Len(Sentence) \in Nat
    BY SentenceIs
  <2> QED BY <2>3, <2>4 DEF Sentence, Count
<1>3. PICK q \in T : \A j \in T : q <= j
  <2>1. T \subseteq Nat
    OBVIOUS
  <2> HIDE DEF T
  <2> QED BY <1>2, <2>1, LeastNatural
<1>4. q \in p..Len(text) /\ text[q] \notin Blanks /\ q \in Nat /\ p <= q /\ q <= Len(text)
  BY <1>1
<1>5. ASSUME NEW i \in p..q-1
      PROVE  text[i] \in Blanks
  <2>1. i \in Nat /\ i < q /\ i \in p..Len(text)
    BY <1>1, <1>4
  <2>2. i \notin T
    <3> HIDE DEF T
    <3>1. i \in T => q <= i
      BY <1>3
    <3> QED BY <1>4, <2>1, <3>1
  <2> QED BY <2>1, <2>2
<1> HIDE DEF T
<1>6. SkipsTo(p, q)
  BY <1>1, <1>4, <1>5 DEF SkipsTo, CanAccess
<1>7. Significant[q - 1] = Significant[p - 1]
  BY <1>1, <1>4, <1>5, BlanksSkipped
<1>8. Count(q - 1) = Count(p - 1)
  BY <1>7 DEF Count
<1>10. AfterBom <= q
  BY <1>1, <1>4
<1>9. Count(q) = Count(q - 1) + 1 /\ Sentence[Count(q)] = text[q]
  BY <1>4, <1>10, NextToken
<1> QED BY <1>4, <1>5, <1>6, <1>8, <1>9

(***************************************************************************)
(* The nesting.                                                            *)
(***************************************************************************)
Turn(k) == CASE k \in {"{", "["} -> 1
             [] k \in {"}", "]"} -> -1
             [] OTHER -> 0

LEMMA TurnInt == \A k : Turn(k) \in Int
BY DEF Turn

LEMMA NestingIs ==
    ASSUME ParserTypeOK
    PROVE  /\ Nesting[0] = 0 /\ \A j \in 0..Len(Sentence) : Nesting[j] \in Int
           /\ \A j \in 1..Len(Sentence) : Nesting[j] = Nesting[j - 1] + Turn(Sentence[j])
<1> DEFINE N == Len(Sentence)
           step == [p \in (Nat \ {0}) \X Int |-> p[2] + Turn(Sentence[p[1]])]
           Is(f) == f = [j \in 0..N |->
                           IF j = 0 THEN 0
                           ELSE f[j - 1] + CASE Sentence[j] \in {"{", "["} -> 1
                                             [] Sentence[j] \in {"}", "]"} -> -1
                                             [] OTHER -> 0]
<1>1. N \in Nat
  BY SentenceIs
<1>2. step \in [(Nat \ {0}) \X Int -> Int]
  BY TurnInt
<1>3. PICK f \in [0..N -> Int] : Iterates(f, N, 0, step)
  <2> HIDE DEF step, N, Is
  <2>1. 0 \in Int
    OBVIOUS
  <2> QED BY <1>1, <1>2, <2>1, BoundedRecursion
<1>4. f[0] = 0 /\ \A j \in 1..N : f[j] = f[j - 1] + Turn(Sentence[j])
  <2>1. ASSUME NEW j \in 1..N
        PROVE  f[j] = f[j - 1] + Turn(Sentence[j])
    <3>1. j - 1 \in 0..N /\ j \in Nat \ {0}
      BY <1>1
    <3>2. f[j - 1] \in Int
      BY <3>1
    <3>3. f[j] = step[<<j, f[j - 1]>>]
      BY <1>3 DEF Iterates
    <3> HIDE DEF N
    <3> QED BY <3>1, <3>2, <3>3
  <2> QED BY <1>3, <2>1 DEF Iterates
<1>5. Is(f)
  <2>1. \A j \in 0..N : f[j] = IF j = 0 THEN 0 ELSE f[j - 1] + Turn(Sentence[j])
    BY <1>1, <1>4
  <2>2. f = [j \in 0..N |-> IF j = 0 THEN 0 ELSE f[j - 1] + Turn(Sentence[j])]
    <3> HIDE DEF N
    <3> QED BY <1>3, <2>1
  <2> QED BY <2>2 DEF Turn
<1>6. Nesting = CHOOSE g : Is(g)
  BY DEF Nesting
<1> HIDE DEF Is
<1>7. Is(Nesting)
  BY <1>5, <1>6
<1>8. /\ DOMAIN Nesting = 0..N
      /\ \A j \in 0..N : Nesting[j] = IF j = 0 THEN 0 ELSE Nesting[j - 1] + Turn(Sentence[j])
  <2> HIDE DEF N
  <2>1. Nesting = [j \in 0..N |-> IF j = 0 THEN 0 ELSE Nesting[j - 1] + Turn(Sentence[j])]
    BY <1>7 DEF Is, Turn
  <2> QED BY <2>1
<1>9. /\ Nesting[0] = 0
      /\ \A j \in 1..N : Nesting[j] = Nesting[j - 1] + Turn(Sentence[j])
  <2>1. 0 \in 0..N /\ \A j \in 1..N : j \in 0..N /\ j # 0
    BY <1>1
  <2> HIDE DEF N
  <2> QED BY <1>8, <2>1
<1>10. \A j \in 0..N : Nesting[j] \in Int
  <2> DEFINE T == {j \in Nat : j <= N => Nesting[j] \in Int}
  <2>1. 0 \in T
    BY <1>9
  <2>2. ASSUME NEW j \in T
        PROVE  j + 1 \in T
    <3>1. j + 1 <= N => j + 1 \in 1..N /\ (j + 1) - 1 = j /\ j <= N
      BY <1>1
    <3> QED BY <1>9, <3>1, TurnInt
  <2>3. T = Nat
    <3> HIDE DEF T
    <3>1. T \subseteq Nat
      BY DEF T
    <3> QED BY <2>1, <2>2, <3>1, Induction
  <2> QED BY <1>1, <2>3
<1> QED BY <1>9, <1>10

(***************************************************************************)
(* The parser is inside every derivation of a beginning of the text.  E[i] *)
(* is where the bracket of frame i closes, if the value ends at e.         *)
(***************************************************************************)
\* How many tokens are read.
Read == Count(IF pc = "element" THEN pos ELSE pos - 1)

\* An element of frame i that ends at x; the whole value, if i is 0.
Fits(S, P, frames, E, e, i, x) ==
    IF i = 0 THEN x = e ELSE GoesOn(S, P, frames[i].object, x, E[i])

Route(S, P, frames, E, e) ==
    /\ E \in [1..Len(frames) -> 1..e]
    /\ \A i \in 1..Len(frames) : /\ S[E[i]] = Closer(frames[i].object)
                                 /\ Fits(S, P, frames, E, e, i - 1, E[i])

\* What a step at p expects behind the first n tokens.
Expected(S, P, frames, p, n, E, e) ==
    LET d == Len(frames)
    IN  /\ p = "value" =>
             \E x \in 1..e : Phrase(P, "value", n + 1, x) /\ Fits(S, P, frames, E, e, d, x)
        /\ p = "name" =>
             \E x \in 1..e : Phrase(P, "member", n + 1, x) /\ Fits(S, P, frames, E, e, d, x)
        /\ p = "colon" =>
             \E x \in 1..e : /\ S[n + 1] = ":" /\ Phrase(P, "value", n + 2, x)
                             /\ Fits(S, P, frames, E, e, d, x)
        /\ p = "after" => Fits(S, P, frames, E, e, d, n)
        /\ p = "element" => Phrase(P, ListOf(frames[d].object), n + 1, E[d] - 1)

\* A value that the text begins with, of tokens that the parser supports.
Claimed(S, P, e) ==
    Phrase(P, "value", 1, e) /\ \A i \in 1..e : S[i] \notin Unsupported

Derives(S, P, frames, p, n) ==
    \A e \in 1..Len(S) : Claimed(S, P, e) =>
        \E E : Route(S, P, frames, E, e) /\ Expected(S, P, frames, p, n, E, e)

Derivation == Derives(Sentence, Phrases, stack, pc, Read)

\* Where the parser is: at a token, or at the end; and nested as deep as its frames.
Place ==
    /\ pos >= AfterBom
    /\ pc \in {"value", "name", "colon"} /\ pos < Len(text) => text[pos] \notin Blanks
    /\ Nesting[Read] = Depth

\* Every value that the text begins with, of tokens that the parser supports,
\* is too deeply nested.
Excused ==
    \A e \in 1..Len(Sentence) : Claimed(Sentence, Phrases, e) =>
        \E i \in 1..e : Nesting[i] > NestingLimit

CompleteInv ==
    /\ Reading => Place /\ Derivation
    /\ (pc = "fail" \/ (pc = "done" /\ root = 0)) /\ ~starved => Excused

LEMMA SameGrammar ==
    ASSUME text' = text
    PROVE  /\ Significant' = Significant /\ AfterBom' = AfterBom /\ Sentence' = Sentence
           /\ Derived' = Derived /\ Phrases' = Phrases /\ Nesting' = Nesting
<1>1. Significant' = Significant /\ AfterBom' = AfterBom
  BY SameReading
<1>2. Sentence' = Sentence
  BY <1>1 DEF Sentence
<1>3. Derived' = Derived
  BY <1>2 DEF Derived
<1>4. Phrases' = Phrases
  BY <1>3 DEF Phrases
<1>5. Nesting' = Nesting
  BY <1>2 DEF Nesting
<1> QED BY <1>1, <1>2, <1>3, <1>4, <1>5

LEMMA SameExcuse ==
    ASSUME text' = text, Excused
    PROVE  Excused'
<1>1. Sentence' = Sentence /\ Phrases' = Phrases /\ Nesting' = Nesting
  BY SameGrammar
<1> QED BY <1>1 DEF Excused, Claimed, Phrase

LEMMA SameDerivation ==
    ASSUME text' = text, Derives(Sentence, Phrases, stack', pc', Read')
    PROVE  Derivation'
BY SameGrammar DEF Derivation

\* The blanks are skipped behind p.
LEMMA SkippedBehind ==
    ASSUME ParserTypeOK, NEW p \in Nat, AfterBom <= p + 1, p <= Len(text),
           NEW q, SkipsTo(p + 1, q)
    PROVE  /\ q \in Nat /\ q >= AfterBom /\ q > p /\ Count(q - 1) = Count(p)
           /\ q < Len(text) => text[q] \notin Blanks
<1>1. Len(text) \in Nat /\ AfterBom \in {1, 2}
  BY TextEnds DEF AfterBom
<1>2. /\ q \in Nat /\ p + 1 <= q /\ q <= Len(text) + 1
      /\ Significant[q - 1] = Significant[(p + 1) - 1]
  <2>1. p + 1 \in Nat /\ AfterBom <= p + 1 /\ p + 1 <= Len(text) + 1
    BY <1>1
  <2> QED BY <2>1, SkippedOver
<1>3. (p + 1) - 1 = p /\ q >= AfterBom /\ q > p
  BY <1>1, <1>2
<1>4. Count(q - 1) = Count(p)
  BY <1>2, <1>3 DEF Count
<1>5. ASSUME q < Len(text), text[q] \in Blanks
      PROVE  FALSE
  <2>1. p + 1 <= Len(text)
    BY <1>1, <1>2, <1>5
  <2>2. q = Len(text)
    BY <1>5, <2>1 DEF SkipsTo, CanAccess
  <2> QED BY <1>1, <1>5, <2>2
<1> QED BY <1>2, <1>3, <1>4, <1>5

\* If more is expected, it is the token at pos.
LEMMA AtNext ==
    ASSUME ParserInv, Place, pc \in {"value", "name", "colon"}, Read < Len(Sentence)
    PROVE  /\ pos <= Len(text) /\ text[pos] \notin Blanks
           /\ text[pos] = Sentence[Read + 1]
<1>1. ParserTypeOK /\ pos \in Nat /\ AfterBom <= pos /\ pos <= Len(text) + 1 /\ Len(text) \in Nat
  BY TextEnds DEF ParserInv, Place
<1>2. Read = Count(pos - 1)
  BY DEF Read
<1>3. PICK q \in pos..Len(text) :
             /\ text[q] \notin Blanks /\ \A i \in pos..q-1 : text[i] \in Blanks
             /\ Sentence[Count(pos - 1) + 1] = text[q]
  BY <1>1, <1>2, MoreAhead
<1>4. q = pos
  <2> SUFFICES ASSUME q # pos
               PROVE  FALSE
    OBVIOUS
  <2>1. pos \in pos..q-1 /\ pos < Len(text)
    BY <1>1
  <2> QED BY <1>3, <2>1 DEF Place
<1> QED BY <1>1, <1>2, <1>3, <1>4

LEMMA ReadIs ==
    ASSUME ParserInv, Place, Reading
    PROVE  Read \in Nat /\ Read <= Len(Sentence) /\ Len(Sentence) \in Nat
<1>1. ParserTypeOK /\ pos \in Nat /\ AfterBom <= pos /\ pos <= Len(text) + 1 /\ Len(text) \in Nat
  BY TextEnds DEF ParserInv, Place
<1>2. Len(Sentence) \in Nat
  BY <1>1, SentenceIs
<1>3. CASE pc = "element"
  <2>1. pos < Len(text)
    BY <1>3 DEF ParserInv, Placed
  <2>2. pos + 1 \in Nat /\ AfterBom <= pos + 1 /\ pos + 1 <= Len(text) + 1 /\ (pos + 1) - 1 = pos
        /\ AfterBom \in Nat
    BY <1>1, <2>1 DEF AfterBom
  <2> QED BY <1>1, <1>2, <1>3, <2>2, CountIs DEF Read
<1>4. CASE pc # "element"
  BY <1>1, <1>2, <1>4, CountIs DEF Read
<1> QED BY <1>3, <1>4

\* The token at pos is read.
LEMMA ReadNext ==
    ASSUME ParserInv, Place, pc \in {"value", "name", "colon"}, pos <= Len(text),
           text[pos] \notin Blanks
    PROVE  /\ Count(pos) = Read + 1 /\ Read \in Nat /\ Read + 1 \in 1..Len(Sentence)
           /\ Sentence[Read + 1] = text[pos]
           /\ Nesting[Read + 1] = Depth + Turn(text[pos])
<1>1. ParserTypeOK /\ pos \in Nat /\ AfterBom <= pos
  BY TextEnds DEF ParserInv, Place
<1>2. Read = Count(pos - 1) /\ Read \in Nat
  BY ReadIs DEF Read, Reading
<1>3. Count(pos) = Read + 1 /\ Count(pos) \in 1..Len(Sentence) /\ Sentence[Count(pos)] = text[pos]
  BY <1>1, <1>2, NextToken
<1>4. Nesting[Read + 1] = Nesting[(Read + 1) - 1] + Turn(Sentence[Read + 1]) /\ (Read + 1) - 1 = Read
  BY <1>1, <1>2, <1>3, NestingIs
<1> QED BY <1>2, <1>3, <1>4 DEF Place

(***************************************************************************)
(* The steps of the parser stay inside every derivation.                   *)
(***************************************************************************)
\* A value of one token.
LEMMA AtomComplete ==
    ASSUME ParserInv, CompleteInv, pc = "value", pos <= Len(text),
           text[pos] \in Plain \cup Strings,
           UNCHANGED <<text, stack>>, pos' = pos + 1, pc' = "after"
    PROVE  CompleteInv'
<1>1. Place /\ Derivation
  BY DEF CompleteInv, Reading
<1>2. text[pos] \notin Blanks
  BY NotBlank DEF Literals
<1>3. /\ Count(pos) = Read + 1 /\ Read \in Nat /\ Read + 1 \in 1..Len(Sentence)
      /\ Sentence[Read + 1] = text[pos]
      /\ Nesting[Read + 1] = Depth + Turn(text[pos])
  BY <1>1, <1>2, ReadNext
<1>4. /\ Turn(text[pos]) = 0
      /\ \A object \in BOOLEAN : text[pos] # Opener(object)
  BY ParserAssumption DEF Turn, Plain, Brackets, Opener
<1>5. /\ Significant' = Significant /\ AfterBom' = AfterBom /\ Sentence' = Sentence
      /\ Phrases' = Phrases /\ Nesting' = Nesting
  BY SameGrammar
<1>6. pos \in Nat /\ pos' \in Nat /\ pos' - 1 = pos /\ AfterBom \in Nat /\ Depth \in Nat
  BY TextEnds DEF ParserInv, AfterBom, ParserTypeOK, Depth
<1>7. Depth' = Depth
  BY DEF Depth
<1>8. Read' = Read + 1
  <2>1. Read' = Count(pos)
    BY <1>5, <1>6 DEF Read, Count
  <2> QED BY <1>3, <2>1
<1>9. Place'
  <2>1. pos' >= AfterBom'
    BY <1>1, <1>5, <1>6 DEF Place
  <2>2. Nesting'[Read'] = Depth'
    BY <1>3, <1>4, <1>5, <1>6, <1>7, <1>8
  <2> QED BY <2>1, <2>2 DEF Place
<1>10. Derivation'
  <2> SUFFICES ASSUME NEW e \in 1..Len(Sentence), Claimed(Sentence, Phrases, e)
               PROVE  \E E : Route(Sentence, Phrases, stack, E, e) /\ Expected(Sentence, Phrases, stack, pc', Read + 1, E, e)
    BY <1>8, SameDerivation DEF Derives
  <2>1. PICK E : Route(Sentence, Phrases, stack, E, e) /\ Expected(Sentence, Phrases, stack, pc, Read, E, e)
    BY <1>1 DEF Derivation, Derives
  <2>2. PICK x \in 1..e : Phrase(Phrases, "value", Read + 1, x) /\ Fits(Sentence, Phrases, stack, E, e, Depth, x)
    BY <2>1 DEF Expected, Depth
  <2>0. Sentence[x] \notin Unsupported
    BY <2>2 DEF Claimed
  <2>3. x = Read + 1
    BY <1>3, <1>4, <2>0, <2>2, ValuePhrase DEF Unsupported
  <2>4. Expected(Sentence, Phrases, stack, pc', Read + 1, E, e)
    BY <1>3, <2>2, <2>3 DEF Expected, Depth
  <2> QED BY <2>1, <2>4
<1> QED BY <1>9, <1>10 DEF CompleteInv

LEMMA ReadPlainComplete == ParserInv /\ CompleteInv /\ ReadPlain => CompleteInv'
<1> SUFFICES ASSUME ParserInv, CompleteInv, ReadPlain
             PROVE  CompleteInv'
  OBVIOUS
<1> QED BY AtomComplete DEF ReadPlain, At, CanAccess, Unchanged

LEMMA ReadStringComplete == ParserInv /\ CompleteInv /\ ReadString => CompleteInv'
<1> SUFFICES ASSUME ParserInv, CompleteInv, ReadString
             PROVE  CompleteInv'
  OBVIOUS
<1> QED BY AtomComplete DEF ReadString, At, CanAccess, Unchanged

LEMMA BeginComplete == ParserInv /\ Begin => CompleteInv'
<1> SUFFICES ASSUME ParserInv, Begin
             PROVE  CompleteInv'
  OBVIOUS
<1>1. /\ pc = "start" /\ pc' = "value" /\ SkipPast(AfterBom - 1)
      /\ UNCHANGED <<text, stack>>
  BY DEF Begin, Unchanged
<1>2. ParserTypeOK /\ stack = <<>> /\ Depth = 0 /\ Depth' = 0
  BY <1>1 DEF ParserInv, Placed, Depth
<1>3. Len(text) \in Nat /\ Len(text) > 0 /\ AfterBom \in {1, 2} /\ AfterBom <= Len(text)
  BY <1>2, TextEnds DEF AfterBom
<1>4. /\ AfterBom - 1 \in Nat /\ AfterBom <= (AfterBom - 1) + 1 /\ AfterBom - 1 <= Len(text)
      /\ AfterBom - 1 < AfterBom /\ AfterBom - 1 \in 0..Len(text)
  BY <1>3
<1>5. SkipsTo((AfterBom - 1) + 1, pos')
  BY <1>1 DEF SkipPast
<1>6. /\ pos' \in Nat /\ pos' >= AfterBom /\ Count(pos' - 1) = Count(AfterBom - 1)
      /\ pos' < Len(text) => text[pos'] \notin Blanks
  BY <1>2, <1>4, <1>5, SkippedBehind
<1>7. Count(AfterBom - 1) = 0
  <2>1. Significant[AfterBom - 1] = <<>>
    BY <1>2, <1>4, SignificantIs
  <2> QED BY <2>1 DEF Count
<1>8. /\ Significant' = Significant /\ AfterBom' = AfterBom /\ Sentence' = Sentence
      /\ Phrases' = Phrases /\ Nesting' = Nesting
  BY <1>1, SameGrammar
<1>9. Read' = 0
  BY <1>1, <1>6, <1>7, <1>8 DEF Read, Count
<1>10. Place'
  <2>1. Nesting[0] = 0
    BY <1>2, NestingIs
  <2> QED BY <1>1, <1>2, <1>6, <1>8, <1>9, <2>1 DEF Place
<1>11. Derivation'
  <2> SUFFICES ASSUME NEW e \in 1..Len(Sentence), Claimed(Sentence, Phrases, e)
               PROVE  \E E : Route(Sentence, Phrases, <<>>, E, e) /\ Expected(Sentence, Phrases, <<>>, "value", 0, E, e)
    BY <1>1, <1>2, <1>9, SameDerivation DEF Derives
  <2> DEFINE E == [i \in 1..Len(<<>>) |-> e]
  <2>1. 1..Len(<<>>) = {} /\ Len(<<>>) = 0 /\ e \in 1..e
    <3>1. Len(Sentence) \in Nat
      BY <1>2, SentenceIs
    <3> QED BY <1>2, <3>1
  <2>2. Route(Sentence, Phrases, <<>>, E, e)
    BY <2>1 DEF Route
  <2>3. Fits(Sentence, Phrases, <<>>, E, e, 0, e)
    BY DEF Fits
  <2>4. Phrase(Phrases, "value", 0 + 1, e)
    BY DEF Claimed
  <2>5. Expected(Sentence, Phrases, <<>>, "value", 0, E, e)
    <3> HIDE DEF E
    <3> QED BY <2>1, <2>3, <2>4 DEF Expected
  <2> QED BY <2>2, <2>5
<1> QED BY <1>1, <1>10, <1>11 DEF CompleteInv

LEMMA ReadNameComplete == ParserInv /\ CompleteInv /\ ReadName => CompleteInv'
<1> SUFFICES ASSUME ParserInv, CompleteInv, ReadName
             PROVE  CompleteInv'
  OBVIOUS
<1>0. /\ pc = "name" /\ pc' = "colon" /\ text[pos] \in Strings /\ SkipPast(pos)
      /\ UNCHANGED <<text, stack>>
  BY DEF ReadName, ReadNameLeaving, Unchanged
<1>1. Place /\ Derivation /\ pos <= Len(text) /\ ParserTypeOK
  BY <1>0 DEF CompleteInv, Reading, ParserInv, Placed, NameInBounds, CanAccess
<1>2. text[pos] \notin Blanks
  BY <1>0, NotBlank DEF Literals
<1>3. /\ Count(pos) = Read + 1 /\ Read \in Nat /\ Read + 1 \in 1..Len(Sentence)
      /\ Sentence[Read + 1] = text[pos]
      /\ Nesting[Read + 1] = Depth + Turn(text[pos])
  BY <1>0, <1>1, <1>2, ReadNext
<1>4. Turn(text[pos]) = 0
  BY <1>0, ParserAssumption DEF Turn, Brackets
<1>5. /\ Significant' = Significant /\ AfterBom' = AfterBom /\ Sentence' = Sentence
      /\ Phrases' = Phrases /\ Nesting' = Nesting
  BY <1>0, SameGrammar
<1>6. pos \in Nat /\ AfterBom \in Nat /\ Depth \in Nat /\ AfterBom <= pos + 1
  <2>1. pos \in Nat /\ AfterBom \in Nat /\ Depth \in Nat /\ AfterBom <= pos
    BY <1>1, TextEnds DEF AfterBom, ParserTypeOK, Depth, Place
  <2> QED BY <2>1
<1>7. Depth' = Depth
  BY <1>0 DEF Depth
<1>8. /\ pos' \in Nat /\ pos' >= AfterBom /\ Count(pos' - 1) = Count(pos)
      /\ pos' < Len(text) => text[pos'] \notin Blanks
  BY <1>0, <1>1, <1>6, SkippedBehind DEF SkipPast
<1>9. Read' = Read + 1
  <2>1. Read' = Count(pos' - 1)
    BY <1>0, <1>5 DEF Read, Count
  <2> QED BY <1>3, <1>8, <2>1
<1>10. Place'
  <2>1. Nesting'[Read'] = Depth'
    BY <1>3, <1>4, <1>5, <1>6, <1>7, <1>9
  <2> QED BY <1>0, <1>5, <1>8, <2>1 DEF Place
<1>11. Derivation'
  <2> SUFFICES ASSUME NEW e \in 1..Len(Sentence), Claimed(Sentence, Phrases, e)
               PROVE  \E E : Route(Sentence, Phrases, stack, E, e) /\ Expected(Sentence, Phrases, stack, pc', Read + 1, E, e)
    BY <1>0, <1>9, SameDerivation DEF Derives
  <2>1. PICK E : Route(Sentence, Phrases, stack, E, e) /\ Expected(Sentence, Phrases, stack, pc, Read, E, e)
    BY <1>1 DEF Derivation, Derives
  <2>2. PICK x \in 1..e : Phrase(Phrases, "member", Read + 1, x) /\ Fits(Sentence, Phrases, stack, E, e, Depth, x)
    BY <1>0, <2>1 DEF Expected, Depth
  <2>3. Sentence[(Read + 1) + 1] = ":" /\ Phrase(Phrases, "value", (Read + 1) + 2, x)
    BY <2>2, MemberPhrase
  <2>4. Expected(Sentence, Phrases, stack, pc', Read + 1, E, e)
    BY <1>0, <1>3, <2>2, <2>3 DEF Expected, Depth
  <2> QED BY <2>1, <2>4
<1> QED BY <1>0, <1>10, <1>11 DEF CompleteInv

LEMMA ReadColonComplete == ParserInv /\ CompleteInv /\ ReadColon => CompleteInv'
<1> SUFFICES ASSUME ParserInv, CompleteInv, ReadColon
             PROVE  CompleteInv'
  OBVIOUS
<1>0. /\ pc = "colon" /\ pc' = "value" /\ pos <= Len(text) /\ text[pos] = ":" /\ SkipPast(pos)
      /\ UNCHANGED <<text, stack>>
  BY DEF ReadColon, Unchanged, At, CanAccess
<1>1. Place /\ Derivation /\ ParserTypeOK
  BY <1>0 DEF CompleteInv, Reading, ParserInv
<1>2. text[pos] \notin Blanks
  BY <1>0, NotBlank
<1>3. /\ Count(pos) = Read + 1 /\ Read \in Nat /\ Read + 1 \in 1..Len(Sentence)
      /\ Sentence[Read + 1] = text[pos]
      /\ Nesting[Read + 1] = Depth + Turn(text[pos])
  BY <1>0, <1>1, <1>2, ReadNext
<1>4. Turn(text[pos]) = 0
  BY <1>0 DEF Turn
<1>5. /\ Significant' = Significant /\ AfterBom' = AfterBom /\ Sentence' = Sentence
      /\ Phrases' = Phrases /\ Nesting' = Nesting
  BY <1>0, SameGrammar
<1>6. pos \in Nat /\ AfterBom \in Nat /\ Depth \in Nat /\ AfterBom <= pos + 1
  <2>1. pos \in Nat /\ AfterBom \in Nat /\ Depth \in Nat /\ AfterBom <= pos
    BY <1>1, TextEnds DEF AfterBom, ParserTypeOK, Depth, Place
  <2> QED BY <2>1
<1>7. Depth' = Depth
  BY <1>0 DEF Depth
<1>8. /\ pos' \in Nat /\ pos' >= AfterBom /\ Count(pos' - 1) = Count(pos)
      /\ pos' < Len(text) => text[pos'] \notin Blanks
  BY <1>0, <1>1, <1>6, SkippedBehind DEF SkipPast
<1>9. Read' = Read + 1
  <2>1. Read' = Count(pos' - 1)
    BY <1>0, <1>5 DEF Read, Count
  <2> QED BY <1>3, <1>8, <2>1
<1>10. Place'
  <2>1. Nesting'[Read'] = Depth'
    BY <1>3, <1>4, <1>5, <1>6, <1>7, <1>9
  <2> QED BY <1>0, <1>5, <1>8, <2>1 DEF Place
<1>11. Derivation'
  <2> SUFFICES ASSUME NEW e \in 1..Len(Sentence), Claimed(Sentence, Phrases, e)
               PROVE  \E E : Route(Sentence, Phrases, stack, E, e) /\ Expected(Sentence, Phrases, stack, pc', Read + 1, E, e)
    BY <1>0, <1>9, SameDerivation DEF Derives
  <2>1. PICK E : Route(Sentence, Phrases, stack, E, e) /\ Expected(Sentence, Phrases, stack, pc, Read, E, e)
    BY <1>1 DEF Derivation, Derives
  <2>2. PICK x \in 1..e : Phrase(Phrases, "value", Read + 2, x) /\ Fits(Sentence, Phrases, stack, E, e, Depth, x)
    BY <1>0, <2>1 DEF Expected, Depth
  <2>3. Read + 2 = (Read + 1) + 1
    BY <1>3
  <2>4. Expected(Sentence, Phrases, stack, pc', Read + 1, E, e)
    BY <1>0, <1>3, <2>2, <2>3 DEF Expected, Depth
  <2> QED BY <2>1, <2>4
<1> QED BY <1>0, <1>10, <1>11 DEF CompleteInv

\* An opening bracket at pos: the derivations close it at x.
LEMMA OpenedValue ==
    ASSUME ParserInv, Place, pc = "value", pos <= Len(text), NEW object \in BOOLEAN,
           text[pos] = Opener(object),
           NEW E, NEW e, Expected(Sentence, Phrases, stack, pc, Read, E, e)
    PROVE  \E x \in 1..e :
             /\ Fits(Sentence, Phrases, stack, E, e, Depth, x)
             /\ Read + 1 < x /\ Sentence[x] = Closer(object)
             /\ x = Read + 2 \/ Phrase(Phrases, ListOf(object), Read + 2, x - 1)
<1>1. /\ text[pos] \notin Blanks /\ text[pos] \notin Plain \cup Literals
      /\ text[pos] \notin Numbers
  BY ParserAssumption, NotBlank DEF Opener, Plain, Blanks, Brackets, Null, Literals, Lone
<1>2. Read \in Nat /\ Sentence[Read + 1] = text[pos]
  BY <1>1, ReadNext
<1>3. PICK x \in 1..e : /\ Phrase(Phrases, "value", Read + 1, x)
                        /\ Fits(Sentence, Phrases, stack, E, e, Depth, x)
  BY DEF Expected, Depth
<1>4. PICK o \in BOOLEAN :
             /\ Read + 1 < x /\ Sentence[Read + 1] = Opener(o) /\ Sentence[x] = Closer(o)
             /\ x = (Read + 1) + 1 \/ Phrase(Phrases, ListOf(o), (Read + 1) + 1, x - 1)
  BY <1>1, <1>2, <1>3, ValuePhrase
<1>5. o = object
  BY <1>2, <1>4 DEF Opener
<1>6. (Read + 1) + 1 = Read + 2
  BY <1>2
<1> QED BY <1>3, <1>4, <1>5, <1>6

\* What the steps over an opening bracket share: the token behind the blanks.
LEMMA PastBracket ==
    ASSUME ParserInv, CompleteInv, pc = "value", pos <= Len(text), NEW object \in BOOLEAN,
           text[pos] = Opener(object), NEW q \in pos+1..Len(text), SkipsTo(pos + 1, q)
    PROVE  /\ ParserTypeOK /\ pos \in Nat /\ q \in Nat /\ Len(text) \in Nat /\ Depth \in Nat
           /\ AfterBom \in Nat /\ AfterBom <= pos /\ q > pos
           /\ Read \in Nat /\ Read + 1 \in 1..Len(Sentence) /\ Len(Sentence) \in Nat
           /\ Nesting[Read + 1] = Depth + 1 /\ Count(q - 1) = Read + 1
           /\ q < Len(text) => text[q] \notin Blanks
<1>1. Place
  BY DEF CompleteInv, Reading
<1>2. text[pos] \notin Blanks /\ Turn(text[pos]) = 1
  BY DEF Opener, Blanks, Null, Turn
<1>3. /\ Count(pos) = Read + 1 /\ Read \in Nat /\ Read + 1 \in 1..Len(Sentence)
      /\ Nesting[Read + 1] = Depth + Turn(text[pos])
  BY <1>1, <1>2, ReadNext
<1>4. ParserTypeOK /\ pos \in Nat /\ AfterBom \in Nat /\ Depth \in Nat /\ AfterBom <= pos
      /\ Len(text) \in Nat
  BY <1>1, TextEnds DEF AfterBom, ParserTypeOK, Depth, Place, ParserInv
<1>5. AfterBom <= pos + 1
  BY <1>4
<1>6. /\ q \in Nat /\ q > pos /\ Count(q - 1) = Count(pos)
      /\ q < Len(text) => text[q] \notin Blanks
  BY <1>4, <1>5, SkippedBehind
<1>7. Len(Sentence) \in Nat
  BY <1>4, SentenceIs
<1> QED BY <1>2, <1>3, <1>4, <1>6, <1>7

LEMMA OpenEmptyComplete == ParserInv /\ CompleteInv /\ OpenEmpty => CompleteInv'
<1> SUFFICES ASSUME ParserInv, CompleteInv, OpenEmpty
             PROVE  CompleteInv'
  OBVIOUS
<1>1. PICK object \in BOOLEAN, q \in pos+1..Len(text) :
        /\ pc = "value" /\ pos <= Len(text) /\ text[pos] = Opener(object)
        /\ SkipsTo(pos + 1, q) /\ text[q] = Closer(object)
        /\ pos' = q + 1 /\ pc' = "after" /\ UNCHANGED <<text, stack>>
  BY DEF OpenEmpty, Opening, Bracket, At, CanAccess, Unchanged
<1>2. /\ ParserTypeOK /\ pos \in Nat /\ q \in Nat /\ Len(text) \in Nat /\ Depth \in Nat
      /\ AfterBom \in Nat /\ AfterBom <= pos /\ q > pos
      /\ Read \in Nat /\ Read + 1 \in 1..Len(Sentence) /\ Len(Sentence) \in Nat
      /\ Nesting[Read + 1] = Depth + 1 /\ Count(q - 1) = Read + 1
  BY <1>1, PastBracket
<1>3. Place /\ Derivation
  BY <1>1 DEF CompleteInv, Reading
<1>4. text[q] \notin Blanks /\ Turn(text[q]) = -1
  BY <1>1 DEF Closer, Blanks, Null, Turn
<1>5. AfterBom <= q /\ q <= Len(text)
  BY <1>2
<1>6. Count(q) = Read + 2 /\ Read + 2 \in 1..Len(Sentence) /\ Sentence[Read + 2] = text[q]
  <2>1. Count(q) = Count(q - 1) + 1 /\ Count(q) \in 1..Len(Sentence) /\ Sentence[Count(q)] = text[q]
    BY <1>2, <1>4, <1>5, NextToken
  <2>2. (Read + 1) + 1 = Read + 2
    BY <1>2
  <2> QED BY <1>2, <2>1, <2>2
<1>7. Nesting[Read + 2] = Depth
  <2>1. Nesting[Read + 2] = Nesting[(Read + 2) - 1] + Turn(Sentence[Read + 2])
    BY <1>2, <1>6, NestingIs
  <2>2. (Read + 2) - 1 = Read + 1 /\ (Depth + 1) + (-1) = Depth
    BY <1>2
  <2> QED BY <1>2, <1>4, <1>6, <2>1, <2>2
<1>8. /\ Significant' = Significant /\ AfterBom' = AfterBom /\ Sentence' = Sentence
      /\ Phrases' = Phrases /\ Nesting' = Nesting
  BY <1>1, SameGrammar
<1>9. Depth' = Depth
  BY <1>1 DEF Depth
<1>10. Read' = Read + 2
  <2>1. pos' - 1 = q
    BY <1>1, <1>2
  <2>2. Read' = Count(q)
    BY <1>1, <1>8, <2>1 DEF Read, Count
  <2> QED BY <1>6, <2>2
<1>11. Place'
  <2>1. pos' >= AfterBom'
    BY <1>1, <1>2, <1>8
  <2> QED BY <1>1, <1>7, <1>8, <1>9, <1>10, <2>1 DEF Place
<1>12. Derivation'
  <2> SUFFICES ASSUME NEW e \in 1..Len(Sentence), Claimed(Sentence, Phrases, e)
               PROVE  \E E : Route(Sentence, Phrases, stack, E, e) /\ Expected(Sentence, Phrases, stack, pc', Read + 2, E, e)
    BY <1>1, <1>10, SameDerivation DEF Derives
  <2>1. PICK E : Route(Sentence, Phrases, stack, E, e) /\ Expected(Sentence, Phrases, stack, pc, Read, E, e)
    BY <1>3 DEF Derivation, Derives
  <2>2. PICK x \in 1..e :
             /\ Fits(Sentence, Phrases, stack, E, e, Depth, x)
             /\ x = Read + 2 \/ Phrase(Phrases, ListOf(object), Read + 2, x - 1)
    BY <1>1, <1>3, <2>1, OpenedValue
  <2>3. ~Phrase(Phrases, ListOf(object), Read + 2, x - 1)
    <3>1. text[q] \notin Plain \cup Literals \cup {"{", "["}
      BY <1>1, ParserAssumption DEF Closer, Plain, Brackets, Literals, Lone
    <3> QED BY <1>6, <3>1, PhraseBegins
  <2>4. Expected(Sentence, Phrases, stack, pc', Read + 2, E, e)
    BY <1>1, <2>2, <2>3 DEF Expected, Depth
  <2> QED BY <2>1, <2>4
<1> QED BY <1>1, <1>11, <1>12 DEF CompleteInv

LEMMA OpenComplete == ParserInv /\ CompleteInv /\ Open => CompleteInv'
<1> SUFFICES ASSUME ParserInv, CompleteInv, Open
             PROVE  CompleteInv'
  OBVIOUS
<1>1. PICK object \in BOOLEAN, q \in pos+1..Len(text) :
        /\ pc = "value" /\ pos <= Len(text) /\ text[pos] = Opener(object)
        /\ SkipsTo(pos + 1, q) /\ text[q] # Closer(object)
        /\ stack' = Append(stack, [object |-> object, head |-> 0, last |-> 0])
        /\ pos' = q - 1 /\ pc' = "element" /\ text' = text
  BY DEF Open, Opening, Bracket, At, CanAccess, Unchanged
<1>2. /\ ParserTypeOK /\ pos \in Nat /\ q \in Nat /\ Len(text) \in Nat /\ Depth \in Nat
      /\ AfterBom \in Nat /\ AfterBom <= pos /\ q > pos
      /\ Read \in Nat /\ Read + 1 \in 1..Len(Sentence) /\ Len(Sentence) \in Nat
      /\ Nesting[Read + 1] = Depth + 1 /\ Count(q - 1) = Read + 1
      /\ q < Len(text) => text[q] \notin Blanks
  BY <1>1, PastBracket
<1>3. Place /\ Derivation
  BY <1>1 DEF CompleteInv, Reading
<1>4. /\ Significant' = Significant /\ AfterBom' = AfterBom /\ Sentence' = Sentence
      /\ Phrases' = Phrases /\ Nesting' = Nesting
  BY <1>1, SameGrammar
<1>5. PICK f \in Frames : f = [object |-> object, head |-> 0, last |-> 0]
  BY DEF Frames
<1>6. PICK s \in Seq(Frames) : s = stack' /\ s = Append(stack, f)
  <2>1. stack \in Seq(Frames)
    BY <1>2 DEF ParserTypeOK
  <2>2. Append(stack, f) \in Seq(Frames)
    BY <2>1
  <2>3. stack' = Append(stack, f)
    BY <1>1, <1>5
  <2> QED BY <2>2, <2>3
<1>7. /\ Len(s) = Depth + 1 /\ s[Depth + 1] = f /\ s[Depth + 1].object = object
      /\ \A i \in 1..Depth : s[i] = stack[i]
  <2>1. Len(s) = Depth + 1 /\ s[Depth + 1] = f /\ \A i \in 1..Depth : s[i] = stack[i]
    BY <1>2, <1>5, <1>6 DEF Depth, ParserTypeOK
  <2> QED BY <1>5, <2>1
<1>8. Depth' = Depth + 1
  BY <1>6, <1>7 DEF Depth
<1>9. Read' = Read + 1
  <2>1. Read' = Count(q - 1)
    BY <1>1, <1>4 DEF Read, Count
  <2> QED BY <1>2, <2>1
<1>10. Place'
  <2>1. pos' >= AfterBom'
    BY <1>1, <1>2, <1>4
  <2> QED BY <1>1, <1>2, <1>4, <1>8, <1>9, <2>1 DEF Place
<1>11. Derivation'
  <2> SUFFICES ASSUME NEW e \in 1..Len(Sentence), Claimed(Sentence, Phrases, e)
               PROVE  \E F : Route(Sentence, Phrases, s, F, e) /\ Expected(Sentence, Phrases, s, "element", Read + 1, F, e)
    BY <1>1, <1>6, <1>9, SameDerivation DEF Derives
  <2>1. PICK E : Route(Sentence, Phrases, stack, E, e) /\ Expected(Sentence, Phrases, stack, pc, Read, E, e)
    BY <1>3 DEF Derivation, Derives
  <2>2. PICK x \in 1..e :
             /\ Fits(Sentence, Phrases, stack, E, e, Depth, x)
             /\ Read + 1 < x /\ Sentence[x] = Closer(object)
             /\ x = Read + 2 \/ Phrase(Phrases, ListOf(object), Read + 2, x - 1)
    BY <1>1, <1>3, <2>1, OpenedValue
  <2>3. Sentence[Read + 2] # Closer(object)
    <3>1. Read + 1 < Len(Sentence)
      BY <1>2, <2>2
    <3>2. AfterBom <= q /\ q <= Len(text) + 1 /\ q <= Len(text)
      BY <1>2
    <3>3. PICK r \in q..Len(text) :
             /\ text[r] \notin Blanks /\ \A i \in q..r-1 : text[i] \in Blanks
             /\ Sentence[Count(q - 1) + 1] = text[r]
      BY <1>2, <3>1, <3>2, MoreAhead
    <3>4. r = q
      <4> SUFFICES ASSUME r # q
                   PROVE  FALSE
        OBVIOUS
      <4>1. q \in q..r-1 /\ q < Len(text)
        BY <1>2
      <4> QED BY <1>2, <3>3, <4>1
    <3>5. (Read + 1) + 1 = Read + 2
      BY <1>2
    <3> QED BY <1>1, <1>2, <3>3, <3>4, <3>5
  <2>4. Phrase(Phrases, ListOf(object), Read + 2, x - 1)
    BY <2>2, <2>3
  <2> DEFINE F == [i \in 1..Len(s) |-> IF i = Depth + 1 THEN x ELSE E[i]]
  <2>5. E \in [1..Depth -> 1..e] /\ \A i \in 1..Depth :
          /\ Sentence[E[i]] = Closer(stack[i].object)
          /\ Fits(Sentence, Phrases, stack, E, e, i - 1, E[i])
    BY <2>1 DEF Route, Depth
  <2>6. F \in [1..Len(s) -> 1..e] /\ F[Depth + 1] = x /\ \A i \in 1..Depth : F[i] = E[i] /\ i # Depth + 1
    <3>1. \A i \in 1..Len(s) : i = Depth + 1 \/ i \in 1..Depth
      BY <1>2, <1>7
    <3>2. \A i \in 1..Depth : i \in 1..Len(s) /\ i # Depth + 1
      BY <1>2, <1>7
    <3>3. Depth + 1 \in 1..Len(s)
      BY <1>2, <1>7
    <3> QED BY <2>5, <3>1, <3>2, <3>3
  <2> HIDE DEF F
  <2>7. ASSUME NEW i \in 0..Depth, NEW y, Fits(Sentence, Phrases, stack, E, e, i, y)
        PROVE  Fits(Sentence, Phrases, s, F, e, i, y)
    <3>1. i = 0 \/ i \in 1..Depth
      BY <1>2
    <3> QED BY <1>7, <2>6, <2>7, <3>1 DEF Fits
  <2>8. Route(Sentence, Phrases, s, F, e)
    <3>1. ASSUME NEW i \in 1..Len(s)
          PROVE  /\ Sentence[F[i]] = Closer(s[i].object)
                 /\ Fits(Sentence, Phrases, s, F, e, i - 1, F[i])
      <4>1. CASE i = Depth + 1
        <5>1. Depth \in 0..Depth /\ i - 1 = Depth
          BY <1>2, <4>1
        <5> QED BY <1>7, <2>2, <2>6, <2>7, <4>1, <5>1
      <4>2. CASE i # Depth + 1
        <5>1. i \in 1..Depth /\ i - 1 \in 0..Depth
          BY <1>2, <1>7, <4>2
        <5> QED BY <1>7, <2>5, <2>6, <2>7, <5>1
      <4> QED BY <4>1, <4>2
    <3> QED BY <2>6, <3>1 DEF Route
  <2>9. Expected(Sentence, Phrases, s, "element", Read + 1, F, e)
    <3>1. (Read + 1) + 1 = Read + 2
      BY <1>2
    <3> QED BY <1>7, <2>4, <2>6, <3>1 DEF Expected
  <2> QED BY <2>8, <2>9
<1> QED BY <1>1, <1>10, <1>11 DEF CompleteInv

\* The derivations only look at what kinds of brackets are open.
LEMMA SameBrackets ==
    ASSUME NEW s, Len(s) = Depth, Depth \in Nat,
           \A i \in 1..Depth : s[i].object = stack[i].object,
           NEW E, NEW e, Route(Sentence, Phrases, stack, E, e)
    PROVE  /\ Route(Sentence, Phrases, s, E, e)
           /\ \A x : Fits(Sentence, Phrases, stack, E, e, Depth, x)
                       => Fits(Sentence, Phrases, s, E, e, Depth, x)
<1>1. ASSUME NEW i \in 0..Depth, NEW y, Fits(Sentence, Phrases, stack, E, e, i, y)
      PROVE  Fits(Sentence, Phrases, s, E, e, i, y)
  <2>1. i = 0 \/ i \in 1..Depth
    OBVIOUS
  <2> QED BY <1>1, <2>1 DEF Fits
<1>2. \A i \in 1..Depth : i - 1 \in 0..Depth
  OBVIOUS
<1>3. Route(Sentence, Phrases, s, E, e)
  BY <1>1, <1>2 DEF Route, Depth
<1>4. Depth \in 0..Depth
  OBVIOUS
<1> QED BY <1>1, <1>3, <1>4

LEMMA NextElementComplete == ParserInv /\ CompleteInv /\ NextElement => CompleteInv'
<1> SUFFICES ASSUME ParserInv, CompleteInv, NextElement
             PROVE  CompleteInv'
  OBVIOUS
<1>1. /\ pc = "element" /\ pc' = (IF Top.object THEN "name" ELSE "value") /\ SkipPast(pos)
      /\ text' = text
  BY DEF NextElement, AddElement, Unchanged
<1>2. Place /\ Derivation /\ ParserTypeOK /\ Depth > 0 /\ pos < Len(text)
  BY <1>1 DEF CompleteInv, Reading, ParserInv, Placed
<1>3. pos \in Nat /\ AfterBom \in Nat /\ Depth \in Nat /\ AfterBom <= pos + 1 /\ pos <= Len(text)
      /\ Len(text) \in Nat
  <2>1. pos \in Nat /\ AfterBom \in Nat /\ Depth \in Nat /\ AfterBom <= pos /\ Len(text) \in Nat
    BY <1>2, TextEnds DEF AfterBom, ParserTypeOK, Depth, Place
  <2> QED BY <1>2, <2>1
<1>4. PICK s : s = stack'
  OBVIOUS
<1>5. /\ Len(s) = Depth /\ s[Depth].object = Top.object
      /\ \A i \in 1..Depth : s[i].object = stack[i].object
  <2>1. stack \in Seq(Frames) /\ Depth \in 1..Depth
    BY <1>2, <1>3 DEF ParserTypeOK
  <2>2. PICK h, l : stack' = [stack EXCEPT ![Depth].head = h, ![Depth].last = l]
    BY DEF NextElement, AddElement
  <2>3. /\ Len(stack') = Depth
        /\ \A i \in 1..Depth : stack'[i].object = stack[i].object
    BY <2>1, <2>2 DEF Depth, Frames
  <2> QED BY <1>4, <2>1, <2>3 DEF Top
<1>6. /\ Significant' = Significant /\ AfterBom' = AfterBom /\ Sentence' = Sentence
      /\ Phrases' = Phrases /\ Nesting' = Nesting
  BY <1>1, SameGrammar
<1>7. Depth' = Depth
  BY <1>4, <1>5 DEF Depth
<1>8. /\ pos' \in Nat /\ pos' >= AfterBom /\ Count(pos' - 1) = Count(pos)
      /\ pos' < Len(text) => text[pos'] \notin Blanks
  BY <1>1, <1>2, <1>3, SkippedBehind DEF SkipPast
<1>9. Read' = Read
  <2>1. Read' = Count(pos' - 1)
    BY <1>1, <1>6 DEF Read, Count
  <2>2. Read = Count(pos)
    BY <1>1 DEF Read
  <2> QED BY <1>8, <2>1, <2>2
<1>10. Place'
  <2>1. Nesting'[Read'] = Depth'
    BY <1>2, <1>6, <1>7, <1>9 DEF Place
  <2> QED BY <1>1, <1>6, <1>8, <2>1 DEF Place
<1>11. Derivation'
  <2> SUFFICES ASSUME NEW e \in 1..Len(Sentence), Claimed(Sentence, Phrases, e)
               PROVE  \E E : Route(Sentence, Phrases, s, E, e) /\ Expected(Sentence, Phrases, s, pc', Read, E, e)
    BY <1>1, <1>4, <1>9, SameDerivation DEF Derives
  <2>1. PICK E : Route(Sentence, Phrases, stack, E, e) /\ Expected(Sentence, Phrases, stack, pc, Read, E, e)
    BY <1>2 DEF Derivation, Derives
  <2>2. PICK object \in BOOLEAN : object = Top.object
    <3>1. stack \in Seq(Frames) /\ Depth \in 1..Depth
      BY <1>2, <1>3 DEF ParserTypeOK
    <3>2. Top \in Frames
      BY <3>1 DEF Top, Depth
    <3> QED BY <3>2 DEF Frames
  <2>3. Phrase(Phrases, ListOf(object), Read + 1, E[Depth] - 1)
    BY <1>1, <2>1, <2>2 DEF Expected, Top, Depth
  <2>4. PICK x \in Nat : /\ Phrase(Phrases, OneOf(object), Read + 1, x)
                         /\ GoesOn(Sentence, Phrases, object, x, (E[Depth] - 1) + 1)
    BY <2>3, ListPhrase
  <2>5. E[Depth] \in 1..e /\ e \in Nat
    <3>1. Len(Sentence) \in Nat
      BY <1>2, SentenceIs
    <3>2. Depth \in 1..Depth
      BY <1>2, <1>3
    <3> QED BY <2>1, <3>1, <3>2 DEF Route, Depth
  <2>6. (E[Depth] - 1) + 1 = E[Depth]
    BY <2>5
  <2>7. x \in 1..e
    <3>1. x >= 1
      BY <2>4, PhraseSpan
    <3>2. PICK c \in 1..e : c = E[Depth]
      BY <2>5
    <3>3. x + 1 = c \/ x + 3 <= c
      BY <2>4, <2>6, <3>2 DEF GoesOn
    <3>4. x <= e
      BY <2>4, <2>5, <3>2, <3>3
    <3> QED BY <2>4, <2>5, <3>1, <3>4
  <2>8. Fits(Sentence, Phrases, stack, E, e, Depth, x)
    BY <1>2, <1>3, <2>2, <2>4, <2>6 DEF Fits, Top
  <2>9. Route(Sentence, Phrases, s, E, e) /\ Fits(Sentence, Phrases, s, E, e, Depth, x)
    BY <1>3, <1>5, <2>1, <2>8, SameBrackets
  <2>10. Expected(Sentence, Phrases, s, pc', Read, E, e)
    BY <1>1, <1>5, <2>2, <2>4, <2>7, <2>9 DEF Expected, OneOf
  <2> QED BY <2>9, <2>10
<1> QED BY <1>1, <1>10, <1>11 DEF CompleteInv

\* What is behind an element.
LEMMA PastElement ==
    ASSUME ParserInv, Place, pc = "after", NEW q \in pos..Len(text), SkipsTo(pos, q),
           text[q] \notin Blanks
    PROVE  /\ ParserTypeOK /\ q \in Nat /\ Depth \in Nat /\ AfterBom \in Nat /\ AfterBom <= q
           /\ Read \in Nat /\ Read + 1 \in 1..Len(Sentence) /\ Len(Sentence) \in Nat
           /\ Count(q) = Read + 1 /\ Sentence[Read + 1] = text[q]
           /\ Nesting[Read + 1] = Depth + Turn(text[q])
<1>1. ParserTypeOK /\ pos \in Nat /\ AfterBom <= pos /\ pos <= Len(text) + 1 /\ Len(text) \in Nat
      /\ AfterBom \in {1, 2} /\ Depth \in Nat
  BY TextEnds DEF AfterBom, ParserTypeOK, Depth, Place, ParserInv
<1>2. /\ pos - 1 \in Nat /\ (pos - 1) + 1 = pos /\ AfterBom <= (pos - 1) + 1 /\ pos - 1 <= Len(text)
  BY <1>1
<1>3. q \in Nat /\ q >= AfterBom /\ Count(q - 1) = Count(pos - 1) /\ q <= Len(text)
  <2>1. SkipsTo((pos - 1) + 1, q)
    BY <1>2
  <2> QED BY <1>1, <1>2, <2>1, SkippedBehind
<1>4. Read = Count(pos - 1) /\ Read \in Nat /\ Len(Sentence) \in Nat
  BY ReadIs DEF Read, Reading
<1>5. Count(q) = Read + 1 /\ Count(q) \in 1..Len(Sentence) /\ Sentence[Count(q)] = text[q]
  <2>1. AfterBom <= q
    BY <1>1, <1>3
  <2> QED BY <1>1, <1>3, <1>4, <2>1, NextToken
<1>6. Nesting[Read + 1] = Nesting[(Read + 1) - 1] + Turn(Sentence[Read + 1]) /\ (Read + 1) - 1 = Read
  BY <1>1, <1>4, <1>5, NestingIs
<1> QED BY <1>1, <1>3, <1>4, <1>5, <1>6 DEF Place

LEMMA CommaComplete == ParserInv /\ CompleteInv /\ Comma => CompleteInv'
<1> SUFFICES ASSUME ParserInv, CompleteInv, Comma
             PROVE  CompleteInv'
  OBVIOUS
<1>1. PICK q \in pos..Len(text) :
        /\ pc = "after" /\ Depth > 0 /\ SkipsTo(pos, q) /\ text[q] = ","
        /\ pos' = q /\ pc' = "element" /\ UNCHANGED <<text, stack>>
  BY DEF Comma, Behind, Unchanged
<1>2. Place /\ Derivation
  BY <1>1 DEF CompleteInv, Reading
<1>3. text[q] \notin Blanks /\ Turn(text[q]) = 0
  BY <1>1 DEF Blanks, Null, Turn
<1>4. /\ ParserTypeOK /\ q \in Nat /\ Depth \in Nat /\ AfterBom \in Nat /\ AfterBom <= q
      /\ Read \in Nat /\ Read + 1 \in 1..Len(Sentence) /\ Len(Sentence) \in Nat
      /\ Count(q) = Read + 1 /\ Sentence[Read + 1] = ","
      /\ Nesting[Read + 1] = Depth
  <2>1. Depth \in Nat => Depth + 0 = Depth
    OBVIOUS
  <2> QED BY <1>1, <1>2, <1>3, <2>1, PastElement
<1>5. /\ Significant' = Significant /\ AfterBom' = AfterBom /\ Sentence' = Sentence
      /\ Phrases' = Phrases /\ Nesting' = Nesting
  BY <1>1, SameGrammar
<1>6. Depth' = Depth
  BY <1>1 DEF Depth
<1>7. Read' = Read + 1
  BY <1>1, <1>4, <1>5 DEF Read, Count
<1>8. Place'
  BY <1>1, <1>4, <1>5, <1>6, <1>7 DEF Place
<1>9. Read \in Nat /\ Depth \in 1..Depth /\ Depth # 0
  <2>1. Depth > 0
    BY <1>1
  <2>2. Read \in Nat /\ Depth \in Nat
    BY <1>4
  <2> QED BY <2>1, <2>2
<1>10. Derivation'
  <2> SUFFICES ASSUME NEW e \in 1..Len(Sentence), Claimed(Sentence, Phrases, e)
               PROVE  \E E : Route(Sentence, Phrases, stack, E, e) /\ Expected(Sentence, Phrases, stack, "element", Read + 1, E, e)
    BY <1>1, <1>7, SameDerivation DEF Derives
  <2>1. PICK E : Route(Sentence, Phrases, stack, E, e) /\ Expected(Sentence, Phrases, stack, pc, Read, E, e)
    BY <1>2 DEF Derivation, Derives
  <2>2. Fits(Sentence, Phrases, stack, E, e, Depth, Read)
    BY <1>1, <2>1 DEF Expected, Depth
  <2>3. GoesOn(Sentence, Phrases, stack[Depth].object, Read, E[Depth])
    BY <1>9, <2>2 DEF Fits
  <2>4. Sentence[E[Depth]] = Closer(stack[Depth].object)
    BY <1>9, <2>1 DEF Route, Depth
  <2>5. Phrase(Phrases, ListOf(stack[Depth].object), Read + 2, E[Depth] - 1)
    BY <1>4, <2>3, <2>4 DEF GoesOn, Closer
  <2>6. Expected(Sentence, Phrases, stack, "element", Read + 1, E, e)
    <3>1. (Read + 1) + 1 = Read + 2
      BY <1>9
    <3> QED BY <2>5, <3>1 DEF Expected, Depth
  <2> QED BY <2>1, <2>6
<1> QED BY <1>1, <1>8, <1>10 DEF CompleteInv

LEMMA CloseComplete == ParserInv /\ CompleteInv /\ Close => CompleteInv'
<1> SUFFICES ASSUME ParserInv, CompleteInv, Close
             PROVE  CompleteInv'
  OBVIOUS
<1>1. PICK q \in pos..Len(text) :
        /\ pc = "after" /\ Depth > 0 /\ SkipsTo(pos, q) /\ text[q] = Closer(Top.object)
        /\ pos' = q + 1 /\ pc' = "after" /\ text' = text /\ stack' = Front(stack)
  BY DEF Close, CloseAs, Behind, Unchanged
<1>2. Place /\ Derivation
  BY <1>1 DEF CompleteInv, Reading
<1>3. text[q] \notin Blanks /\ Turn(text[q]) = -1
  BY <1>1 DEF Blanks, Null, Turn, Closer
<1>4. /\ ParserTypeOK /\ q \in Nat /\ Depth \in Nat /\ AfterBom \in Nat /\ AfterBom <= q
      /\ Read \in Nat /\ Read + 1 \in 1..Len(Sentence) /\ Len(Sentence) \in Nat
      /\ Count(q) = Read + 1 /\ Sentence[Read + 1] = Closer(Top.object)
      /\ Nesting[Read + 1] = Depth - 1
  <2>1. Depth \in Nat => Depth + (-1) = Depth - 1
    OBVIOUS
  <2> QED BY <1>1, <1>2, <1>3, <2>1, PastElement
<1>5. /\ Significant' = Significant /\ AfterBom' = AfterBom /\ Sentence' = Sentence
      /\ Phrases' = Phrases /\ Nesting' = Nesting
  BY <1>1, SameGrammar
<1>6. PICK s : s = stack'
  OBVIOUS
<1>7. Len(s) = Depth - 1 /\ \A i \in 1..Depth - 1 : s[i] = stack[i]
  <2>1. stack \in Seq(Frames) /\ stack # <<>>
    BY <1>1, <1>4 DEF ParserTypeOK, Depth
  <2> QED BY <1>1, <1>6, <2>1, FrontFrames DEF Depth
<1>8. Depth' = Depth - 1
  BY <1>6, <1>7 DEF Depth
<1>9. Read' = Read + 1
  <2>1. pos' - 1 = q
    BY <1>1, <1>4
  <2> QED BY <1>1, <1>4, <1>5, <2>1 DEF Read, Count
<1>10. Place'
  <2>1. pos' >= AfterBom'
    BY <1>1, <1>4, <1>5
  <2> QED BY <1>1, <1>4, <1>5, <1>8, <1>9, <2>1 DEF Place
<1>11. Derivation'
  <2> SUFFICES ASSUME NEW e \in 1..Len(Sentence), Claimed(Sentence, Phrases, e)
               PROVE  \E F : Route(Sentence, Phrases, s, F, e) /\ Expected(Sentence, Phrases, s, "after", Read + 1, F, e)
    BY <1>1, <1>6, <1>9, SameDerivation DEF Derives
  <2>1. PICK E : Route(Sentence, Phrases, stack, E, e) /\ Expected(Sentence, Phrases, stack, pc, Read, E, e)
    BY <1>2 DEF Derivation, Derives
  <2>2. GoesOn(Sentence, Phrases, Top.object, Read, E[Depth])
    BY <1>1, <1>4, <2>1 DEF Expected, Depth, Fits, Top
  <2>3. E[Depth] = Read + 1
    BY <1>4, <2>2 DEF GoesOn, Closer
  <2>4. E \in [1..Depth -> 1..e] /\ \A i \in 1..Depth :
          /\ Sentence[E[i]] = Closer(stack[i].object)
          /\ Fits(Sentence, Phrases, stack, E, e, i - 1, E[i])
    BY <2>1 DEF Route, Depth
  <2>5. Depth \in 1..Depth /\ Depth - 1 \in 0..Depth - 1 /\ Depth - 1 \in Nat
        /\ \A i \in 1..Depth - 1 : i \in 1..Depth /\ i - 1 \in 0..Depth - 1
    BY <1>1, <1>4
  <2> DEFINE F == [i \in 1..Depth - 1 |-> E[i]]
  <2>6. F \in [1..Depth - 1 -> 1..e] /\ \A i \in 1..Depth - 1 : F[i] = E[i]
    BY <2>4, <2>5
  <2> HIDE DEF F
  <2>7. ASSUME NEW i \in 0..Depth - 1, NEW y, Fits(Sentence, Phrases, stack, E, e, i, y)
        PROVE  Fits(Sentence, Phrases, s, F, e, i, y)
    <3>1. i = 0 \/ i \in 1..Depth - 1
      BY <2>5
    <3> QED BY <1>7, <2>6, <2>7, <3>1 DEF Fits
  <2>8. Route(Sentence, Phrases, s, F, e)
    BY <1>7, <2>4, <2>5, <2>6, <2>7 DEF Route
  <2>9. Fits(Sentence, Phrases, s, F, e, Depth - 1, Read + 1)
    BY <2>3, <2>4, <2>5, <2>7
  <2>10. Expected(Sentence, Phrases, s, "after", Read + 1, F, e)
    BY <1>7, <2>9 DEF Expected
  <2> QED BY <2>8, <2>10
<1> QED BY <1>1, <1>10, <1>11 DEF CompleteInv

LEMMA StarveComplete == ParserInv /\ CompleteInv /\ Starve => CompleteInv'
<1> SUFFICES ASSUME ParserInv, CompleteInv, Starve
             PROVE  CompleteInv'
  OBVIOUS
<1>1. starved' /\ pc' = "fail"
  BY DEF Starve, Fails
<1> QED BY <1>1 DEF CompleteInv, Reading

LEMMA FinishComplete == ParserInv /\ CompleteInv /\ Finish => CompleteInv'
<1> SUFFICES ASSUME ParserInv, CompleteInv, Finish
             PROVE  CompleteInv'
  OBVIOUS
<1>1. pc = "after" /\ Depth = 0 /\ pc' = "done" /\ root' = root
  BY DEF Finish
<1>2. Current
  BY <1>1 DEF ParserInv, Reading
<1>3. root # 0
  BY <1>1, <1>2 DEF Current, Chain
<1> QED BY <1>1, <1>3 DEF CompleteInv, Reading

\* After a failure the verdict on the text does not change.
LEMMA CleanupComplete ==
    ASSUME CompleteInv, pc = "fail", pc' \in {"fail", "done"},
           UNCHANGED <<text, starved>>
    PROVE  CompleteInv'
<1>1. starved \/ Excused
  BY DEF CompleteInv
<1>2. starved' \/ Excused'
  BY <1>1, SameExcuse
<1> QED BY <1>2 DEF CompleteInv, Reading

\* What parse_value, parse_object or parse_array refuses is not in the grammar,
\* or it is a bracket that exceeds the limit.
LEMMA RefuseComplete == ParserInv /\ CompleteInv /\ Refuse => CompleteInv'
<1> SUFFICES ASSUME ParserInv, CompleteInv, Refuse
             PROVE  CompleteInv'
  OBVIOUS
<1>1. pc' = "fail" /\ text' = text /\ Reading
  BY DEF Refuse, Fails, Reading
<1>2. Place /\ Derivation /\ ParserTypeOK
  BY <1>1 DEF CompleteInv, ParserInv
<1>3. Read \in Nat /\ Len(Sentence) \in Nat /\ pos \in Nat /\ Len(text) \in Nat /\ Depth \in Nat
      /\ AfterBom \in Nat /\ AfterBom <= pos /\ pos <= Len(text) + 1 /\ NestingLimit \in Nat
  <2>1. Read \in Nat /\ Len(Sentence) \in Nat
    BY <1>1, <1>2, ReadIs
  <2>2. AfterBom <= pos
    BY <1>2 DEF Place
  <2>3. pos \in Nat /\ pos <= Len(text) + 1 /\ AfterBom \in Nat /\ Len(text) \in Nat
        /\ Depth \in Nat
    BY <1>2, TextEnds DEF ParserTypeOK, AfterBom, Depth
  <2> QED BY <2>1, <2>2, <2>3, ParserAssumption
<1>4. ASSUME NEW e \in 1..Len(Sentence), Claimed(Sentence, Phrases, e)
      PROVE  \E i \in 1..e : Nesting[i] > NestingLimit
  <2>1. PICK E : Route(Sentence, Phrases, stack, E, e) /\ Expected(Sentence, Phrases, stack, pc, Read, E, e)
    BY <1>2, <1>4 DEF Derivation, Derives
  <2>2. e \in Nat /\ e <= Len(Sentence)
    BY <1>3
  <2>3. CASE pc = "value" /\ ~At(pos, Plain \cup Strings)
             /\ ~ \E object \in BOOLEAN, q \in pos+1..Len(text) :
                    Opening(object) /\ SkipsTo(pos + 1, q)
    <3>1. PICK x \in 1..e : Phrase(Phrases, "value", Read + 1, x)
      BY <2>1, <2>3 DEF Expected
    <3>2. Read + 1 <= Len(Sentence)
      BY <3>1, PhraseSpan
    <3>3. /\ pos <= Len(text) /\ text[pos] \notin Blanks /\ text[pos] = Sentence[Read + 1]
      BY <1>2, <1>3, <2>3, <3>2, AtNext
    <3>0. Read + 1 \in 1..e /\ Sentence[Read + 1] \notin Unsupported
      <4>1. Read + 1 <= x
        BY <3>1, PhraseSpan
      <4>2. Read + 1 \in 1..e
        BY <1>3, <2>2, <4>1
      <4> QED BY <1>4, <4>2 DEF Claimed
    <3>4. Sentence[Read + 1] \notin Plain \cup Literals
      BY <2>3, <3>0, <3>3 DEF At, CanAccess, Literals, Unsupported
    <3>5. PICK object \in BOOLEAN : Read + 1 < x /\ Sentence[Read + 1] = Opener(object)
      BY <3>1, <3>4, ValuePhrase DEF Plain
    <3>6. Bracket(object)
      BY <2>3, <3>3, <3>5 DEF Bracket, At, CanAccess
    <3>7. Count(pos) = Read + 1 /\ Nesting[Read + 1] = Depth + Turn(text[pos])
      BY <1>2, <2>3, <3>3, ReadNext
    <3>8. Turn(text[pos]) = 1
      BY <3>3, <3>5 DEF Turn, Opener
    <3>9. Depth >= NestingLimit
      <4> SUFFICES ASSUME Depth < NestingLimit
                   PROVE  FALSE
        BY <1>3
      <4>1. pos + 1 \in Nat /\ AfterBom <= pos + 1 /\ pos + 1 <= Len(text) + 1 /\ (pos + 1) - 1 = pos
        BY <1>3, <3>3
      <4>2. Read + 1 < Len(Sentence)
        BY <1>3, <2>2, <3>5
      <4>3. Count((pos + 1) - 1) < Len(Sentence)
        BY <3>7, <4>1, <4>2
      <4>4. PICK q \in (pos + 1)..Len(text) : SkipsTo(pos + 1, q)
        BY <1>2, <4>1, <4>3, MoreAhead
      <4>5. Opening(object)
        BY <3>6 DEF Opening
      <4> QED BY <2>3, <4>4, <4>5
    <3>10. Nesting[Read + 1] > NestingLimit
      BY <1>3, <3>7, <3>8, <3>9
    <3> QED BY <3>0, <3>10
  <2>4. CASE pc = "name" /\ text[pos] \notin Strings
    <3>1. PICK x \in 1..e : Phrase(Phrases, "member", Read + 1, x)
      BY <2>1, <2>4 DEF Expected
    <3>2. Read + 1 <= Len(Sentence) /\ Read + 1 <= x /\ Sentence[Read + 1] \in Literals
      BY <3>1, PhraseSpan, MemberPhrase
    <3>4. Read + 1 \in 1..e
      BY <1>3, <2>2, <3>2
    <3>5. Sentence[Read + 1] \in Strings
      BY <1>4, <3>2, <3>4 DEF Claimed, Literals, Unsupported
    <3>3. text[pos] = Sentence[Read + 1]
      BY <1>2, <1>3, <2>4, <3>2, AtNext
    <3> QED BY <2>4, <3>3, <3>5
  <2>5. CASE pc = "colon" /\ ~At(pos, {":"})
    <3>1. PICK x \in 1..e : Sentence[Read + 1] = ":" /\ Phrase(Phrases, "value", Read + 2, x)
      BY <2>1, <2>5 DEF Expected
    <3>2. Read + 2 <= Len(Sentence)
      BY <3>1, PhraseSpan
    <3>3. pos <= Len(text) /\ text[pos] = Sentence[Read + 1]
      BY <1>2, <1>3, <2>5, <3>2, AtNext
    <3> QED BY <2>5, <3>1, <3>3 DEF At, CanAccess
  <2>6. CASE pc = "after" /\ Depth > 0
             /\ ~ \E q \in pos..Len(text) :
                    Behind(q) /\ text[q] \in {",", Closer(Top.object)}
    <3>0. Depth \in 1..Depth /\ Depth # 0
      <4>1. Depth > 0
        BY <2>6
      <4> QED BY <1>3, <4>1
    <3>1. GoesOn(Sentence, Phrases, Top.object, Read, E[Depth])
      BY <2>1, <2>6, <3>0 DEF Expected, Depth, Fits, Top
    <3>2. PICK c \in 1..e : c = E[Depth] /\ Sentence[c] = Closer(Top.object)
      BY <2>1, <3>0 DEF Route, Depth, Top
    <3>3. Sentence[Read + 1] \in {",", Closer(Top.object)}
      BY <3>1, <3>2 DEF GoesOn
    <3>4. Read + 1 = c \/ Read + 3 <= c
      BY <3>1, <3>2 DEF GoesOn
    <3>5. Read < Len(Sentence)
      BY <1>3, <2>2, <3>4
    <3>6. Read = Count(pos - 1)
      BY <2>6 DEF Read
    <3>7. PICK q \in pos..Len(text) : SkipsTo(pos, q) /\ Sentence[Count(pos - 1) + 1] = text[q]
      BY <1>2, <1>3, <3>5, <3>6, MoreAhead
    <3>8. Behind(q) /\ text[q] \in {",", Closer(Top.object)}
      BY <2>6, <3>3, <3>6, <3>7 DEF Behind
    <3> QED BY <2>6, <3>7, <3>8
  <2> QED BY <2>3, <2>4, <2>5, <2>6 DEF Refuse
<1>5. Excused
  BY <1>4 DEF Excused
<1>6. Excused'
  BY <1>1, <1>5, SameExcuse
<1> QED BY <1>1, <1>6 DEF CompleteInv, Reading

LEMMA CompleteQuiet ==
    ASSUME CompleteInv, UNCHANGED parserVars
    PROVE  CompleteInv'
<1>1. UNCHANGED <<pc, text, pos, root, stack, starved>>
  BY DEF parserVars
<1>2. /\ Significant' = Significant /\ AfterBom' = AfterBom /\ Sentence' = Sentence
      /\ Phrases' = Phrases /\ Nesting' = Nesting
  BY <1>1, SameGrammar
<1>3. Read' = Read /\ Depth' = Depth
  BY <1>1, <1>2 DEF Read, Count, Depth
<1>4. Place => Place'
  BY <1>1, <1>2, <1>3 DEF Place
<1>5. Derivation => Derivation'
  <2> SUFFICES ASSUME Derivation
               PROVE  Derives(Sentence, Phrases, stack', pc', Read')
    BY <1>1, SameDerivation
  <2> QED BY <1>1, <1>3 DEF Derivation
<1>6. Excused => Excused'
  BY <1>1, SameExcuse
<1> QED BY <1>1, <1>4, <1>5, <1>6 DEF CompleteInv, Reading

LEMMA CompleteStep == ParserInv /\ CompleteInv /\ [ParserNext]_parserVars => CompleteInv'
<1> SUFFICES ASSUME ParserInv, CompleteInv, [ParserNext]_parserVars
             PROVE  CompleteInv'
  OBVIOUS
<1>1. CASE Begin
  BY <1>1, BeginComplete
<1>2. CASE ReadPlain
  BY <1>2, ReadPlainComplete
<1>3. CASE ReadString
  BY <1>3, ReadStringComplete
<1>4. CASE OpenEmpty
  BY <1>4, OpenEmptyComplete
<1>5. CASE Open
  BY <1>5, OpenComplete
<1>6. CASE NextElement
  BY <1>6, NextElementComplete
<1>7. CASE ReadName
  BY <1>7, ReadNameComplete
<1>8. CASE ReadColon
  BY <1>8, ReadColonComplete
<1>9. CASE Comma
  BY <1>9, CommaComplete
<1>10. CASE Close
  BY <1>10, CloseComplete
<1>11. CASE Finish
  BY <1>11, FinishComplete
<1>12. CASE Starve
  BY <1>12, StarveComplete
<1>13. CASE Refuse
  BY <1>13, RefuseComplete
<1>14. CASE Unwind \/ DeleteRoot \/ ReturnNull
  <2>1. pc = "fail" /\ pc' \in {"fail", "done"} /\ UNCHANGED <<text, starved>>
    BY <1>14 DEF Unwind, UnwindWith, DeleteRoot, ReturnNull, Failing
  <2> QED BY <2>1, CleanupComplete
<1>15. CASE DeleteChild \/ DeleteItem \/ DeleteReturns
  <2>1. del # <<>> /\ UNCHANGED <<pc, text, starved>>
    BY <1>15 DEF DeleteChild, DeleteItem, DeleteReturns, Deleting
  <2>2. pc = "fail"
    BY <2>1 DEF ParserInv, Placed
  <2> QED BY <2>1, <2>2, CleanupComplete
<1>16. CASE UNCHANGED parserVars
  BY <1>16, CompleteQuiet
<1> QED
  BY <1>1, <1>2, <1>3, <1>4, <1>5, <1>6, <1>7, <1>8, <1>9, <1>10, <1>11,
     <1>12, <1>13, <1>14, <1>15, <1>16 DEF ParserNext

LEMMA NothingMissing == ASSUME ParserTypeOK, CompleteInv PROVE Complete
<1> SUFFICES ASSUME pc = "done", root = 0, ~starved, NEW j \in 1..Len(Sentence),
                    <<"value", 1, j>> \in Derived[2 * Len(Sentence)]
             PROVE  \E i \in 1..j : Nesting[i] > NestingLimit \/ Sentence[i] \in Unsupported
  BY DEF Complete
<1>1. 2 * Len(Sentence) \in Nat
  <2>1. Len(Sentence) \in Nat
    BY SentenceIs
  <2> QED BY <2>1
<1>2. Phrase(Phrases, "value", 1, j)
  BY <1>1 DEF Phrase, Phrases
<1> QED BY <1>2 DEF CompleteInv, Excused, Claimed

\* Before anything is read.
LEMMA CompleteStart == pc = "start" => CompleteInv
BY DEF CompleteInv, Reading

LEMMA CompleteAlways == ParserSpec => [](ParserInv /\ CompleteInv)
<1>1. ParserInit => ParserInv /\ CompleteInv
  BY InitInv, CompleteStart DEF ParserInit
<1>2. (ParserInv /\ CompleteInv) /\ [ParserNext]_parserVars => (ParserInv /\ CompleteInv)'
  BY StepInv, CompleteStep
<1> QED BY <1>1, <1>2, PTL DEF ParserSpec

\* cJSON_Parse, on any text that begins with a value in JSON, whatever stands
\* behind the value: when it returns NULL, and no allocation has failed, each
\* such value exceeds CJSON_NESTING_LIMIT, has a number of more than the 63
\* characters that parse_number takes, or a literal with half a surrogate pair.
THEOREM ValidTextIsParsed == ParserSpec => []Complete
<1>1. ParserInv /\ CompleteInv => Complete
  BY NothingMissing DEF ParserInv
<1> QED BY <1>1, CompleteAlways, PTL

LEMMA ConfigCompleteInit == Init => CompleteInv
<1> SUFFICES ASSUME Init
             PROVE  CompleteInv
  OBVIOUS
<1>1. ParserTypeOK
  BY ConfigInit DEF ConfigInv, ParserInv
<1>2. pc \in {"start", "done"} /\ text = <<Null>>
  BY DEF Init
<1>3. Len(Sentence) = 0
  <2>1. Len(text) = 1 /\ text[1] = Null /\ AfterBom = 1
    BY <1>2 DEF AfterBom
  <2>2. Significant[0] = <<>>
    BY <1>1, <2>1, SignificantIs
  <2>3. Significant[1] = Significant[0] \o <<>>
    <3>1. 1 \in 1..Len(text) /\ 1 >= AfterBom /\ 1 - 1 = 0
      BY <2>1
    <3>2. Visible(text[1]) = <<>>
      BY <2>1 DEF Visible, Blanks
    <3> QED BY <1>1, <3>1, <3>2, SignificantIs
  <2> QED BY <2>1, <2>2, <2>3 DEF Sentence
<1>4. Excused
  BY <1>3 DEF Excused
<1> QED BY <1>2, <1>4 DEF CompleteInv, Reading

LEMMA ConfigCompleteStep == ConfigInv /\ CompleteInv /\ [Next]_vars => CompleteInv'
<1> SUFFICES ASSUME ConfigInv, CompleteInv, [Next]_vars
             PROVE  CompleteInv'
  OBVIOUS
<1>1. ASSUME pc' = "start"
      PROVE  CompleteInv'
  BY <1>1, CompleteStart DEF CompleteInv, Reading
<1>2. CASE ReadFile
  BY <1>1, <1>2 DEF ReadFile, Parse
<1>3. CASE ReceiveStream
  BY <1>1, <1>3 DEF ReceiveStream, Parse
<1>4. CASE Parsing
  BY <1>4, CompleteStep DEF Parsing, ConfigInv
<1>5. ASSUME \/ SendStream \/ Parsed \/ LookUpPointer \/ LookUpNumber \/ NullPointer
             \/ Unchecked \/ Configured \/ NoAddress \/ CallFails \/ Stopped
             \/ UNCHANGED vars
      PROVE  CompleteInv'
  <2>1. UNCHANGED parserVars
    BY <1>5 DEF SendStream, Parsed, LookUpPointer, LookUpNumber, Store, NullPointer, Unchecked,
                Crash, Configured, NoAddress, CallFails, Proceed, Stopped, vars,
                configVars
  <2> QED BY <2>1, CompleteQuiet
<1> QED BY <1>2, <1>3, <1>4, <1>5 DEF Next

\* In each program that parses a configuration, cJSON_Parse refuses JSON for the
\* same reasons only: that of the file, whatever memory is read behind it, and
\* what the server's recv() returns, wherever it is cut.
THEOREM ConfigValidTextIsParsed == Spec => []Complete
<1>1. Init => ConfigInv /\ CompleteInv
  BY ConfigInit, ConfigCompleteInit
<1>2. (ConfigInv /\ CompleteInv) /\ [Next]_vars => (ConfigInv /\ CompleteInv)'
  BY ConfigStep, ConfigCompleteStep
<1>3. ConfigInv /\ CompleteInv => Complete
  BY NothingMissing DEF ConfigInv, ParserInv
<1> QED BY <1>1, <1>2, <1>3, PTL DEF Spec

=============================================================================
