---------------------------- MODULE PacketsProofs ----------------------------
(***************************************************************************)
(* Theorems about the packets, for every address, port, sequence number    *)
(* and id: what is written as an id, what the loops of checksum() compute, *)
(* and that a receiver accepts both checksums of a SYN.  The sum of a      *)
(* sequence is a recursive function; what it computes is proved by         *)
(* induction, which here is a lemma about sets of numbers.                 *)
(***************************************************************************)
EXTENDS Packets, SequenceTheorems, WellFoundedInduction, TLAPS

\* Both branches of set_packet_id write the number they are given.
LEMMA IdBytesValue ==
  ASSUME NEW n \in Nat
  PROVE  256 * IdBytes(n)[1] + IdBytes(n)[2] = n % 65536
  <1>1. CASE n <= 255
    BY <1>1 DEF IdBytes, IdBytesUpTo
  <1>2. CASE n > 255
    BY <1>2 DEF IdBytes, IdBytesUpTo
  <1> QED
    BY <1>1, <1>2

\* One turn of the folding loop of checksum() makes the sum smaller and keeps
\* its remainder, so that the loop ends, and it never yields 0.
LEMMA FoldedSmaller ==
  ASSUME NEW s \in Nat, s > 65535,
         NEW f, f = (s % 65536) + (s \div 65536)
  PROVE  f \in Nat /\ 0 < f /\ f < s /\ f % 65535 = s % 65535
  <1> DEFINE q == s \div 65536
             r == s % 65536
  <1>1. q \in Nat /\ r \in 0..65535 /\ s = 65536 * q + r
    OBVIOUS
  <1>2. q > 0
    BY <1>1
  <1>3. f = q + r /\ s = f + 65535 * q
    BY <1>1
  <1> HIDE DEF q, r
  <1>4. f \in Nat /\ 0 < f /\ f < s
    BY <1>1, <1>2, <1>3
  <1>5. f % 65535 = s % 65535
    BY <1>1, <1>3, <1>4
  <1> QED
    BY <1>4, <1>5

-----------------------------------------------------------------------------
\* Whatever id a datagram is given, its first two bytes are the low 16 bits of
\* the id, high byte first.
THEOREM IdsOnWire == Spec => []IdOnWire
  <1>1. Init => IdOnWire
    BY DEF Init, IdOnWire
  <1>2. IdOnWire /\ [Next]_vars => IdOnWire'
    <2> SUFFICES ASSUME IdOnWire, [Next]_vars, pc' = "payload"
                 PROVE  256 * packet'[1] + packet'[2] = id' % 65536
      BY DEF IdOnWire
    <2>1. CASE CreatePayload
      BY <2>1, IdBytesValue, PacketsAssumption DEF CreatePayload
    <2>2. CASE UNCHANGED vars
      BY <2>2 DEF vars, IdOnWire
    <2>3. ~(FillHeaders \/ Accumulate \/ Fold \/ Store \/ ReadId \/ NoMemory)
      BY DEF FillHeaders, Sum, Accumulate, Fold, FoldTo, Store, StoreOf,
             ReadId, NoMemory
    <2> QED
      BY <2>1, <2>2, <2>3 DEF Next, Made
  <1> QED
    BY <1>1, <1>2, PTL DEF Spec


-----------------------------------------------------------------------------
(***************************************************************************)
(* Types.                                                                  *)
(***************************************************************************)

LEMMA PairIsSeq ==
  ASSUME NEW p \in Words \X Words
  PROVE  p \in Seq(Words) /\ Len(p) = 2
  <1>1. PICK a \in Words, b \in Words : p = <<a, b>>
    OBVIOUS
  <1> QED
    BY <1>1

LEMMA Concatenated ==
  ASSUME NEW a \in Seq(Words), NEW b \in Seq(Words)
  PROVE  a \o b \in Seq(Words) /\ Len(a \o b) = Len(a) + Len(b)
  BY ConcatProperties

LEMMA ConcatenatedAt ==
  ASSUME NEW a \in Seq(Words), NEW b \in Seq(Words)
  PROVE  /\ \A k \in 1..Len(a) : (a \o b)[k] = a[k]
         /\ \A k \in 1..Len(b) : (a \o b)[Len(a) + k] = b[k]
  BY ConcatProperties

\* The words checksum() is given are 16 bits wide, and there are twenty in a SYN.
LEMMA HeaderWords ==
  ASSUME NEW src \in Hosts, NEW dst \in Hosts, NEW sport \in Ports,
         NEW dport \in Ports, NEW seq \in SeqNos
  PROVE  /\ IpHeader(src, dst) \in Seq(Words)
         /\ TcpHeader(sport, dport, seq) \in Seq(Words)
         /\ PseudoHeader(src, dst) \in Seq(Words)
         /\ Len(IpHeader(src, dst)) = IpSize
         /\ Len(TcpHeader(sport, dport, seq)) = IpSize
         /\ Len(PseudoHeader(src, dst)) = 6
         /\ IpHeader(src, dst)[IpSum] = 0
         /\ TcpHeader(sport, dport, seq)[TcpSum - IpSize] = 0
  <1>1. /\ src \in Seq(Words) /\ dst \in Seq(Words) /\ seq \in Seq(Words)
        /\ Len(src) = 2 /\ Len(dst) = 2 /\ Len(seq) = 2
    BY PairIsSeq, PacketsAssumption
  <1>2. /\ IpHeader(src, dst) \in Seq(Words) /\ Len(IpHeader(src, dst)) = IpSize
        /\ IpHeader(src, dst)[IpSum] = 0
    <2> DEFINE start == <<Word(64 + 5, 0), Htons(40), Htons(0), Htons(0),
                          Word(255, IPPROTO_TCP), 0>>
    <2>1. Word(64 + 5, 0) \in Words /\ Word(255, IPPROTO_TCP) \in Words
      BY DEF Word, Words, IPPROTO_TCP
    <2>2. Htons(40) \in Words /\ Htons(0) \in Words /\ 0 \in Words
      BY DEF Htons, Word, Words
    <2>3. start \in Seq(Words) /\ Len(start) = 6 /\ start[6] = 0
      BY <2>1, <2>2
    <2>4. IpHeader(src, dst) = (start \o src) \o dst
      BY DEF IpHeader
    <2> HIDE DEF start
    <2>5. start \o src \in Seq(Words) /\ Len(start \o src) = 6 + 2
      BY <1>1, <2>3, Concatenated, Zenon
    <2>6. /\ (start \o src) \o dst \in Seq(Words)
          /\ Len((start \o src) \o dst) = (6 + 2) + 2
      BY <1>1, <2>5, Concatenated, Zenon
    <2>7. (6 + 2) + 2 = IpSize
      BY DEF IpSize
    <2>8. ((start \o src) \o dst)[6] = 0
      <3>1. (start \o src)[6] = 0
        <4>1. 6 \in 1..Len(start)
          BY <2>3
        <4> QED
          BY <1>1, <2>3, <4>1, ConcatenatedAt
      <3> DEFINE both == start \o src
      <3>2. both \in Seq(Words) /\ Len(both) = 8 /\ both[6] = 0
        BY <2>5, <3>1
      <3> HIDE DEF both
      <3>3. (both \o dst)[6] = 0
        <4>1. 6 \in 1..Len(both)
          BY <3>2
        <4> QED
          BY <1>1, <3>2, <4>1, ConcatenatedAt
      <3> QED
        BY <3>3 DEF both
    <2>9. IpHeader(src, dst)[IpSum] = 0
      BY <2>4, <2>8 DEF IpSum
    <2> QED
      BY <2>4, <2>6, <2>7, <2>9, Zenon
  <1>3. /\ TcpHeader(sport, dport, seq) \in Seq(Words)
        /\ Len(TcpHeader(sport, dport, seq)) = IpSize
        /\ TcpHeader(sport, dport, seq)[TcpSum - IpSize] = 0
    <2> DEFINE ports == <<sport, dport>>
               rest  == <<0, 0, Word(5 * 16, 2), Htons(1460), 0, 0>>
    <2>1. Word(5 * 16, 2) \in Words /\ Htons(1460) \in Words /\ 0 \in Words
      BY DEF Htons, Word, Words
    <2>2. rest \in Seq(Words) /\ Len(rest) = 6 /\ rest[5] = 0
      BY <2>1
    <2>3. ports \in Seq(Words) /\ Len(ports) = 2
      BY PacketsAssumption
    <2>4. TcpHeader(sport, dport, seq) = (ports \o seq) \o rest
      BY DEF TcpHeader
    <2> HIDE DEF ports, rest
    <2>5. ports \o seq \in Seq(Words) /\ Len(ports \o seq) = 2 + 2
      BY <1>1, <2>3, Concatenated, Zenon
    <2>6. /\ (ports \o seq) \o rest \in Seq(Words)
          /\ Len((ports \o seq) \o rest) = (2 + 2) + 6
      BY <2>2, <2>5, Concatenated, Zenon
    <2>7. (2 + 2) + 6 = IpSize
      BY DEF IpSize
    <2>8. ((ports \o seq) \o rest)[9] = 0
      <3> DEFINE both == ports \o seq
      <3>1. both \in Seq(Words) /\ Len(both) = 4
        BY <2>5
      <3> HIDE DEF both
      <3>2. (both \o rest)[9] = rest[5]
        <4>1. 5 \in 1..Len(rest) /\ 9 = Len(both) + 5
          BY <2>2, <3>1
        <4>2. (both \o rest)[Len(both) + 5] = rest[5]
          BY <2>2, <3>1, <4>1, ConcatenatedAt
        <4> QED
          BY <4>1, <4>2
      <3> QED
        BY <2>2, <3>2 DEF both
    <2>9. TcpHeader(sport, dport, seq)[TcpSum - IpSize] = 0
      <3>1. TcpSum - IpSize = 9
        BY DEF TcpSum, IpSize
      <3> QED
        BY <2>4, <2>8, <3>1
    <2> QED
      BY <2>4, <2>6, <2>7, <2>9, Zenon
  <1>4. PseudoHeader(src, dst) \in Seq(Words) /\ Len(PseudoHeader(src, dst)) = 6
    <2> DEFINE rest == <<Word(0, IPPROTO_TCP), Htons(20)>>
    <2>1. Word(0, IPPROTO_TCP) \in Words /\ Htons(20) \in Words
      BY DEF Htons, Word, Words, IPPROTO_TCP
    <2>2. rest \in Seq(Words) /\ Len(rest) = 2
      BY <2>1
    <2>3. PseudoHeader(src, dst) = (src \o dst) \o rest
      BY DEF PseudoHeader
    <2> HIDE DEF rest
    <2>4. src \o dst \in Seq(Words) /\ Len(src \o dst) = 2 + 2
      BY <1>1, Concatenated, Zenon
    <2>5. /\ (src \o dst) \o rest \in Seq(Words)
          /\ Len((src \o dst) \o rest) = (2 + 2) + 2
      BY <2>2, <2>4, Concatenated, Zenon
    <2>6. (2 + 2) + 2 = 6
      OBVIOUS
    <2> QED
      BY <2>3, <2>5, <2>6, Zenon
  <1> QED
    BY <1>2, <1>3, <1>4

LEMMA TypeInit == Init => TypeOK
  BY DEF Init, TypeOK, Words

LEMMA FillHeadersTyped ==
  ASSUME TypeOK, FillHeaders
  PROVE  TypeOK'
  <1>1. PICK src \in Hosts, dst \in Hosts, sport \in Ports, dport \in Ports,
             seq \in SeqNos :
          /\ packet' = IpHeader(src, dst) \o TcpHeader(sport, dport, seq)
          /\ pseudo' = PseudoHeader(src, dst)
          /\ Sum(pseudo' \o TcpHeader(sport, dport, seq), "sumTcp")
    BY DEF FillHeaders
  <1>2. packet' \in Seq(Words) /\ Len(packet') = 2 * IpSize
    <2>1. /\ packet' \in Seq(Words)
          /\ Len(packet') = IpSize + IpSize
      <3> DEFINE ip == IpHeader(src, dst)
                 tcp == TcpHeader(sport, dport, seq)
      <3>1. /\ ip \in Seq(Words) /\ Len(ip) = IpSize
            /\ tcp \in Seq(Words) /\ Len(tcp) = IpSize
        BY HeaderWords, Zenon
      <3>2. packet' = ip \o tcp
        BY <1>1
      <3> HIDE DEF ip, tcp
      <3> QED
        BY <3>1, <3>2, Concatenated, Zenon
    <2> QED
      BY <2>1 DEF IpSize
  <1>3. pseudo' \in Seq(Words) /\ buf' \in Seq(Words)
    BY <1>1, HeaderWords, Concatenated DEF Sum
  <1>4. i' = 1 /\ sum' = 0 /\ pc' = "sumTcp" /\ UNCHANGED <<id, read>>
    BY <1>1 DEF Sum, FillHeaders
  <1>5. Len(buf') \in Nat
    BY <1>3
  <1>6. i' \in 1..Len(buf') + 1
    BY <1>4, <1>5
  <1> QED
    BY <1>2, <1>3, <1>4, <1>6 DEF TypeOK

LEMMA StoreTyped ==
  ASSUME TypeOK, Store
  PROVE  TypeOK'
  <1>1. pc \in {"sumTcp", "sumIp"} /\ Len(packet) = 20 /\ packet \in Seq(Words)
    BY DEF Store, StoreOf, TypeOK, IpSize
  <1>2. 65535 - sum \in Words
    <2>1. sum \in Nat /\ sum <= 65535
      BY DEF Store, StoreOf, TypeOK
    <2> QED
      BY <2>1 DEF Words
  <1>3. \A n \in 1..Len(packet) :
          /\ [packet EXCEPT ![n] = 65535 - sum] \in Seq(Words)
          /\ Len([packet EXCEPT ![n] = 65535 - sum]) = Len(packet)
    <2>1. TAKE n \in 1..Len(packet)
    <2>2. packet \in [1..Len(packet) -> Words] /\ Len(packet) \in Nat
      BY <1>1, LenProperties, Zenon
    <2>3. [packet EXCEPT ![n] = 65535 - sum] \in [1..Len(packet) -> Words]
      BY <1>2, <2>2
    <2> QED
      BY <2>2, <2>3
  <1>4. packet' \in Seq(Words) /\ Len(packet') = 2 * IpSize
    <2>1. \/ packet' = [packet EXCEPT ![19] = 65535 - sum]
          \/ packet' = [packet EXCEPT ![6] = 65535 - sum]
      BY DEF Store, StoreOf, TcpSum, IpSum
    <2>2. 19 \in 1..Len(packet) /\ 6 \in 1..Len(packet)
      BY <1>1
    <2>3. PICK n \in 1..Len(packet) : packet' = [packet EXCEPT ![n] = 65535 - sum]
      BY <2>1, <2>2
    <2>4. packet' \in Seq(Words) /\ Len(packet') = Len(packet)
      BY <1>3, <2>3
    <2> QED
      BY <1>1, <2>4 DEF IpSize
  <1>5. CASE pc = "sumTcp"
    <2>1. SubSeq(packet, 1, IpSize) \in Seq(Words)
      <3>1. 1 \in Int /\ IpSize \in Int /\ \A n \in 1..IpSize : n \in 1..Len(packet)
        BY <1>1 DEF IpSize
      <3>2. \A n \in 1..IpSize : packet[n] \in Words
        BY <1>1, <3>1, ElementOfSeq, Zenon
      <3> QED
        BY <3>1, <3>2, SubSeqProperties, Zenon
    <2>2. /\ buf' = SubSeq(packet, 1, IpSize) /\ i' = 1 /\ sum' = 0
          /\ pc' = "sumIp" /\ UNCHANGED <<pseudo, id, read>>
      BY <1>5 DEF Store, StoreOf, Sum
    <2>3. Len(buf') \in Nat
      BY <2>1, <2>2
    <2>4. i' \in 1..Len(buf') + 1
      <3>1. i' = 1
        BY <2>2
      <3> QED
        BY <2>3, <3>1
    <2> QED
      BY <1>4, <2>1, <2>2, <2>4 DEF TypeOK
  <1>6. CASE pc = "sumIp"
    BY <1>4, <1>6 DEF Store, StoreOf, TypeOK
  <1> QED
    BY <1>1, <1>5, <1>6

LEMMA TypeStep == TypeOK /\ [Next]_vars => TypeOK'
  <1> SUFFICES ASSUME TypeOK, [Next]_vars PROVE TypeOK'
    OBVIOUS
  <1>1. CASE FillHeaders
    BY <1>1, FillHeadersTyped
  <1>2. CASE Accumulate
    <2>1. /\ buf \in Seq(Words) /\ Len(buf) \in Nat /\ i \in 1..Len(buf)
          /\ sum \in Nat /\ sum' = sum + buf[i] /\ i' = i + 1 /\ buf' = buf
      BY <1>2 DEF Accumulate, TypeOK
    <2>2. buf[i] \in Words
      BY <2>1
    <2>3. i' \in 1..Len(buf') + 1
      BY <2>1
    <2>4. sum' \in Nat
      BY <2>1, <2>2 DEF Words
    <2> QED
      BY <1>2, <2>3, <2>4 DEF Accumulate, TypeOK
  <1>3. CASE Fold
    <2>1. Folded \in Nat
      BY FoldedSmaller, <1>3 DEF Fold, FoldTo, Folded, TypeOK
    <2> QED
      BY <1>3, <2>1 DEF Fold, FoldTo, TypeOK
  <1>4. CASE Store
    BY <1>4, StoreTyped
  <1>5. CASE CreatePayload
    <2>1. \A n \in Nat : IdBytes(n) \in Bytes \X Bytes
      BY DEF IdBytes, IdBytesUpTo, Bytes
    <2>2. \A p \in Bytes \X Bytes : p \in Seq(Words)
      <3>1. TAKE p \in Bytes \X Bytes
      <3>2. PICK a \in Bytes, b \in Bytes : p = <<a, b>>
        OBVIOUS
      <3>3. a \in Words /\ b \in Words
        BY DEF Bytes, Words
      <3> QED
        BY <3>2, <3>3
    <2> QED
      BY <1>5, <2>1, <2>2, PacketsAssumption DEF CreatePayload, TypeOK
  <1>6. CASE ReadId
    <2>1. packet[1] \in Bytes /\ packet[2] \in Bytes
      BY <1>6 DEF ReadId, TypeOK
    <2>2. \A a, b \in Bytes : Word(a, b) \in Words
      BY DEF Word, Bytes, Words
    <2>3. 255 \in Bytes
      BY DEF Bytes
    <2>4. read' \in Words
      BY <1>6, <2>1, <2>2, <2>3 DEF ReadId
    <2> QED
      BY <1>6, <2>4 DEF ReadId, TypeOK
  <1>7. CASE NoMemory \/ UNCHANGED vars
    BY <1>7 DEF NoMemory, vars, TypeOK
  <1> QED
    BY <1>1, <1>2, <1>3, <1>4, <1>5, <1>6, <1>7 DEF Next, Made

\* The packets are well formed at every step: every word that is summed fits 16
\* bits, a checksum is stored inside the packet, and every id byte in 8 bits.
THEOREM PacketsTypeCorrect == Spec => []TypeOK
  <1> QED
    BY TypeInit, TypeStep, PTL DEF Spec

\* Every turn of the folding loop of checksum() makes the sum smaller, so the
\* loop ends, and keeps what a receiver will verify.
THEOREM FoldShrinks ==
  Spec => [][Fold => 0 < sum' /\ sum' < sum /\ sum' % 65535 = sum % 65535]_vars
  <1>1. TypeOK /\ Fold => 0 < sum' /\ sum' < sum /\ sum' % 65535 = sum % 65535
    <2> SUFFICES ASSUME TypeOK, Fold
                 PROVE  0 < sum' /\ sum' < sum /\ sum' % 65535 = sum % 65535
      OBVIOUS
    <2>1. sum \in Nat /\ sum > 65535 /\ sum' = (sum % 65536) + (sum \div 65536)
      BY DEF TypeOK, Fold, FoldTo, Folded
    <2> QED
      BY <2>1, FoldedSmaller
  <1> QED
    BY <1>1, PacketsTypeCorrect, PTL

-----------------------------------------------------------------------------
(***************************************************************************)
(* Induction, for statements of the form n \in T.                          *)
(***************************************************************************)
Below == {pair \in Nat \X Nat : pair[1] < pair[2]}

LEMMA BelowWellFounded == IsWellFoundedOn(Below, Nat)
  BY NatLessThanWellFounded DEF OpToRel, Below

LEMMA Least ==
  ASSUME NEW T \in SUBSET Nat, T # {}
  PROVE  \E n \in T : \A m \in T : n <= m
  <1>1. PICK n \in T : \A m \in T : ~(<<m, n>> \in Below)
    BY BelowWellFounded, WFMin
  <1>2. ASSUME NEW m \in T PROVE n <= m
    <2>1. <<m, n>> \in Nat \X Nat
      OBVIOUS
    <2>2. ~(m < n)
      BY <1>1, <2>1 DEF Below
    <2> QED
      BY <2>2
  <1> QED
    BY <1>2

LEMMA Induction ==
  ASSUME NEW T \in SUBSET Nat, 0 \in T, \A n \in T : n + 1 \in T
  PROVE  T = Nat
  <1> SUFFICES ASSUME Nat \ T # {} PROVE FALSE
    OBVIOUS
  <1>1. PICK n \in Nat \ T : \A m \in Nat \ T : n <= m
    BY Least
  <1>2. n # 0 /\ n - 1 \in Nat /\ n - 1 \in T
    BY <1>1
  <1>3. (n - 1) + 1 = n
    BY <1>1
  <1> QED
    BY <1>1, <1>2, <1>3

(***************************************************************************)
(* Sums.                                                                   *)
(***************************************************************************)
Sums(f, words, n) ==
  f = [k \in 0..n |-> IF k = 0 THEN 0 ELSE f[k - 1] + words[k]]

LEMMA SumsExist ==
  ASSUME NEW words \in Seq(Nat), NEW n \in 0..Len(words)
  PROVE  \E f \in [0..n -> Nat] : Sums(f, words, n)
  <1> DEFINE T == {m \in Nat : m <= Len(words) =>
                                 \E f \in [0..m -> Nat] : Sums(f, words, m)}
  <1>1. 0 \in T
    <2>1. Sums([k \in 0..0 |-> 0], words, 0)
      BY DEF Sums
    <2>2. [k \in 0..0 |-> 0] \in [0..0 -> Nat]
      OBVIOUS
    <2> QED
      BY <2>1, <2>2
  <1>2. ASSUME NEW m \in T PROVE m + 1 \in T
    <2> SUFFICES ASSUME m + 1 <= Len(words)
                 PROVE  \E f \in [0..m + 1 -> Nat] : Sums(f, words, m + 1)
      OBVIOUS
    <2>1. Len(words) \in Nat /\ m \in Nat /\ words[m + 1] \in Nat
      OBVIOUS
    <2>2. PICK f \in [0..m -> Nat] : Sums(f, words, m)
      BY <2>1
    <2> DEFINE g == [k \in 0..m + 1 |-> IF k <= m THEN f[k] ELSE f[m] + words[m + 1]]
    <2>3. g \in [0..m + 1 -> Nat]
      BY <2>1
    <2>4. ASSUME NEW k \in 0..m + 1
          PROVE  g[k] = IF k = 0 THEN 0 ELSE g[k - 1] + words[k]
      <3>1. CASE k <= m
        <4>1. k \in 0..m /\ f[k] = IF k = 0 THEN 0 ELSE f[k - 1] + words[k]
          BY <2>1, <2>2, <3>1 DEF Sums
        <4> QED
          BY <2>1, <3>1, <4>1
      <3>2. CASE k > m
        <4>1. k = m + 1 /\ k - 1 = m /\ k # 0
          BY <2>1, <3>2
        <4> QED
          BY <2>1, <4>1
      <3> QED
        BY <2>1, <3>1, <3>2
    <2>5. Sums(g, words, m + 1)
      <3> HIDE DEF g
      <3> QED
        BY <2>3, <2>4 DEF Sums
    <2> QED
      BY <2>3, <2>5
  <1>3. T = Nat
    <2> HIDE DEF T
    <2>1. T \in SUBSET Nat
      BY DEF T
    <2> QED
      BY <1>1, <1>2, <2>1, Induction
  <1> QED
    BY <1>3

LEMMA PartialSumsAre ==
  ASSUME NEW words \in Seq(Nat)
  PROVE  Sums(PartialSums(words), words, Len(words))
  <1>1. PICK f : Sums(f, words, Len(words))
    BY SumsExist
  <1>2. PartialSums(words) = CHOOSE g : Sums(g, words, Len(words))
    BY DEF PartialSums, Sums
  <1> QED
    BY <1>1, <1>2

\* What a prefix of the words adds up to.
LEMMA PartialSumsStep ==
  ASSUME NEW words \in Seq(Nat)
  PROVE  /\ PartialSums(words)[0] = 0
         /\ \A k \in 1..Len(words) :
              PartialSums(words)[k] = PartialSums(words)[k - 1] + words[k]
         /\ \A k \in 0..Len(words) : PartialSums(words)[k] \in Nat
  <1> DEFINE f == PartialSums(words)
             N == Len(words)
             T == {m \in Nat : m <= N => f[m] \in Nat}
  <1>1. N \in Nat /\ f = [k \in 0..N |-> IF k = 0 THEN 0 ELSE f[k - 1] + words[k]]
    BY PartialSumsAre DEF Sums
  <1>2. \A k \in 1..N : words[k] \in Nat
    OBVIOUS
  <1> HIDE DEF f, N
  <1>3. f[0] = 0
    BY <1>1
  <1>4. \A k \in 1..N : f[k] = f[k - 1] + words[k]
    <2> SUFFICES ASSUME NEW k \in 1..N PROVE f[k] = f[k - 1] + words[k]
      OBVIOUS
    <2>1. k \in 0..N /\ k # 0
      BY <1>1
    <2> QED
      BY <1>1, <2>1
  <1>5. T = Nat
    <2>1. 0 \in T
      BY <1>3
    <2>2. ASSUME NEW m \in T PROVE m + 1 \in T
      <3> SUFFICES ASSUME m + 1 <= N PROVE f[m + 1] \in Nat
        OBVIOUS
      <3>1. m + 1 \in 1..N /\ (m + 1) - 1 = m /\ f[m] \in Nat
        BY <1>1
      <3> QED
        BY <1>2, <1>4, <3>1
    <2>3. T \in SUBSET Nat
      OBVIOUS
    <2> HIDE DEF T
    <2> QED
      BY <2>1, <2>2, <2>3, Induction
  <1>6. \A k \in 0..N : f[k] \in Nat
    <2>1. \A k \in Nat : k \in T
      <3> HIDE DEF T
      <3> QED
        BY <1>5
    <2>2. \A k \in Nat : k <= N => f[k] \in Nat
      BY <2>1
    <2> QED
      BY <1>1, <2>2
  <1> QED
    BY <1>3, <1>4, <1>6 DEF f, N

\* Storing a number where there was 0 adds it to the sum.
LEMMA SumOfStored ==
  ASSUME NEW words \in Seq(Nat), NEW n \in 1..Len(words), words[n] = 0,
         NEW v \in Nat,
         NEW stored \in Seq(Nat), Len(stored) = Len(words), stored[n] = v,
         \A k \in 1..Len(words) : k # n => stored[k] = words[k]
  PROVE  SumOf(stored) = SumOf(words) + v
  <1> DEFINE f == PartialSums(words)
             g == PartialSums(stored)
             N == Len(words)
             T == {m \in Nat : m <= N =>
                                 g[m] = f[m] + (IF m >= n THEN v ELSE 0)}
  <1>1. N \in Nat /\ n \in Nat /\ n >= 1 /\ n <= N
    OBVIOUS
  <1>2. /\ f[0] = 0 /\ g[0] = 0
        /\ \A k \in 1..N : f[k] = f[k - 1] + words[k] /\ g[k] = g[k - 1] + stored[k]
        /\ \A k \in 0..N : f[k] \in Nat
    BY PartialSumsStep
  <1> HIDE DEF f, g
  <1>3. T = Nat
    <2>1. 0 \in T
      BY <1>1, <1>2
    <2>2. ASSUME NEW m \in T PROVE m + 1 \in T
      <3> DEFINE k == m + 1
      <3> SUFFICES ASSUME k <= N
                   PROVE  g[k] = f[k] + (IF k >= n THEN v ELSE 0)
        OBVIOUS
      <3>1. k \in 1..N /\ k - 1 = m /\ m \in 0..N /\ words[k] \in Nat
        BY <1>1
      <3>2. f[k] = f[m] + words[k] /\ g[k] = g[m] + stored[k] /\ f[m] \in Nat
        BY <1>2, <3>1
      <3>3. g[m] = f[m] + (IF m >= n THEN v ELSE 0)
        BY <3>1
      <3>4. CASE k = n
        <4>1. ~(m >= n) /\ k >= n /\ words[k] = 0 /\ stored[k] = v
          BY <1>1, <3>1, <3>4
        <4> QED
          BY <3>2, <3>3, <4>1
      <3>5. CASE k # n
        <4>1. (m >= n <=> k >= n) /\ stored[k] = words[k]
          BY <1>1, <3>1, <3>5
        <4> QED
          BY <3>1, <3>2, <3>3, <4>1
      <3> QED
        BY <3>4, <3>5
    <2>3. T \in SUBSET Nat
      OBVIOUS
    <2> HIDE DEF T
    <2> QED
      BY <2>1, <2>2, <2>3, Induction
  <1>4. g[N] = f[N] + v
    <2>1. \A k \in Nat : k \in T
      <3> HIDE DEF T
      <3> QED
        BY <1>3
    <2>2. \A k \in Nat : k <= N => g[k] = f[k] + (IF k >= n THEN v ELSE 0)
      BY <2>1
    <2> HIDE DEF N, T
    <2> QED
      BY <1>1, <2>2
  <1> QED
    BY <1>4 DEF SumOf, f, g

\* Remainders modulo 65535.
LEMMA SumKeepsRemainder ==
  ASSUME NEW a \in Nat, NEW b \in Nat, NEW c \in Nat, a % 65535 = b % 65535
  PROVE  (a + c) % 65535 = (b + c) % 65535
  <1> DEFINE p == a \div 65535
             q == b \div 65535
             r == a % 65535
  <1>1. p \in Nat /\ q \in Nat /\ r \in 0..65534 /\ a = 65535 * p + r /\ b = 65535 * q + r
    OBVIOUS
  <1> HIDE DEF p, q, r
  <1> QED
    BY <1>1

LEMMA Complemented ==
  ASSUME NEW a \in Nat, NEW s \in Nat, s <= 65535, s % 65535 = a % 65535,
         s = 0 <=> a = 0
  PROVE  a + (65535 - s) > 0 /\ (a + (65535 - s)) % 65535 = 0
  <1> DEFINE q == a \div 65535
             r == a % 65535
  <1>1. q \in Nat /\ r \in 0..65534 /\ a = 65535 * q + r
    OBVIOUS
  <1>2. s = r \/ (s = 65535 /\ r = 0)
    OBVIOUS
  <1> HIDE DEF q, r
  <1> QED
    BY <1>1, <1>2

-----------------------------------------------------------------------------
(***************************************************************************)
(* The invariant Checksums: the loops of checksum(), the two headers.      *)
(***************************************************************************)
LEMMA WordsAreNumbers == Seq(Words) \subseteq Seq(Nat)
  BY DEF Words

\* A sum that is complete and folded, complemented and stored where there was
\* 0, makes the words valid.
LEMMA StoredIsValid ==
  ASSUME NEW words \in Seq(Words), NEW n \in 1..Len(words), words[n] = 0,
         NEW total \in Nat, total <= 65535,
         total % 65535 = SumOf(words) % 65535, total = 0 <=> SumOf(words) = 0,
         NEW stored \in Seq(Words), Len(stored) = Len(words),
         stored[n] = 65535 - total,
         \A k \in 1..Len(words) : k # n => stored[k] = words[k]
  PROVE  Valid(stored)
  <1>1. words \in Seq(Nat) /\ stored \in Seq(Nat) /\ 65535 - total \in Nat
    BY WordsAreNumbers
  <1>2. SumOf(words) \in Nat
    BY <1>1, PartialSumsStep DEF SumOf
  <1>3. SumOf(stored) = SumOf(words) + (65535 - total)
    BY <1>1, SumOfStored
  <1> DEFINE x == SumOf(words)
  <1>4. x + (65535 - total) > 0 /\ (x + (65535 - total)) % 65535 = 0
    <2>1. x \in Nat /\ total % 65535 = x % 65535 /\ (total = 0 <=> x = 0)
      BY <1>2
    <2> HIDE DEF x
    <2> QED
      BY <2>1, Complemented
  <1> QED
    BY <1>3, <1>4 DEF Valid

\* While a header is summed its words stay.
LEMMA SummingKeeps ==
  ASSUME Checksums, UNCHANGED <<pc, packet, pseudo, buf>>,
         pc \in {"sumTcp", "sumIp"}, SumKept', sum' <= 65535 * (i' - 1)
  PROVE  Checksums'
  <1>1. TcpWords' = TcpWords
    BY DEF TcpWords
  <1>2. ReceiverAccepts'
    BY DEF ReceiverAccepts
  <1> QED
    BY <1>1, <1>2 DEF Checksums

LEMMA AccumulateKeeps ==
  ASSUME TypeOK, Checksums, Accumulate
  PROVE  Checksums'
  <1>1. /\ buf \in Seq(Nat) /\ Len(buf) \in Nat /\ i \in 1..Len(buf) /\ sum \in Nat
        /\ buf[i] \in Nat /\ buf[i] <= 65535
    <2>1. buf \in Seq(Words) /\ Len(buf) \in Nat /\ i \in 1..Len(buf) /\ sum \in Nat
      BY DEF Accumulate, TypeOK
    <2>2. buf[i] \in Words
      BY <2>1
    <2> QED
      BY <2>1, <2>2, WordsAreNumbers DEF Words
  <1>2. /\ pc \in {"sumTcp", "sumIp"} /\ sum' = sum + buf[i] /\ i' = i + 1
        /\ UNCHANGED <<pc, packet, pseudo, buf>>
    BY DEF Accumulate
  <1> DEFINE f == PartialSums(buf)
             w == buf[i]
  <1>3. f[i - 1] \in Nat /\ f[i] = f[i - 1] + w /\ i - 1 \in 0..Len(buf)
    <2>1. i - 1 \in 0..Len(buf)
      BY <1>1
    <2> QED
      BY <1>1, <2>1, PartialSumsStep
  <1>4. /\ sum % 65535 = f[i - 1] % 65535
        /\ sum = 0 <=> f[i - 1] = 0
        /\ sum <= 65535 * (i - 1)
    BY <1>2 DEF Checksums, SumKept
  <1>5. f' = f /\ i' - 1 = i
    BY <1>1, <1>2
  <1> HIDE DEF f, w
  <1>6. w \in Nat /\ w <= 65535 /\ sum' = sum + w
    BY <1>1, <1>2 DEF w
  <1>7. /\ sum' % 65535 = f'[i' - 1] % 65535
        /\ sum' = 0 <=> f'[i' - 1] = 0
    <2>1. (sum + w) % 65535 = (f[i - 1] + w) % 65535
      <3> DEFINE x == f[i - 1]
      <3>1. sum \in Nat /\ x \in Nat /\ w \in Nat /\ sum % 65535 = x % 65535
        BY <1>1, <1>3, <1>4, <1>6
      <3> HIDE DEF x
      <3> QED
        BY <3>1, SumKeepsRemainder DEF x
    <2>2. sum + w = 0 <=> f[i - 1] + w = 0
      BY <1>1, <1>3, <1>4, <1>6
    <2> QED
      BY <1>3, <1>5, <1>6, <2>1, <2>2
  <1>8. sum' <= 65535 * (i' - 1) /\ sum' <= 65535 * Len(buf')
    BY <1>1, <1>2, <1>4, <1>6
  <1>9. SumKept'
    BY <1>7, <1>8 DEF SumKept, f
  <1> QED
    BY <1>2, <1>8, <1>9, SummingKeeps

LEMMA FoldKeeps ==
  ASSUME TypeOK, Checksums, Fold
  PROVE  Checksums'
  <1>1. /\ pc \in {"sumTcp", "sumIp"} /\ sum > 65535 /\ sum \in Nat
        /\ sum' = (sum % 65536) + (sum \div 65536)
        /\ UNCHANGED <<pc, packet, pseudo, buf, i>>
        /\ i \in Nat /\ i >= 1 /\ Len(buf) \in Nat
    BY DEF Fold, FoldTo, Folded, TypeOK
  <1>2. sum' \in Nat /\ 0 < sum' /\ sum' < sum /\ sum' % 65535 = sum % 65535
    <2>1. sum \in Nat /\ sum > 65535 /\ sum' = (sum % 65536) + (sum \div 65536)
      BY <1>1
    <2> QED
      BY <2>1, FoldedSmaller
  <1>3. SumKept'
    BY <1>1, <1>2 DEF SumKept, Checksums
  <1>4. sum' <= 65535 * (i - 1)
    BY <1>1, <1>2 DEF Checksums
  <1> QED
    BY <1>1, <1>3, <1>4, SummingKeeps

\* What is summed, complete and folded, is what the first loop would give.
LEMMA SumComplete ==
  ASSUME TypeOK, Checksums, Store
  PROVE  /\ buf \in Seq(Words) /\ sum \in Nat /\ sum <= 65535
         /\ sum % 65535 = SumOf(buf) % 65535
         /\ sum = 0 <=> SumOf(buf) = 0
  <1>1. /\ buf \in Seq(Words) /\ Len(buf) \in Nat /\ i \in 1..Len(buf) + 1
        /\ i > Len(buf) /\ sum \in Nat /\ sum <= 65535
        /\ pc \in {"sumTcp", "sumIp"}
    BY DEF Store, StoreOf, TypeOK
  <1>2. i - 1 = Len(buf)
    BY <1>1
  <1> QED
    BY <1>1, <1>2 DEF Checksums, SumKept, SumOf

LEMMA LenDomain ==
  ASSUME NEW f \in [1..20 -> Words]
  PROVE  f \in Seq(Words) /\ Len(f) = 20
  <1>1. f \in Seq(Words)
    BY SeqDef
  <1>2. DOMAIN f = 1..20 /\ 20 \in Nat
    OBVIOUS
  <1> QED
    BY <1>1, <1>2, LenProperties

\* The ten words of one header.
LEMMA TenWords ==
  ASSUME NEW s \in Seq(Words), Len(s) = 20, NEW m \in {1, 11}
  PROVE  /\ SubSeq(s, m, m + 9) \in Seq(Words)
         /\ Len(SubSeq(s, m, m + 9)) = 10
         /\ \A k \in 1..10 : SubSeq(s, m, m + 9)[k] = s[m + k - 1]
  <1>1. \A k \in m..m + 9 : s[k] \in Words
    <2> SUFFICES ASSUME NEW k \in m..m + 9 PROVE s[k] \in Words
      OBVIOUS
    <2>1. k \in 1..Len(s)
      OBVIOUS
    <2> QED
      BY <2>1, ElementOfSeq
  <1>2. m \in Int /\ m + 9 \in Int /\ m <= (m + 9) + 1 /\ (m + 9) - m + 1 = 10
    OBVIOUS
  <1> DEFINE n == m + 9
  <1>3. SubSeq(s, m, n) \in Seq(Words)
    <2> HIDE DEF n
    <2> QED
      BY <1>1, <1>2, SubSeqProperties DEF n
  <1>4. SubSeq(s, m, n) = [k \in 1..10 |-> s[m + k - 1]]
    OBVIOUS
  <1> HIDE DEF n
  <1>5. Len(SubSeq(s, m, n)) = 10 /\ \A k \in 1..10 : SubSeq(s, m, n)[k] = s[m + k - 1]
    BY <1>3, <1>4, LenProperties
  <1> QED
    BY <1>3, <1>5 DEF n

LEMMA LastTen ==
  ASSUME NEW s \in Seq(Words), Len(s) = 20
  PROVE  /\ SubSeq(s, 11, 20) \in Seq(Words) /\ Len(SubSeq(s, 11, 20)) = 10
         /\ \A k \in 1..10 : SubSeq(s, 11, 20)[k] = s[10 + k]
  <1>1. 11 + 9 = 20 /\ \A k \in 1..10 : 11 + k - 1 = 10 + k
    OBVIOUS
  <1> QED
    BY <1>1, TenWords

LEMMA FirstTen ==
  ASSUME NEW s \in Seq(Words), Len(s) = 20
  PROVE  /\ SubSeq(s, 1, 10) \in Seq(Words) /\ Len(SubSeq(s, 1, 10)) = 10
         /\ \A k \in 1..10 : SubSeq(s, 1, 10)[k] = s[k]
  <1>1. 1 + 9 = 10 /\ \A k \in 1..10 : 1 + k - 1 = k
    OBVIOUS
  <1> QED
    BY <1>1, TenWords

LEMMA TenEqual ==
  ASSUME NEW s \in Seq(Words), NEW t \in Seq(Words), Len(s) = 10, Len(t) = 10,
         \A k \in 1..10 : s[k] = t[k]
  PROVE  s = t
  <1>1. \A k \in 1..Len(s) : s[k] = t[k]
    OBVIOUS
  <1> QED
    BY <1>1, SeqEqual

LEMMA SixAndTen ==
  ASSUME NEW a \in Seq(Words), NEW b \in Seq(Words), Len(a) = 6, Len(b) = 10
  PROVE  /\ a \o b \in Seq(Words) /\ Len(a \o b) = 16
         /\ \A k \in 1..6 : (a \o b)[k] = a[k]
         /\ \A k \in 1..10 : (a \o b)[6 + k] = b[k]
  <1>1. 6 + 10 = 16
    OBVIOUS
  <1>2. a \o b \in Seq(Words) /\ Len(a \o b) = 6 + 10
    BY Concatenated
  <1>3. /\ \A k \in 1..Len(a) : (a \o b)[k] = a[k]
        /\ \A k \in 1..Len(b) : (a \o b)[Len(a) + k] = b[k]
    BY ConcatenatedAt, Zenon
  <1> QED
    BY <1>1, <1>2, <1>3, Zenon

LEMMA StoreTcpKeeps ==
  ASSUME TypeOK, Checksums, Store, pc = "sumTcp"
  PROVE  Checksums'
  <1> DEFINE v == 65535 - sum
  <1>1. /\ packet \in Seq(Words) /\ Len(packet) = 20 /\ pseudo \in Seq(Words)
        /\ packet' = [packet EXCEPT ![19] = v]
        /\ buf' = SubSeq(packet, 1, 10) /\ i' = 1 /\ sum' = 0 /\ pc' = "sumIp"
        /\ pseudo' = pseudo
    BY DEF Store, StoreOf, Sum, TypeOK, TcpSum, IpSize
  <1>2. /\ Len(pseudo) = 6 /\ buf = pseudo \o SubSeq(packet, 11, 20)
        /\ packet[19] = 0 /\ packet[6] = 0
    <2>1. Len(pseudo) = 6 /\ buf = TcpWords /\ packet[TcpSum] = 0 /\ packet[IpSum] = 0
      BY DEF Checksums
    <2>2. TcpWords = pseudo \o SubSeq(packet, 10 + 1, 20)
      BY <1>1 DEF TcpWords, IpSize
    <2>3. 10 + 1 = 11
      OBVIOUS
    <2> QED
      BY <2>1, <2>2, <2>3 DEF TcpSum, IpSum
  <1>3. /\ sum \in Nat /\ sum <= 65535 /\ v \in Words
        /\ sum % 65535 = SumOf(buf) % 65535
        /\ sum = 0 <=> SumOf(buf) = 0
    BY SumComplete DEF Words
  <1> HIDE DEF v
  <1>4. packet' \in Seq(Words) /\ Len(packet') = 20
    <2>1. packet \in [1..20 -> Words]
      BY <1>1, LenProperties, Zenon
    <2>2. packet' \in [1..20 -> Words]
      BY <1>1, <1>3, <2>1
    <2> QED
      BY <2>2, LenDomain
  <1>5. /\ packet'[19] = v
        /\ \A k \in 1..20 : k # 19 => packet'[k] = packet[k]
    BY <1>1
  <1> DEFINE old == SubSeq(packet, 11, 20)
             new == SubSeq(packet', 11, 20)
             stored == pseudo \o new
  <1>6. /\ old \in Seq(Words) /\ Len(old) = 10
        /\ \A k \in 1..10 : old[k] = packet[10 + k]
        /\ new \in Seq(Words) /\ Len(new) = 10
        /\ \A k \in 1..10 : new[k] = packet'[10 + k]
    BY <1>1, <1>4, LastTen
  <1>7. TcpWords' = stored
    <2>1. TcpWords' = pseudo \o SubSeq(packet', 10 + 1, 20)
      BY <1>1, <1>4 DEF TcpWords, IpSize
    <2>2. 10 + 1 = 11
      OBVIOUS
    <2> QED
      BY <2>1, <2>2
  <1>8. /\ Len(buf) = 16 /\ buf \in Seq(Words)
        /\ \A k \in 1..6 : buf[k] = pseudo[k]
        /\ \A k \in 1..10 : buf[6 + k] = old[k]
    <2>1. buf = pseudo \o old
      BY <1>2
    <2>2. pseudo \in Seq(Words) /\ Len(pseudo) = 6 /\ old \in Seq(Words) /\ Len(old) = 10
      BY <1>1, <1>2, <1>6
    <2> HIDE DEF old
    <2>3. /\ Len(pseudo \o old) = 16 /\ pseudo \o old \in Seq(Words)
          /\ \A k \in 1..6 : (pseudo \o old)[k] = pseudo[k]
          /\ \A k \in 1..10 : (pseudo \o old)[6 + k] = old[k]
      BY <2>2, SixAndTen
    <2> QED
      BY <2>1, <2>3, Zenon
  <1>9. /\ Len(stored) = 16 /\ stored \in Seq(Words)
        /\ \A k \in 1..6 : stored[k] = pseudo[k]
        /\ \A k \in 1..10 : stored[6 + k] = new[k]
    <2> HIDE DEF new
    <2> QED
      BY <1>1, <1>2, <1>6, SixAndTen
  <1> HIDE DEF old, new, stored
  <1>10. /\ buf[15] = 0 /\ stored[15] = v
         /\ \A k \in 1..16 : k # 15 => stored[k] = buf[k]
    <2>1. buf[15] = packet[19] /\ stored[15] = packet'[19]
      <3>1. 9 \in 1..10 /\ 6 + 9 = 15 /\ 10 + 9 = 19
        OBVIOUS
      <3>2. /\ buf[6 + 9] = old[9] /\ old[9] = packet[10 + 9]
            /\ stored[6 + 9] = new[9] /\ new[9] = packet'[10 + 9]
        BY <1>6, <1>8, <1>9, <3>1
      <3> QED
        BY <3>1, <3>2
    <2>2. ASSUME NEW k \in 1..16, k # 15 PROVE stored[k] = buf[k]
      <3>1. CASE k <= 6
        <4>1. k \in 1..6
          BY <3>1
        <4> QED
          BY <1>8, <1>9, <4>1
      <3>2. CASE k > 6
        <4> DEFINE j == k - 6
        <4>1. j \in 1..10 /\ k = 6 + j /\ 10 + j \in 1..20 /\ 10 + j # 19
          BY <2>2, <3>2
        <4> HIDE DEF j
        <4>2. stored[6 + j] = packet'[10 + j] /\ buf[6 + j] = packet[10 + j]
          BY <1>6, <1>8, <1>9, <4>1
        <4> QED
          BY <1>5, <4>1, <4>2
      <3> QED
        BY <3>1, <3>2
    <2> QED
      BY <1>2, <1>5, <2>1, <2>2
  <1>11. Valid(stored)
    <2>1. /\ 15 \in 1..Len(buf) /\ Len(stored) = Len(buf)
          /\ buf \in Seq(Words) /\ stored \in Seq(Words)
          /\ buf[15] = 0 /\ stored[15] = 65535 - sum
          /\ \A k \in 1..Len(buf) : k # 15 => stored[k] = buf[k]
      BY <1>8, <1>9, <1>10 DEF v
    <2> QED
      BY <1>3, <2>1, StoredIsValid
  <1>12. Valid(TcpWords')
    BY <1>7, <1>11
  <1>13. buf' = SubSeq(packet', 1, 10)
    <2>1. /\ SubSeq(packet, 1, 10) \in Seq(Words) /\ SubSeq(packet', 1, 10) \in Seq(Words)
          /\ Len(SubSeq(packet, 1, 10)) = 10 /\ Len(SubSeq(packet', 1, 10)) = 10
          /\ \A k \in 1..10 : /\ SubSeq(packet, 1, 10)[k] = packet[k]
                              /\ SubSeq(packet', 1, 10)[k] = packet'[k]
      BY <1>1, <1>4, FirstTen
    <2>2. \A k \in 1..10 : packet[k] = packet'[k]
      BY <1>5
    <2> QED
      BY <1>1, <2>1, <2>2, TenEqual
  <1>14. /\ PartialSums(buf')[0] = 0 /\ Len(buf') = 10
    <2>1. buf' \in Seq(Nat) /\ Len(buf') = 10
      <3>1. buf' \in Seq(Words) /\ Len(buf') = 10
        BY <1>1, FirstTen
      <3> QED
        BY <3>1, WordsAreNumbers
    <2> QED
      BY <2>1, PartialSumsStep
  <1>15. SumKept'
    BY <1>1, <1>14 DEF SumKept
  <1>16. packet'[6] = 0
    BY <1>2, <1>5
  <1> QED
    BY <1>1, <1>12, <1>13, <1>15, <1>16
    DEF Checksums, ReceiverAccepts, IpSize, IpSum

LEMMA StoreIpKeeps ==
  ASSUME TypeOK, Checksums, Store, pc = "sumIp"
  PROVE  Checksums'
  <1> DEFINE v == 65535 - sum
  <1>1. /\ packet \in Seq(Words) /\ Len(packet) = 20
        /\ packet' = [packet EXCEPT ![6] = v]
        /\ pc' = "syn" /\ pseudo' = pseudo
    BY DEF Store, StoreOf, TypeOK, IpSum, IpSize
  <1>2. buf = SubSeq(packet, 1, 10) /\ packet[6] = 0 /\ Valid(TcpWords)
    BY DEF Checksums, IpSize, IpSum
  <1>3. /\ sum \in Nat /\ sum <= 65535 /\ v \in Words
        /\ sum % 65535 = SumOf(buf) % 65535
        /\ sum = 0 <=> SumOf(buf) = 0
    BY SumComplete DEF Words
  <1> HIDE DEF v
  <1>4. packet' \in Seq(Words) /\ Len(packet') = 20
    <2>1. packet \in [1..20 -> Words]
      BY <1>1, LenProperties, Zenon
    <2>2. packet' \in [1..20 -> Words]
      BY <1>1, <1>3, <2>1
    <2> QED
      BY <2>2, LenDomain
  <1>5. /\ packet'[6] = v
        /\ \A k \in 1..20 : k # 6 => packet'[k] = packet[k]
    BY <1>1
  <1>6. Valid(SubSeq(packet', 1, 10))
    <2> DEFINE stored == SubSeq(packet', 1, 10)
    <2>1. /\ buf \in Seq(Words) /\ Len(buf) = 10
          /\ \A k \in 1..10 : buf[k] = packet[k]
          /\ stored \in Seq(Words) /\ Len(stored) = 10
          /\ \A k \in 1..10 : stored[k] = packet'[k]
      BY <1>1, <1>2, <1>4, FirstTen
    <2> HIDE DEF stored
    <2>2. /\ 6 \in 1..Len(buf) /\ Len(stored) = Len(buf)
          /\ buf \in Seq(Words) /\ stored \in Seq(Words)
          /\ buf[6] = 0 /\ stored[6] = 65535 - sum
          /\ \A k \in 1..Len(buf) : k # 6 => stored[k] = buf[k]
      <3>1. 6 \in 1..10 /\ \A k \in 1..10 : k \in 1..20
        OBVIOUS
      <3> QED
        BY <1>2, <1>5, <2>1, <3>1 DEF v
    <2>3. Valid(stored)
      BY <1>3, <2>2, StoredIsValid
    <2> QED
      BY <2>3 DEF stored
  <1>7. TcpWords' = TcpWords
    <2>1. /\ TcpWords' = pseudo \o SubSeq(packet', 10 + 1, 20)
          /\ TcpWords = pseudo \o SubSeq(packet, 10 + 1, 20)
      BY <1>1, <1>4 DEF TcpWords, IpSize
    <2>2. 10 + 1 = 11
      OBVIOUS
    <2>3. SubSeq(packet', 11, 20) = SubSeq(packet, 11, 20)
      <3> DEFINE old == SubSeq(packet, 11, 20)
                 new == SubSeq(packet', 11, 20)
      <3>1. /\ old \in Seq(Words) /\ Len(old) = 10
            /\ \A k \in 1..10 : old[k] = packet[10 + k]
            /\ new \in Seq(Words) /\ Len(new) = 10
            /\ \A k \in 1..10 : new[k] = packet'[10 + k]
        BY <1>1, <1>4, LastTen
      <3>2. \A k \in 1..10 : packet'[10 + k] = packet[10 + k]
        <4>1. \A k \in 1..10 : 10 + k \in 1..20 /\ 10 + k # 6
          OBVIOUS
        <4> QED
          BY <1>5, <4>1
      <3> HIDE DEF old, new
      <3>3. new = old
        BY <3>1, <3>2, TenEqual
      <3> QED
        BY <3>3 DEF old, new
    <2> QED
      BY <2>1, <2>2, <2>3
  <1>8. ReceiverAccepts'
    <2>1. Valid(TcpWords')
      BY <1>2, <1>7
    <2> QED
      BY <1>6, <2>1 DEF ReceiverAccepts, TcpWords, IpSize
  <1> QED
    BY <1>1, <1>8 DEF Checksums, SumKept

LEMMA FillHeadersKeeps ==
  ASSUME TypeOK, FillHeaders
  PROVE  Checksums'
  <1>1. PICK src \in Hosts, dst \in Hosts, sport \in Ports, dport \in Ports,
             seq \in SeqNos :
          /\ packet' = IpHeader(src, dst) \o TcpHeader(sport, dport, seq)
          /\ pseudo' = PseudoHeader(src, dst)
          /\ Sum(pseudo' \o TcpHeader(sport, dport, seq), "sumTcp")
    BY DEF FillHeaders
  <1> DEFINE ip == IpHeader(src, dst)
             tcp == TcpHeader(sport, dport, seq)
  <1>2. /\ ip \in Seq(Words) /\ Len(ip) = 10 /\ ip[6] = 0
        /\ tcp \in Seq(Words) /\ Len(tcp) = 10 /\ tcp[9] = 0
        /\ pseudo' \in Seq(Words) /\ Len(pseudo') = 6
    <2>1. 19 - 10 = 9
      OBVIOUS
    <2> QED
      BY <1>1, <2>1, HeaderWords DEF IpSize, IpSum, TcpSum
  <1>3. /\ packet' = ip \o tcp
        /\ buf' = pseudo' \o tcp /\ i' = 1 /\ sum' = 0 /\ pc' = "sumTcp"
    BY <1>1 DEF Sum
  <1> HIDE DEF ip, tcp
  <1>4. /\ packet' \in Seq(Words) /\ Len(packet') = 20
        /\ \A k \in 1..10 : packet'[k] = ip[k]
        /\ \A k \in 1..10 : packet'[10 + k] = tcp[k]
    <2>1. 10 + 10 = 20
      OBVIOUS
    <2>2. /\ packet' \in Seq(Words) /\ Len(packet') = 10 + 10
          /\ \A k \in 1..Len(ip) : packet'[k] = ip[k]
          /\ \A k \in 1..Len(tcp) : packet'[Len(ip) + k] = tcp[k]
      <3>1. packet' \in Seq(Words) /\ Len(packet') = Len(ip) + Len(tcp)
        BY <1>2, <1>3, Concatenated, Zenon
      <3>2. /\ \A k \in 1..Len(ip) : packet'[k] = ip[k]
            /\ \A k \in 1..Len(tcp) : packet'[Len(ip) + k] = tcp[k]
        BY <1>2, <1>3, ConcatenatedAt, Zenon
      <3> QED
        BY <1>2, <3>1, <3>2, Zenon
    <2> QED
      BY <1>2, <2>1, <2>2, Zenon
  <1>5. packet'[6] = 0 /\ packet'[19] = 0
    <2>1. 6 \in 1..10 /\ 9 \in 1..10 /\ 10 + 9 = 19
      OBVIOUS
    <2>2. packet'[6] = ip[6] /\ packet'[10 + 9] = tcp[9]
      BY <1>4, <2>1
    <2> QED
      BY <1>2, <2>1, <2>2
  <1>6. buf' = TcpWords'
    <2> DEFINE new == SubSeq(packet', 11, 20)
    <2>1. /\ new \in Seq(Words) /\ Len(new) = 10
          /\ \A k \in 1..10 : new[k] = packet'[10 + k]
      BY <1>4, LastTen
    <2> HIDE DEF new
    <2>2. new = tcp
      <3>1. \A k \in 1..10 : new[k] = tcp[k]
        BY <1>4, <2>1
      <3> QED
        BY <1>2, <2>1, <3>1, TenEqual
    <2>3. TcpWords' = pseudo' \o SubSeq(packet', 10 + 1, 20)
      BY <1>4 DEF TcpWords, IpSize
    <2>4. 10 + 1 = 11
      OBVIOUS
    <2> QED
      BY <1>3, <2>2, <2>3, <2>4 DEF new
  <1>7. SumKept'
    <2>1. buf' \in Seq(Words) /\ Len(buf') = 16
      BY <1>2, <1>3, SixAndTen
    <2>2. buf' \in Seq(Nat)
      BY <2>1, WordsAreNumbers
    <2>3. PartialSums(buf')[0] = 0
      BY <2>2, PartialSumsStep
    <2> QED
      BY <1>3, <2>1, <2>3 DEF SumKept
  <1> QED
    BY <1>2, <1>3, <1>5, <1>6, <1>7 DEF Checksums, ReceiverAccepts, IpSum, TcpSum

LEMMA ChecksumsStep == TypeOK /\ Checksums /\ [Next]_vars => Checksums'
  <1> SUFFICES ASSUME TypeOK, Checksums, [Next]_vars PROVE Checksums'
    OBVIOUS
  <1>1. CASE Store
    <2>1. pc \in {"sumTcp", "sumIp"}
      BY <1>1 DEF Store, StoreOf
    <2> QED
      BY <1>1, <2>1, StoreTcpKeeps, StoreIpKeeps
  <1>2. CASE CreatePayload \/ ReadId \/ NoMemory
    <2>1. pc' \notin {"sumTcp", "sumIp", "syn"}
      BY <1>2 DEF CreatePayload, ReadId, NoMemory
    <2> QED
      BY <2>1 DEF Checksums, SumKept, ReceiverAccepts
  <1>3. CASE UNCHANGED vars
    <2>1. UNCHANGED <<pc, packet, pseudo, buf, i, sum>>
      BY <1>3 DEF vars
    <2>2. TcpWords' = TcpWords
      BY <2>1 DEF TcpWords
    <2>3. SumKept' <=> SumKept
      BY <2>1 DEF SumKept
    <2>4. ReceiverAccepts' <=> ReceiverAccepts
      BY <2>1 DEF ReceiverAccepts
    <2> QED
      BY <2>1, <2>2, <2>3, <2>4 DEF Checksums
  <1> QED
    BY <1>1, <1>2, <1>3, FillHeadersKeeps, AccumulateKeeps, FoldKeeps DEF Next, Made

LEMMA Lasting == Spec => [](TypeOK /\ Checksums)
  <1>1. Init => TypeOK /\ Checksums
    <2>1. Init => Checksums
      BY DEF Init, Checksums, SumKept, ReceiverAccepts
    <2> QED
      BY <2>1, TypeInit
  <1>2. TypeOK /\ Checksums /\ [Next]_vars => TypeOK' /\ Checksums'
    BY TypeStep, ChecksumsStep
  <1> QED
    BY <1>1, <1>2, PTL DEF Spec

\* The loops of checksum(), for every header: at each step the uint32_t is what
\* the words read so far add up to, modulo 65535; it is 0 only if they all are,
\* and it does not overflow.
THEOREM SumIsKept == Spec => []SumKept
  <1>1. Checksums => SumKept
    BY DEF Checksums
  <1> QED
    BY <1>1, Lasting, PTL

\* Every SYN that create_syn_packet makes, from any addresses, ports and
\* sequence number, carries an IP and a TCP checksum that a receiver accepts.
THEOREM SynIsAccepted == Spec => []ReceiverAccepts
  <1>1. Checksums => ReceiverAccepts
    BY DEF Checksums
  <1> QED
    BY <1>1, Lasting, PTL
=============================================================================
