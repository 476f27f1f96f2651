------------------------------- MODULE Packets -------------------------------
(***************************************************************************)
(* The packets the programs put together byte by byte: the SYN of          *)
(* src/headers.c, an IP and a TCP header with a checksum each, and the     *)
(* datagrams of src/util.c, whose first two bytes are an id that           *)
(* compdetect_server reads again.  A behaviour is the making of one packet.*)
(*                                                                         *)
(* Memory is a sequence of uint16_t as a little-endian host reads them.    *)
(* Every size the code passes to checksum is even.                         *)
(***************************************************************************)
EXTENDS Integers, Sequences

CONSTANTS
    Hosts,         \* IPv4 addresses: pairs of uint16_t
    Ports,         \* TCP ports, as in struct sockaddr_in
    SeqNos,        \* what rand() may return: pairs of uint16_t
    Ids,           \* the ids of the datagrams sent
    CharSigned     \* is char a signed type on this machine?

Bytes == {n \in Nat : n < 256}
Words == {n \in Nat : n < 65536}

ASSUME PacketsAssumption ==
    /\ Hosts \subseteq Words \X Words
    /\ Ports \subseteq Words
    /\ SeqNos \subseteq Words \X Words
    /\ Ids \subseteq Nat
    /\ CharSigned \in BOOLEAN

VARIABLES
    pc,            \* the next step
    packet,        \* the packet in memory
    pseudo,        \* the pseudo header, kept for the TCP checksum
    buf,           \* what checksum() is summing
    i,             \* the next word of buf
    sum,           \* its uint32_t
    id,            \* the id the datagram was given
    read           \* what probing makes of it

vars == <<pc, packet, pseudo, buf, i, sum, id, read>>

\* Two bytes in memory, and htons().
Word(first, second) == first + 256 * second
Htons(n) == Word(n \div 256, n % 256)

\* What the first loop has added up after each word.
PartialSums(words) ==
    LET upTo[k \in 0..Len(words)] ==
            IF k = 0 THEN 0 ELSE upTo[k - 1] + words[k]
    IN  upTo

SumOf(words) == PartialSums(words)[Len(words)]

Init ==
    /\ pc = "start"
    /\ packet = <<>>
    /\ pseudo = <<>>
    /\ buf = <<>>
    /\ i = 1
    /\ sum = 0
    /\ id = 0
    /\ read = 0

-----------------------------------------------------------------------------
(***************************************************************************)
(* create_syn_packet                                                       *)
(***************************************************************************)
IPPROTO_TCP == 6

\* Version and header length, total length, id, fragments, TTL and protocol,
\* checksum, addresses.
IpHeader(src, dst) ==
    <<Word(64 + 5, 0), Htons(40), Htons(0), Htons(0), Word(255, IPPROTO_TCP), 0>>
    \o src \o dst

\* Ports, sequence and acknowledgement numbers, offset and flags (SYN),
\* window, checksum, urgent pointer.
TcpHeader(sport, dport, seq) ==
    <<sport, dport>> \o seq \o <<0, 0, Word(5 * 16, 2), Htons(1460), 0, 0>>

PseudoHeader(src, dst) == src \o dst \o <<Word(0, IPPROTO_TCP), Htons(20)>>

IpSize == 10     \* words of struct ip
IpSum  == 6      \* where its ip_sum is
TcpSum == 19     \* where th_sum is in the packet

\* The call of checksum(): sum = 0, i = 0.
Sum(words, next) ==
    /\ buf' = words
    /\ i' = 1
    /\ sum' = 0
    /\ pc' = next

FillHeaders ==
    /\ pc = "start"
    /\ \E src, dst \in Hosts, sport, dport \in Ports, seq \in SeqNos :
         /\ packet' = IpHeader(src, dst) \o TcpHeader(sport, dport, seq)
         /\ pseudo' = PseudoHeader(src, dst)
         /\ Sum(pseudo' \o TcpHeader(sport, dport, seq), "sumTcp")
    /\ UNCHANGED <<id, read>>

\* The first loop of checksum().
Accumulate ==
    /\ pc \in {"sumTcp", "sumIp"}
    /\ i <= Len(buf)
    /\ sum' = sum + buf[i]
    /\ i' = i + 1
    /\ UNCHANGED <<pc, packet, pseudo, buf, id, read>>

\* One turn of the folding loop.
FoldTo(folded) ==
    /\ pc \in {"sumTcp", "sumIp"}
    /\ i > Len(buf)
    /\ sum > 65535
    /\ sum' = folded
    /\ UNCHANGED <<pc, packet, pseudo, buf, i, id, read>>

Folded == (sum % 65536) + (sum \div 65536)

\* Defect: the carry is dropped.
FoldDropsCarry == FoldTo(sum % 65536)

\* Defect: the loop computes the folded sum and does not assign it.
FoldLost == FoldTo(sum)

Fold == FoldTo(Folded)

\* ~sum, stored in the header.  The TCP checksum comes first.
StoreOf(total) ==
    /\ i > Len(buf)
    /\ total <= 65535
    /\ \/ /\ pc = "sumTcp"
          /\ packet' = [packet EXCEPT ![TcpSum] = 65535 - total]
          /\ Sum(SubSeq(packet, 1, IpSize), "sumIp")
       \/ /\ pc = "sumIp"
          /\ packet' = [packet EXCEPT ![IpSum] = 65535 - total]
          /\ pc' = "syn"
          /\ UNCHANGED <<buf, i, sum>>
    /\ UNCHANGED <<pseudo, id, read>>

\* Defect: the uint32_t is cut to 16 bits without being folded to the end.
StoreCut == StoreOf(sum % 65536)

Store == StoreOf(sum)

-----------------------------------------------------------------------------
(***************************************************************************)
(* set_packet_id, and the id probing reads in the server                   *)
(***************************************************************************)
IdBytesUpTo(last, n) ==
    IF n <= last THEN <<0, n % 256>> ELSE <<(n \div 256) % 256, n % 256>>

\* Defect: the second branch starts one id late.
IdBytesLate(n) == IdBytesUpTo(256, n)

\* Defect: the high byte is not masked.
IdBytesUnmasked(n) == <<n \div 256, n % 256>>

IdBytes(n) == IdBytesUpTo(255, n)

CreatePayload ==
    /\ pc = "start"
    /\ id' \in Ids
    /\ packet' = IdBytes(id')
    /\ pc' = "payload"
    /\ UNCHANGED <<pseudo, buf, i, sum, read>>

\* payload[0] << 8 | payload[1], stored in a uint16_t.  A signed char above
\* 127 is a negative int, all of whose high bits are set.
ReadId ==
    /\ pc = "payload"
    /\ read' = IF CharSigned /\ packet[2] > 127
               THEN Word(packet[2], 255)
               ELSE Word(packet[2], packet[1])
    /\ pc' = "read"
    /\ UNCHANGED <<packet, pseudo, buf, i, sum, id>>

\* malloc or read_file returns NULL, and so does the function.
NoMemory ==
    /\ pc = "start"
    /\ pc' = "failed"
    /\ UNCHANGED <<packet, pseudo, buf, i, sum, id, read>>

Made == pc \in {"syn", "read", "failed"} /\ UNCHANGED vars

Next ==
    \/ FillHeaders \/ Accumulate \/ Fold \/ Store
    \/ CreatePayload \/ ReadId
    \/ NoMemory
    \/ Made

Spec == Init /\ [][Next]_vars

FairSpec == Spec /\ WF_vars(Next)

-----------------------------------------------------------------------------
TypeOK ==
    /\ pc \in {"start", "sumTcp", "sumIp", "syn", "payload", "read",
              "failed"}
    /\ packet \in Seq(Words)
    /\ pc \in {"sumTcp", "sumIp", "syn"} => Len(packet) = 2 * IpSize
    /\ pc = "payload" => packet \in Bytes \X Bytes
    /\ pseudo \in Seq(Words)
    /\ buf \in Seq(Words)
    /\ i \in 1..Len(buf) + 1
    /\ sum \in Nat
    /\ id \in Nat
    /\ read \in Words

\* A receiver adds up all words of a header, its checksum included, with end-
\* around carry, and takes the header if the result is all ones: that is, if
\* the plain sum is a multiple of 65535, and not 0.  Both headers of the SYN
\* are taken, so the closed port does answer it.
Valid(words) == SumOf(words) > 0 /\ SumOf(words) % 65535 = 0
ReceiverAccepts ==
    pc = "syn" => /\ Valid(SubSeq(packet, 1, IpSize))
                  /\ Valid(pseudo \o SubSeq(packet, IpSize + 1, Len(packet)))

\* Why: modulo 65535 the loops of checksum() keep the sum of the words read so
\* far, and never turn a sum into 0; nor does the uint32_t overflow.
SumKept ==
    pc \in {"sumTcp", "sumIp"} =>
        LET done == PartialSums(buf)[i - 1] IN
            /\ sum % 65535 = done % 65535
            /\ sum = 0 <=> done = 0
            /\ sum <= 65535 * Len(buf)

\* How the two headers come by it: the checksum of each is 0 while it is
\* summed, and the IP header is summed when the TCP header is done.
TcpWords == pseudo \o SubSeq(packet, IpSize + 1, Len(packet))
Checksums ==
    /\ SumKept
    /\ pc \in {"sumTcp", "sumIp"} => sum <= 65535 * (i - 1) /\ packet[IpSum] = 0
    /\ pc = "sumTcp" =>
         Len(pseudo) = 6 /\ buf = TcpWords /\ packet[TcpSum] = 0
    /\ pc = "sumIp" => buf = SubSeq(packet, 1, IpSize) /\ Valid(TcpWords)
    /\ ReceiverAccepts

\* The folding loop ends.
ChecksumEnds == pc = "sumTcp" ~> pc = "syn"

\* set_packet_id writes the low 16 bits of the id, high byte first.
IdOnWire == pc = "payload" => 256 * packet[1] + packet[2] = id % 65536

\* README.md on receiving UDP packets: "The server is able to parse the UDP
\* packet ids".
IdParsed == pc = "read" => read = id % 65536

=============================================================================
