---------------------------- MODULE MCConfiguration ----------------------------
EXTENDS Configuration

Names == ToSet(Keys.standalone) \cup {"UDP_Dest_Port"}
MCNumbers == {"1"}
MCStrings == Names \cup {"10.0.0.1", "8765", "65537", "6000"}
MCAddresses == {"10.0.0.1"}
MCLower == [s \in MCStrings |-> IF s = "UDP_Dest_Port" THEN "udp_dest_port" ELSE s]
MCAtoi == [s \in MCStrings |->
             CASE s = "8765" -> 8765 [] s = "65537" -> 65537
               [] s = "6000" -> 6000 [] s = "10.0.0.1" -> 10 [] OTHER -> 0]

MCGarbage == {<<>>, <<",", "threshold", ":", "8765", "}">>}

\* Every short text that begins with a bracket, and some that do not.
Letters == {"{", "}", "[", "]", ":", ",", " ", "8765", "1", "open", Lone, More}
Small ==
    {<<b>> \o t : b \in {"{", "["}, t \in UNION {[1..n -> Letters] : n \in 0..3}}
    \cup {<<"[", "[">> \o t \o <<"]", "]">> : t \in [1..3 -> Letters]}
    \cup [1..2 -> Letters]
    \cup {<<>>, <<Bom>>, <<Bom, "null">>, <<" ", "true">>, <<Null>>, <<"-">>}

\* A file with the members of an object.
Member(k, v) == <<k, ":", v>>
Object(members) ==
    <<"{">> \o FoldLeft(LAMBDA acc, m : IF acc = <<>> THEN m
                                         ELSE acc \o <<",">> \o m, <<>>, members)
            \o <<"}">>

Value(k) == IF k \in Pointers THEN "10.0.0.1"
            ELSE IF k = "udp_train_size" THEN "6000" ELSE "8765"
Members(keys) == [i \in DOMAIN keys |-> Member(keys[i], Value(keys[i]))]

\* What the client and the server need.
Cooperative == Members(Append(Keys.client, "threshold"))
All == Members(Keys.standalone)
Other(members, i, m) == [members EXCEPT ![i] = m]

MCFiles == Small \cup
    {Object(Cooperative),
     Object(All),
     Object(Tail(Cooperative)),
     \* a name in capitals, twice
     Object(<<Member("UDP_Dest_Port", "65537")>> \o Cooperative),
     \* values that are no strings
     Object(Other(Cooperative, 1, Member("server_ip", "1"))),
     Object(Other(All, 1, Member("client_ip", "null"))),
     Object(Other(Cooperative, 4, Member("tcp_port", "1"))),
     Object(Other(Cooperative, 1, Member("server_ip", "6000"))),
     \* text behind the object, and more than the buffer holds
     Object(Cooperative) \o <<" ", "junk">>,
     <<" ">> \o Object(Cooperative \o <<Member("8765", "8765"), Member("6000", "6000")>>)}
=============================================================================
