----------------------------- MODULE Configuration ----------------------------
(***************************************************************************)
(* How a configuration file becomes the struct that a program runs on: the *)
(* file is read, parsed and looked up by compdetect_client or by           *)
(* compdetect (standalone), and the client sends the text on to the server,*)
(* which receives what one recv() returns, and parses and looks it up too. *)
(* In Server, ReceiveConfig leaves open which of two things it gets, the   *)
(* configuration or nothing it can use; here is why there is no third, but *)
(* for a text that is longer than the server's buffer.                     *)
(***************************************************************************)
EXTENDS Parser

CONSTANTS
    Files,         \* what the file may hold
    Garbage,       \* what the memory behind a buffer may hold
    RecvBuffer,    \* RECV_BUFFER, in tokens
    Lower,         \* tolower() on a string
    Atoi,          \* atoi() on a string
    Addresses      \* the strings inet_pton() accepts

ASSUME ConfigurationAssumption ==
    /\ Files \subseteq Seq(Tokens)
    /\ Garbage \subseteq Seq(Tokens)
    /\ RecvBuffer \in Nat \ {0}

VARIABLES
    role,          \* the program whose parse_config is running
    stage,         \* what it does next
    file,          \* the file
    nth,           \* the next lookup
    configs,       \* the configs struct of each program
    sent,          \* what the client has sent
    full,          \* did recv() fill the buffer?
    clientRead     \* what the client's parser read of the file, <<>> if it
                   \* read beyond (for the properties)

configVars == <<role, stage, file, nth, configs, sent, full, clientRead>>
vars == <<parserVars, configVars>>

\* The lookups of each parse_config, in their order.
Keys == [
    client |-> <<"server_ip", "udp_dest_port", "udp_source_port", "tcp_port",
                 "udp_payload_size", "inter_measurement_time",
                 "udp_train_size", "udp_timeout", "udp_ttl">>,
    server |-> <<"udp_dest_port", "udp_train_size", "udp_timeout",
                 "threshold">>,
    standalone |-> <<"client_ip", "server_ip", "tcp_port", "tcp_head_dest",
                     "tcp_tail_dest", "udp_source_port", "udp_dest_port",
                     "udp_payload_size", "inter_measurement_time",
                     "udp_train_size", "udp_timeout", "rst_timeout",
                     "udp_ttl", "threshold">>]

Pointers == {"client_ip", "server_ip"}

\* The fields that are uint16_t.
Ports == [
    client     |-> {"udp_source_port", "udp_dest_port", "tcp_port"},
    server     |-> {"udp_dest_port"},
    standalone |-> {"udp_source_port", "udp_dest_port", "tcp_head_dest",
                    "tcp_tail_dest"}]

Init ==
    /\ role \in {"client", "standalone"}
    /\ stage = "read"
    /\ file \in Files
    /\ nth = 1
    /\ configs = [r \in DOMAIN Keys |-> <<>>]
    /\ sent = <<>>
    /\ full = FALSE
    /\ clientRead = <<>>
    \* cJSON_Parse has not been called yet.
    /\ text = <<Null>>
    /\ pc = "done"
    /\ pos = 1 /\ root = 0 /\ stack = <<>> /\ nodes = <<>> /\ strings = <<>>
    /\ fresh = 1 /\ del = <<>> /\ starved = FALSE

-----------------------------------------------------------------------------
(***************************************************************************)
(* Texts without an end, and texts cut short.                              *)
(***************************************************************************)
\* What a token at the end of a buffer may be taken for with what is behind.
Continued(k) ==
    CASE k = "open"                -> Literals \cup {k}
      [] k \in Numbers \cup {"-"} -> Numbers \cup {k}
      [] k = "junk"                -> Plain \cup {Bom, k}
      [] OTHER                     -> {k}

\* t, its last token taken for k, and g behind it.
RunOn(t, k, g) == Front(t) \o <<k>> \o g

\* A buffer that holds t, with no NUL behind it.
Unterminated(t) ==
    IF t = <<>> THEN Garbage
    ELSE {RunOn(t, k, g) : k \in Continued(Last(t)), g \in Garbage}

\* What may be left of a token.
CutShort(k) ==
    CASE k \in Literals -> {"open"}
      [] k \in Numbers -> Numbers \cup {"-"}
      [] k \in (Plain \ Numbers) \cup {Bom} -> {"junk"}
      [] k \in {"open", "junk", More} -> {k}
      [] OTHER -> {}

\* What one recv() may return of t.
Received(t) ==
    {<<>>} \cup
    UNION {{Append(SubSeq(t, 1, n - 1), k) : k \in CutShort(t[n]) \cup {t[n]}}
             : n \in {m \in 1..RecvBuffer : m <= Len(t)}}

-----------------------------------------------------------------------------
\* read_file(): as many bytes as the file has, and no NUL behind them.
ReadFile ==
    /\ stage = "read"
    /\ stage' = "parse"
    /\ \E t \in Unterminated(file) : Parse(t)
    /\ UNCHANGED <<role, file, nth, configs, sent, full, clientRead>>

Crash ==
    /\ stage' = "crashed"
    /\ UNCHANGED parserVars
    /\ UNCHANGED <<role, file, nth, configs, sent, full, clientRead>>

Parsing ==
    /\ stage = "parse"
    /\ ParserNext
    /\ UNCHANGED configVars

Parsed ==
    /\ stage = "parse" /\ pc = "done"
    /\ stage' = "lookup"
    /\ nth' = 1
    /\ clientRead' = IF role = "server" THEN clientRead
                     ELSE IF root # 0 /\ pos <= Len(file) + 1
                     THEN Rendered[root] ELSE <<>>
    /\ UNCHANGED parserVars
    /\ UNCHANGED <<role, file, configs, sent, full>>

-----------------------------------------------------------------------------
(***************************************************************************)
(* parse_config                                                            *)
(***************************************************************************)
Key == Keys[role][nth]

\* case_insensitive_strcmp; an item without a name has none.
SameName(n, name) ==
    /\ nodes[n].string # 0
    /\ Lower[strings[nodes[n].string]] = Lower[name]

\* get_object_item: the first of the items from n on whose name is name.
Found(name) ==
    LET first[n \in DOMAIN nodes \cup {0}] ==
          IF n = 0 \/ SameName(n, name) THEN n ELSE first[nodes[n].next]
    IN  first

\* cJSON_GetObjectItem: NULL in NULL.
ObjectItem == IF root = 0 THEN 0 ELSE Found(Key)[nodes[root].child]

LookingUp == stage = "lookup" /\ nth <= Len(Keys[role])

Store(value) ==
    /\ configs' = [configs EXCEPT ![role] =
                     [k \in DOMAIN @ \cup {Key} |->
                        IF k = Key THEN value ELSE @[k]]]
    /\ nth' = nth + 1
    /\ UNCHANGED parserVars
    /\ UNCHANGED <<role, stage, file, sent, full, clientRead>>

\* An address is kept as it is, NULL if the value is no string.
LookUpPointer ==
    /\ LookingUp /\ Key \in Pointers
    /\ ObjectItem # 0
    /\ LET s == nodes[ObjectItem].valuestring
       IN  Store(IF s = 0 THEN "NULL" ELSE strings[s])

LookUpNumber ==
    /\ LookingUp /\ Key \notin Pointers
    /\ ObjectItem # 0 /\ nodes[ObjectItem].valuestring # 0
    /\ LET n == Atoi[strings[nodes[ObjectItem].valuestring]]
       IN  Store(IF Key \in Ports[role] THEN n % 65536 ELSE n)

\* NULL->valuestring, or atoi(NULL).
NullPointer ==
    /\ LookingUp
    /\ ObjectItem # 0 =>
         Key \notin Pointers /\ nodes[ObjectItem].valuestring = 0
    /\ Crash

\* fopen() returns NULL, which is not < 0; or malloc() does, for the struct.
Unchecked == (stage = "read" \/ (LookingUp /\ nth = 1)) /\ Crash

LookedUp == stage = "lookup" /\ nth > Len(Keys[role])

Proceed(next) ==
    /\ stage' = next
    /\ UNCHANGED parserVars
    /\ UNCHANGED <<role, file, nth, configs, full, clientRead>>

\* set_addr_struct takes NULL for INADDR_ANY, establish_connection crashes.
Addressed ==
    \A k \in Pointers \cap DOMAIN configs[role] :
        configs[role][k] \in Addresses \cup
            (IF role = "standalone" THEN {"NULL"} ELSE {})

Configured ==
    /\ LookedUp /\ role # "client"
    /\ Addressed
    /\ Proceed("configured") /\ UNCHANGED sent

\* inet_pton() refuses it, or is given NULL.
NoAddress ==
    /\ LookedUp /\ ~Addressed
    /\ Proceed(IF role = "client" /\ configs.client["server_ip"] = "NULL"
               THEN "crashed" ELSE "failed")
    /\ UNCHANGED sent

\* stat(), malloc(), socket(), connect(), send() or recv() fails.
CallFails ==
    /\ stage \in {"read", "sent"} \/ (LookedUp /\ role # "server")
    /\ Proceed("failed") /\ UNCHANGED sent

-----------------------------------------------------------------------------
(***************************************************************************)
(* send_stream and receive_stream.                                         *)
(***************************************************************************)
\* strlen() again, perhaps over other garbage: the heap has changed.
SendStream ==
    /\ LookedUp /\ role = "client"
    /\ Addressed
    /\ \E t \in Unterminated(file) : \E n \in 0..Len(t) :
         IsLength(n, t) /\ sent' = SubSeq(t, 1, n)
    /\ Proceed("sent")

\* Defect: receive_stream does not clear its buffer.
InBufferUncleared(t) == Unterminated(t)

\* The end of a bufferful is not marked.  The rest of the buffer is cleared.
InBuffer(t) == IF Len(t) = RecvBuffer THEN Unterminated(t) ELSE {t}

\* One recv(), by the server.
ReceiveStream ==
    /\ stage = "sent"
    /\ role' = "server"
    /\ stage' = "parse"
    /\ \E t \in Received(sent) :
         /\ full' = (Len(t) = RecvBuffer)
         /\ \E u \in InBuffer(t) : Parse(u)
    /\ UNCHANGED <<file, nth, configs, sent, clientRead>>

Stopped == stage \in {"crashed", "failed", "configured"} /\ UNCHANGED vars

Next ==
    \/ ReadFile \/ Parsing \/ Parsed
    \/ LookUpPointer \/ LookUpNumber \/ NullPointer \/ Unchecked
    \/ Configured \/ NoAddress \/ CallFails \/ SendStream \/ ReceiveStream \/ Stopped

Spec == Init /\ [][Next]_vars

-----------------------------------------------------------------------------
\* However TCP cuts the text, the server takes up its work only with all of
\* the object that the client has parsed, and with the client's values.  Not
\* so if the text is longer than the buffer and fills it.
ServerAgrees ==
    LET cutOff == full /\ Len(sent) > RecvBuffer
    IN  stage = "configured" /\ role = "server" /\ clientRead # <<>> /\ ~cutOff =>
            /\ Rendered[root] = clientRead
            /\ \A k \in DOMAIN configs["server"] \cap DOMAIN configs["client"] :
                 configs["server"][k] = configs["client"][k]

=============================================================================
