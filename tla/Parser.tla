-------------------------------- MODULE Parser --------------------------------
(***************************************************************************)
(* The parser of src/cJSON.c, as cJSON_Parse runs it: recursive descent    *)
(* over a buffer that ends with NUL, building a tree of items on a heap    *)
(* whose allocations may fail, and giving everything back when it fails.   *)
(*                                                                         *)
(* The text is a sequence of tokens.  A token is what one read takes: a    *)
(* character, a literal (parse_string is the subject of StringLiteral), or *)
(* what strtod takes at once.  stack is the C stack: one frame for each    *)
(* parse_array and parse_object that is running, so its length is          *)
(* input_buffer->depth.  global_error is left out: nothing reads it.       *)
(***************************************************************************)
EXTENDS Integers, Sequences, FiniteSets, SequencesExt

CONSTANTS
    Strings,       \* string literals that parse_string accepts
    Numbers,       \* numbers that strtod accepts, of 63 characters at most
    NestingLimit   \* CJSON_NESTING_LIMIT

Null == "NUL"
Bom  == "BOM"
Blanks   == {" ", Null}
Brackets == {"{", "}", "[", "]"}
\* What JSON has and this parser does not: a literal with half a surrogate pair,
\* and the rest of a number, of which parse_number takes 63 characters.
\* (Anywhere but behind a number, More is what begins no value.)
Lone == "lone"
More == "more"
Unsupported == {Lone, More}
\* "open" is a literal that parse_string and JSON refuse, "-" a number without
\* digits, "junk" what begins no value.
Bad   == {"open", "-", "junk"} \cup Unsupported
Plain == {"null", "false", "true"} \cup Numbers
\* The literals of JSON: parse_string finds the end of each of them.
Literals == Strings \cup {Lone}
Tokens == Blanks \cup Brackets \cup Bad \cup Plain \cup Strings
            \cup {Bom, ":", ","}

ASSUME ParserAssumption ==
    /\ NestingLimit \in Nat
    /\ \A s \in Strings \cup Numbers :
         s \notin Blanks \cup Brackets \cup Bad
                    \cup {Bom, ":", ",", "null", "false", "true", "Invalid",
                          "String", "Array", "Object"}
    /\ Strings \cap Numbers = {}

\* What a buffer can hold: strlen() put its end after the first NUL.
Buffers == {t \in Seq(Tokens) : t # <<>> /\ t[Len(t)] = Null}

VARIABLES
    pc,            \* the next step
    text,          \* buffer.content
    pos,           \* buffer.offset, counting from 1
    root,          \* item of cJSON_ParseWithLengthOpts; the result when done
    stack,         \* the running parse_array and parse_object
    nodes,         \* the heap: live items by address, 0 is NULL
    strings,       \* the heap: live strings
    fresh,         \* the next address
    del,           \* the running cJSON_Delete
    starved        \* has an allocation failed? (for the properties)

parserVars ==
    <<pc, text, pos, root, stack, nodes, strings, fresh, del, starved>>

Types == {"Invalid", "String", "Array", "Object"} \cup Plain

\* An item.  type is the token itself for null, false, true and the numbers:
\* it stands for valueint and valuedouble too.
Nodes == [type: Types, next: Nat, prev: Nat, child: Nat,
          valuestring: Nat, string: Nat]

\* cJSON_New_Item clears what it allocates.
Blank == [type |-> "Invalid", next |-> 0, prev |-> 0, child |-> 0,
          valuestring |-> 0, string |-> 0]

Frames  == [object: BOOLEAN, head: Nat, last: Nat]
Deletes == [item: Nat, entered: BOOLEAN]

ParserInit ==
    /\ pc = "start"
    /\ text \in Buffers
    /\ pos = 1
    /\ root = 0
    /\ stack = <<>>
    /\ nodes = <<>>
    /\ strings = <<>>
    /\ fresh = 1
    /\ del = <<>>
    /\ starved = FALSE

Depth == Len(stack)
Top   == stack[Depth]

\* The item that parse_value or parse_string fills in.
Item == IF Depth = 0 THEN root ELSE Top.last

CanAccess(p) == p <= Len(text)
At(p, tokens) == CanAccess(p) /\ text[p] \in tokens

Alloc(heap, block) ==
    [a \in DOMAIN heap \cup {fresh} |-> IF a = fresh THEN block ELSE heap[a]]
Free(heap, blocks) == [a \in DOMAIN heap \ blocks |-> heap[a]]

\* Defect: no step back at the end of the buffer.
SkipsPastEnd(p, q) ==
    /\ q \in p..Len(text)+1
    /\ \A i \in p..q-1 : text[i] \in Blanks
    /\ CanAccess(q) => text[q] \notin Blanks

\* buffer_skip_whitespace moves from p to q; at the end it steps back.
SkipsTo(p, q) ==
    IF ~CanAccess(p) THEN q = p
    ELSE /\ q \in p..Len(text)
         /\ \A i \in p..q-1 : text[i] \in Blanks
         /\ text[q] \in Blanks => q = Len(text)

\* The next token after p is read next.
SkipPast(p) ==
    /\ pos' \in p+1..Len(text)+1
    /\ SkipsTo(p + 1, pos')

Fails ==
    /\ pc' = "fail"
    /\ UNCHANGED <<text, pos, root, stack, nodes, strings, fresh, del>>

Unchanged == UNCHANGED <<text, del, starved>>

-----------------------------------------------------------------------------
(***************************************************************************)
(* cJSON_ParseWithLengthOpts and parse_value.                              *)
(***************************************************************************)
\* skip_utf8_bom, if there is room for a value and NUL behind it.
AfterBom == IF text[1] = Bom /\ Len(text) > 2 THEN 2 ELSE 1

Begin ==
    /\ pc = "start"
    /\ root' = fresh
    /\ nodes' = Alloc(nodes, Blank)
    /\ fresh' = fresh + 1
    /\ SkipPast(AfterBom - 1)
    /\ pc' = "value"
    /\ UNCHANGED <<stack, strings>> /\ Unchanged

ReadPlain ==
    /\ pc = "value"
    /\ At(pos, Plain)
    /\ nodes' = [nodes EXCEPT ![Item].type = text[pos]]
    /\ pos' = pos + 1
    /\ pc' = "after"
    /\ UNCHANGED <<root, stack, strings, fresh>> /\ Unchanged

ReadString ==
    /\ pc = "value"
    /\ At(pos, Strings)
    /\ strings' = Alloc(strings, text[pos])
    /\ nodes' = [nodes EXCEPT ![Item].type = "String",
                              ![Item].valuestring = fresh]
    /\ fresh' = fresh + 1
    /\ pos' = pos + 1
    /\ pc' = "after"
    /\ UNCHANGED <<root, stack>> /\ Unchanged

Opener(object) == IF object THEN "{" ELSE "["
Closer(object) == IF object THEN "}" ELSE "]"

Bracket(object) == pc = "value" /\ At(pos, {Opener(object)})

\* Defect: the depth is compared once it is exceeded.
OpeningLate(object) == Bracket(object) /\ Depth <= NestingLimit

\* parse_array and parse_object, up to the first element.
Opening(object) == Bracket(object) /\ Depth < NestingLimit

OpenEmpty ==
    \E object \in BOOLEAN, q \in pos+1..Len(text) :
        /\ Opening(object)
        /\ SkipsTo(pos + 1, q)
        /\ text[q] = Closer(object)
        /\ nodes' = [nodes EXCEPT
                       ![Item].type = IF object THEN "Object" ELSE "Array",
                       ![Item].child = 0]
        /\ pos' = q + 1
        /\ pc' = "after"
        /\ UNCHANGED <<root, stack, strings, fresh>> /\ Unchanged

\* One step back, to the character in front of the first element.
Open ==
    \E object \in BOOLEAN, q \in pos+1..Len(text) :
        /\ Opening(object)
        /\ SkipsTo(pos + 1, q)
        /\ text[q] # Closer(object)
        /\ stack' = Append(stack, [object |-> object, head |-> 0, last |-> 0])
        /\ pos' = q - 1
        /\ pc' = "element"
        /\ UNCHANGED <<root, nodes, strings, fresh>> /\ Unchanged

-----------------------------------------------------------------------------
(***************************************************************************)
(* The loops of parse_array and parse_object.                              *)
(***************************************************************************)
AddElement(advance) ==
    /\ pc = "element"
    /\ LET first == Top.head = 0
           added == Alloc(nodes, [Blank EXCEPT !.prev = Top.last])
       IN  /\ nodes' = IF first THEN added
                                ELSE [added EXCEPT ![Top.last].next = fresh]
           /\ stack' = [stack EXCEPT
                          ![Depth].head = IF first THEN fresh ELSE @,
                          ![Depth].last = IF first \/ advance THEN fresh ELSE @]
    /\ fresh' = fresh + 1
    /\ SkipPast(pos)
    /\ pc' = IF Top.object THEN "name" ELSE "value"
    /\ UNCHANGED <<root, strings>> /\ Unchanged

\* Defect: current_item stays at the head of the list.
NextElementAtHead == AddElement(FALSE)

NextElement == AddElement(TRUE)

ReadNameLeaving(valuestring) ==
    /\ pc = "name"
    /\ text[pos] \in Strings
    /\ strings' = Alloc(strings, text[pos])
    /\ nodes' = [nodes EXCEPT ![Item].type = "String",
                              ![Item].string = fresh,
                              ![Item].valuestring = valuestring]
    /\ fresh' = fresh + 1
    /\ SkipPast(pos)
    /\ pc' = "colon"
    /\ UNCHANGED <<root, stack>> /\ Unchanged

\* Defect: the name stays in valuestring too.
ReadNameTwice == ReadNameLeaving(fresh)

\* parse_string leaves the name in valuestring, which is then swapped.
ReadName == ReadNameLeaving(0)

ReadColon ==
    /\ pc = "colon"
    /\ At(pos, {":"})
    /\ SkipPast(pos)
    /\ pc' = "value"
    /\ UNCHANGED <<root, stack, nodes, strings, fresh>> /\ Unchanged

\* Defect: the blanks behind a value are not skipped.
BehindAtOnce(q) == pc = "after" /\ Depth > 0 /\ q = pos

\* The value of an element is read, and the blanks behind it are skipped.
Behind(q) == pc = "after" /\ Depth > 0 /\ SkipsTo(pos, q)

Comma ==
    \E q \in pos..Len(text) :
        /\ Behind(q)
        /\ text[q] = ","
        /\ pos' = q
        /\ pc' = "element"
        /\ UNCHANGED <<root, stack, nodes, strings, fresh>> /\ Unchanged

\* The item that holds the array or the object that is closed.
Container == IF Depth = 1 THEN root ELSE stack[Depth - 1].last

CloseAs(type) ==
    \E q \in pos..Len(text) :
        /\ Behind(q)
        /\ text[q] = Closer(Top.object)
        /\ nodes' = [nodes EXCEPT ![Top.head].prev = Top.last,
                                  ![Container].type = type,
                                  ![Container].child = Top.head]
        /\ stack' = Front(stack)
        /\ pos' = q + 1
        /\ pc' = "after"
        /\ UNCHANGED <<root, strings, fresh>> /\ Unchanged

Close == CloseAs(IF Top.object THEN "Object" ELSE "Array")

\* cJSON_ParseWithLengthOpts: what follows the value is not looked at.
Finish ==
    /\ pc = "after"
    /\ Depth = 0
    /\ pc' = "done"
    /\ UNCHANGED <<pos, root, stack, nodes, strings, fresh>> /\ Unchanged

-----------------------------------------------------------------------------
(***************************************************************************)
(* Failures.                                                               *)
(***************************************************************************)
\* An allocation returns NULL.
Starve ==
    /\ \/ pc \in {"start", "element"}
       \/ pc = "value" /\ At(pos, Literals)
       \/ pc = "name" /\ text[pos] \in Literals
    /\ starved' = TRUE
    /\ Fails

\* What is next in the text is not what must be there.
Refuse ==
    /\ \/ /\ pc = "value"
          /\ ~At(pos, Plain \cup Strings)
          /\ ~ \E object \in BOOLEAN, q \in pos+1..Len(text) :
                  Opening(object) /\ SkipsTo(pos + 1, q)
       \/ pc = "name" /\ text[pos] \notin Strings
       \/ pc = "colon" /\ ~At(pos, {":"})
       \/ /\ pc = "after"
          /\ Depth > 0
          /\ ~ \E q \in pos..Len(text) :
                  Behind(q) /\ text[q] \in {",", Closer(Top.object)}
    /\ Fails
    /\ UNCHANGED starved

Failing == pc = "fail" /\ del = <<>>

\* cJSON_Delete is called.
Delete(item) == <<[item |-> item, entered |-> FALSE]>>

UnwindWith(deletion) ==
    /\ Failing
    /\ Depth > 0
    /\ del' = deletion
    /\ stack' = Front(stack)
    /\ UNCHANGED <<pc, text, pos, root, nodes, strings, fresh, starved>>

\* Defect: parse_array and parse_object return false at once.
UnwindForgets == UnwindWith(<<>>)

\* fail: of parse_array and parse_object, which then return false.
Unwind == UnwindWith(IF Top.head = 0 THEN <<>> ELSE Delete(Top.head))

\* fail: of cJSON_ParseWithLengthOpts.
DeleteRoot ==
    /\ Failing
    /\ Depth = 0 /\ root # 0
    /\ del' = Delete(root)
    /\ root' = 0
    /\ UNCHANGED <<pc, text, pos, stack, nodes, strings, fresh, starved>>

ReturnNull ==
    /\ Failing
    /\ Depth = 0 /\ root = 0
    /\ pc' = "done"
    /\ UNCHANGED <<text, pos, root, stack, nodes, strings, fresh, del, starved>>

-----------------------------------------------------------------------------
(***************************************************************************)
(* cJSON_Delete: a loop along next, and a call for each child.             *)
(***************************************************************************)
Deleting == del # <<>>
Victim == del[Len(del)]

DeleteChild ==
    /\ Deleting /\ Victim.item # 0
    /\ ~Victim.entered /\ nodes[Victim.item].child # 0
    /\ del' = [del EXCEPT ![Len(del)].entered = TRUE]
                \o Delete(nodes[Victim.item].child)
    /\ UNCHANGED <<pc, text, pos, root, stack, nodes, strings, fresh, starved>>

DeleteItem ==
    /\ Deleting /\ Victim.item # 0
    /\ Victim.entered \/ nodes[Victim.item].child = 0
    /\ LET n == nodes[Victim.item]
       IN  /\ strings' = Free(strings, {n.valuestring, n.string})
           /\ del' = [del EXCEPT ![Len(del)] =
                        [item |-> n.next, entered |-> FALSE]]
    /\ nodes' = Free(nodes, {Victim.item})
    /\ UNCHANGED <<pc, text, pos, root, stack, fresh, starved>>

DeleteReturns ==
    /\ Deleting /\ Victim.item = 0
    /\ del' = Front(del)
    /\ UNCHANGED <<pc, text, pos, root, stack, nodes, strings, fresh, starved>>

ParserNext ==
    \/ Begin \/ ReadPlain \/ ReadString \/ OpenEmpty \/ Open
    \/ NextElement \/ ReadName \/ ReadColon \/ Comma \/ Close \/ Finish
    \/ Starve \/ Refuse \/ Unwind \/ DeleteRoot \/ ReturnNull
    \/ DeleteChild \/ DeleteItem \/ DeleteReturns

\* strlen() of what t holds in memory, where NUL is behind t.
IsLength(n, t) ==
    /\ n \in 0..Len(t)
    /\ \A i \in 1..n : t[i] # Null
    /\ n < Len(t) => t[n + 1] = Null

\* cJSON_Parse(value), called by a process that has not called it before.
Parse(value) ==
    /\ \E n \in 0..Len(value) : /\ IsLength(n, value)
                                /\ text' = Append(SubSeq(value, 1, n), Null)
    /\ pc' = "start"
    /\ pos' = 1
    /\ root' = 0
    /\ stack' = <<>>
    /\ nodes' = <<>>
    /\ strings' = <<>>
    /\ fresh' = 1
    /\ del' = <<>>
    /\ starved' = FALSE

ParserSpec == ParserInit /\ [][ParserNext]_parserVars

-----------------------------------------------------------------------------
ParserPcs == {"start", "value", "element", "name", "colon", "after",
              "fail", "done"}

\* Types, addresses that are not handed out yet, the offset inside the buffer
\* or just behind it, and the nesting limit.
ParserTypeOK ==
    /\ pc \in ParserPcs
    /\ text \in Buffers
    /\ pos \in 1..Len(text) + 1
    /\ root \in Nat
    /\ stack \in Seq(Frames)
    /\ DOMAIN nodes \cup DOMAIN strings \subseteq 1..fresh-1
    /\ nodes \in [DOMAIN nodes -> Nodes]
    /\ strings \in [DOMAIN strings -> Strings]
    /\ fresh \in Nat \ {0}
    /\ del \in Seq(Deletes)
    /\ starved \in BOOLEAN
    /\ Depth <= NestingLimit

\* parse_object calls parse_string for a name without asking whether there is
\* anything left to read.  There always is, though it goes past a comma first.
NameInBounds == pc = "name" => CanAccess(pos)

(***************************************************************************)
(* Who frees what.  A slot is a pointer that somebody will follow to free  *)
(* what it points to: the local variables of the running functions, and    *)
(* the fields of the items, except a child that is being deleted already.  *)
(***************************************************************************)
Fields == {"next", "child", "valuestring", "string"}

Entered(n) == \E i \in DOMAIN del : del[i].item = n /\ del[i].entered

Slots ==
    {<<"root", 0>>} \cup ({"head"} \X DOMAIN stack)
        \cup ({"delete"} \X DOMAIN del)
        \cup {s \in Fields \X DOMAIN nodes : s[1] = "child" => ~Entered(s[2])}

Pointer(s) ==
    CASE s[1] = "root"        -> root
      [] s[1] = "head"        -> stack[s[2]].head
      [] s[1] = "delete"      -> del[s[2]].item
      [] s[1] = "next"        -> nodes[s[2]].next
      [] s[1] = "child"       -> nodes[s[2]].child
      [] s[1] = "valuestring" -> nodes[s[2]].valuestring
      [] s[1] = "string"      -> nodes[s[2]].string

StringSlot(s) == s[1] \in {"valuestring", "string"}

Owners(isString) ==
    {s \in Slots : Pointer(s) # 0 /\ StringSlot(s) = isString}

\* Nothing is freed twice, used after it is freed or lost, wherever the parser
\* fails and while it cleans up: the owners point to the live blocks, and
\* there are no more owners than blocks.
OneOwner ==
    /\ {Pointer(s) : s \in Owners(FALSE)} = DOMAIN nodes
    /\ {Pointer(s) : s \in Owners(TRUE)}  = DOMAIN strings
    /\ Cardinality(Owners(FALSE)) = Cardinality(DOMAIN nodes)
    /\ Cardinality(Owners(TRUE))  = Cardinality(DOMAIN strings)

\* When cJSON_Parse returns NULL, nothing it allocated is left.
NoLeak == pc = "done" /\ root = 0 => DOMAIN nodes = {} /\ DOMAIN strings = {}

(***************************************************************************)
(* What is parsed.                                                         *)
(***************************************************************************)
\* The tokens of the text up to n that are not blanks, nor the BOM.
Significant[n \in 0..Len(text)] ==
    IF n < AfterBom THEN <<>>
    ELSE Significant[n - 1] \o (IF text[n] \in Blanks THEN <<>> ELSE <<text[n]>>)

\* The tokens of an item and of those behind it.  Addresses grow along next
\* and child, so this is well founded.
Rendered[n \in Nat] ==
    IF n \notin DOMAIN nodes THEN <<>>
    ELSE LET item == nodes[n]
         IN  (IF item.string = 0 THEN <<>> ELSE <<strings[item.string], ":">>)
             \o (IF item.type = "String" /\ item.valuestring # 0
                 THEN <<strings[item.valuestring]>>
                 ELSE IF item.type \in {"Object", "Array"}
                 THEN LET object == item.type = "Object"
                      IN  <<Opener(object)>> \o Rendered[item.child]
                            \o <<Closer(object)>>
                 ELSE <<item.type>>)
             \o (IF item.next = 0 THEN <<>> ELSE <<",">> \o Rendered[item.next])

\* A list is linked both ways, and the prev of its head is its last item.
Linked ==
    \A n \in DOMAIN nodes :
        /\ nodes[n].next # 0 => nodes[nodes[n].next].prev = n
        /\ nodes[n].child # 0 =>
             nodes[nodes[nodes[n].child].prev].next = 0

\* The tree that cJSON_Parse returns says what it has read of the text, no
\* more and no less, in its order.
Faithful ==
    pc = "done" /\ root # 0 =>
        /\ Rendered[root] = Significant[pos - 1]
        /\ Linked

(***************************************************************************)
(* A grammar of JSON to compare with: Derived[n] holds the phrases of the  *)
(* text whose derivations are at most n deep.                              *)
(***************************************************************************)
Sentence == Significant[Len(text)]

Kinds == {"value", "elements", "member", "members"}

Derived[n \in Nat] ==
    IF n = 0 THEN {}
    ELSE LET Is(kind, i, j) == <<kind, i, j>> \in Derived[n - 1]
             Bracketed(i, j, ends, kind) ==
                 /\ i < j /\ <<Sentence[i], Sentence[j]>> = ends
                 /\ j = i + 1 \/ Is(kind, i + 1, j - 1)
             List(i, j, kind, list) ==
                 \/ Is(kind, i, j)
                 \/ \E k \in i+1..j-1 : /\ Is(kind, i, k - 1)
                                        /\ Sentence[k] = ","
                                        /\ Is(list, k + 1, j)
             Rule(kind, i, j) ==
                 CASE kind = "value" ->
                        \/ i = j /\ Sentence[i] \in Plain \cup Literals
                        \/ /\ j = i + 1
                           /\ Sentence[i] \in Numbers /\ Sentence[j] = More
                        \/ Bracketed(i, j, <<"[", "]">>, "elements")
                        \/ Bracketed(i, j, <<"{", "}">>, "members")
                   [] kind = "member" ->
                        /\ i + 2 <= j
                        /\ Sentence[i] \in Literals /\ Sentence[i + 1] = ":"
                        /\ Is("value", i + 2, j)
                   [] kind = "elements" -> List(i, j, "value", "elements")
                   [] kind = "members"  -> List(i, j, "member", "members")
         IN  {p \in Kinds \X (1..Len(Sentence)) \X (1..Len(Sentence)) :
                p[2] <= p[3] /\ Rule(p[1], p[2], p[3])}

\* How deep the nesting is behind each token.
Nesting[j \in 0..Len(Sentence)] ==
    IF j = 0 THEN 0
    ELSE Nesting[j - 1] + CASE Sentence[j] \in {"{", "["} -> 1
                            [] Sentence[j] \in {"}", "]"} -> -1
                            [] OTHER -> 0

\* A text that begins with a value in JSON is refused for four reasons only: it
\* is too deeply nested (1446, 1606), memory ran out, one of its numbers has more
\* than 63 characters (309, 321), or one of its literals holds half a surrogate
\* pair (672-703).
Complete ==
    pc = "done" /\ root = 0 /\ ~starved =>
        \A j \in 1..Len(Sentence) :
            <<"value", 1, j>> \in Derived[2 * Len(Sentence)]
              => \E i \in 1..j : Nesting[i] > NestingLimit
                                  \/ Sentence[i] \in Unsupported

=============================================================================
