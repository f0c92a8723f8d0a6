------------------------------- MODULE CppJson -------------------------------
(***************************************************************************)
(* json::parse(std::string) of the library in the C++ echo server          *)
(* (json.hpp): the lexer, one step a byte, the parser, one step a token,   *)
(* and json_sax_dom_parser, which builds the value in memory.              *)
(*                                                                         *)
(* The text is not chosen beforehand: the input adapter hands out one      *)
(* byte more whenever the lexer asks for it, so texts that are refused     *)
(* early are refused once for all their continuations.                     *)
(*                                                                         *)
(* Memory is a sequence of basic_json objects, an address is a position in *)
(* it: a pointer in ref_stack or object_element is such a position.  What  *)
(* a vector that grows has moved out of is "gone".                         *)
(***************************************************************************)
EXTENDS CppNumbers, CppUtf8

CONSTANT Jobs  \* the bodies considered, a function: what they begin with, the bytes
               \* that may follow, and (a bound) how many of them
ASSUME JobsAssumption ==
    \A j \in DOMAIN Jobs :
        Jobs[j].head \in Seq(0..255) /\ Jobs[j].more \subseteq 0..255 /\ Jobs[j].max \in Nat

VARIABLES
    job,            \* which of Jobs this is
    text,           \* the bytes the input adapter has handed out
    lex,            \* the lexer: where scan() is, and its fields
    token,          \* last_token
    parseAt,        \* where sax_parse_internal() is, when it looks at a token
    states,         \* its stack of what it is inside of
    heap,           \* the basic_json objects ever made; the first is result
    refStack,       \* ref_stack
    objectElement   \* object_element, 0 for the null pointer

jsonVars == <<job, text, lex, token, parseAt, states, heap, refStack, objectElement>>

Job == Jobs[job]

Eof == -1
Node(kind, value) == [kind |-> kind, value |-> value]
Null == Node("null", <<>>)
Gone == Node("gone", <<>>)

\* value_t of a token that is a value by itself.
ScalarKind ==
    [literal_true |-> "true", literal_false |-> "false", literal_null |-> "null",
     value_string |-> "string", value_unsigned |-> "unsigned",
     value_integer |-> "integer", value_float |-> "float"]

Structural == [c \in {91, 93, 123, 125, 58, 44} |->
    CASE c = 91 -> "begin_array" [] c = 93 -> "end_array" [] c = 123 -> "begin_object"
      [] c = 125 -> "end_object" [] c = 58 -> "name_separator" [] c = 44 -> "value_separator"]

Tokens == {"uninitialized", "begin_array", "end_array", "begin_object", "end_object",
           "name_separator", "value_separator", "parse_error", "end_of_input"} \cup DOMAIN ScalarKind

-----------------------------------------------------------------------------
(* The input adapter and get().  unget() makes get() answer current again. *)

NextBytes ==
    IF lex.current = Eof THEN {Eof}
    ELSE IF Len(text) < Len(Job.head) THEN {Job.head[Len(text) + 1]}
    ELSE {Eof} \cup IF Len(text) < Len(Job.head) + Job.max THEN Job.more ELSE {}

Readable == IF lex.unget THEN {lex.current} ELSE NextBytes

\* get() answers c and scan() goes on at the place and with the fields of l.
Get(c, l) ==
    /\ lex' = [l EXCEPT !.current = c, !.unget = FALSE]
    /\ text' = IF lex.unget \/ c = Eof THEN text ELSE Append(text, c)
    /\ UNCHANGED token

\* get() answers c, which is given back, and scan() goes on.
Unget(c, l) ==
    /\ lex' = [l EXCEPT !.current = c, !.unget = TRUE]
    /\ text' = IF lex.unget \/ c = Eof THEN text ELSE Append(text, c)

\* get() answers c and scan() returns t: get_token() is over.
Return(c, t) ==
    /\ lex' = [lex EXCEPT !.current = c, !.unget = FALSE, !.at = "returned", !.left = <<>>]
    /\ text' = IF lex.unget \/ c = Eof THEN text ELSE Append(text, c)
    /\ token' = t

parserVars == <<job, parseAt, states, heap, refStack, objectElement>>

\* skip_bom(), which only the first scan() calls.
SkipBom ==
    /\ lex.at = "bom"
    /\ \E c \in Readable :
         IF c = lex.left[1]
         THEN Get(c, [lex EXCEPT !.left = Tail(@), !.at = IF Len(lex.left) = 1 THEN "space" ELSE @])
         ELSE IF Len(lex.left) = 3 THEN Unget(c, [lex EXCEPT !.at = "space"]) /\ UNCHANGED token
         ELSE Return(c, "parse_error")
    /\ UNCHANGED parserVars

Whitespace == {32, 9, 10, 13}
Digits == 48..57

\* The bytes that must follow the first one of a literal.
Literals == [c \in {116, 102, 110} |->
    CASE c = 116 -> [rest |-> <<114, 117, 101>>, token |-> "literal_true"]
      [] c = 102 -> [rest |-> <<97, 108, 115, 101>>, token |-> "literal_false"]
      [] c = 110 -> [rest |-> <<117, 108, 108>>, token |-> "literal_null"]]

\* scan() up to the first byte of the token.  A null byte ends the input.
Scan ==
    /\ lex.at = "space"
    /\ \E c \in Readable :
         CASE c \in Whitespace -> Get(c, lex)
           [] c \in DOMAIN Structural -> Return(c, Structural[c])
           [] c \in DOMAIN Literals ->
                Get(c, [lex EXCEPT !.at = "literal", !.left = Literals[c].rest, !.type = Literals[c].token])
           [] c = 34 -> Get(c, [lex EXCEPT !.at = "string", !.buffer = <<>>])
           [] c = 45 -> Get(c, [lex EXCEPT !.at = "minus", !.buffer = <<c>>, !.type = "value_integer"])
           [] c = 48 -> Get(c, [lex EXCEPT !.at = "zero", !.buffer = <<c>>, !.type = "value_unsigned"])
           [] c \in 49..57 -> Get(c, [lex EXCEPT !.at = "any1", !.buffer = <<c>>, !.type = "value_unsigned"])
           [] c \in {0, Eof} -> Return(c, "end_of_input")
           [] OTHER -> Return(c, "parse_error")
    /\ UNCHANGED parserVars

ScanLiteral ==
    /\ lex.at = "literal"
    /\ \E c \in Readable :
         IF c # lex.left[1] THEN Return(c, "parse_error")
         ELSE IF Len(lex.left) = 1 THEN Return(c, lex.type)
         ELSE Get(c, [lex EXCEPT !.left = Tail(@)])
    /\ UNCHANGED parserVars

-----------------------------------------------------------------------------
(* Strings.                                                                *)

Continuation == <<128, 191>>

\* Mutant of TailRanges: the surrogates of ED A0..BF pass.
TailRangesSurrogates(c) ==
    CASE c \in 194..223 -> <<Continuation>>
      [] c = 224 -> <<<<160, 191>>, Continuation>>
      [] c \in 225..239 -> <<Continuation, Continuation>>
      [] c = 240 -> <<<<144, 191>>, Continuation, Continuation>>
      [] c \in 241..243 -> <<Continuation, Continuation, Continuation>>
      [] c = 244 -> <<<<128, 143>>, Continuation, Continuation>>

\* The ranges of the bytes that must follow c in well-formed UTF-8.
TailRanges(c) ==
    CASE c \in 194..223 -> <<Continuation>>
      [] c = 224 -> <<<<160, 191>>, Continuation>>
      [] c \in 225..239 \ {237} -> <<Continuation, Continuation>>
      [] c = 237 -> <<<<128, 159>>, Continuation>>
      [] c = 240 -> <<<<144, 191>>, Continuation, Continuation>>
      [] c \in 241..243 -> <<Continuation, Continuation, Continuation>>
      [] c = 244 -> <<<<128, 143>>, Continuation, Continuation>>

\* What a string holds as it is in one byte, and what it does not hold.
Plain == 32..127 \ {34, 92}
Control == 0..31

ScanString ==
    /\ lex.at = "string"
    /\ \E c \in Readable :
         CASE c = 34 -> Return(c, "value_string")
           [] c = 92 -> Get(c, [lex EXCEPT !.at = "escape"])
           [] c \in Plain -> Get(c, [lex EXCEPT !.buffer = Append(@, c)])
           [] c \in 194..244 ->
                Get(c, [lex EXCEPT !.at = "tail", !.buffer = Append(@, c), !.left = TailRanges(c)])
           [] c \in Control \cup {Eof} \/ c \in 128..193 \/ c > 244 -> Return(c, "parse_error")
    /\ UNCHANGED parserVars

\* next_byte_in_range()
ScanTail ==
    /\ lex.at = "tail"
    /\ \E c \in Readable :
         IF c \in lex.left[1][1]..lex.left[1][2]
         THEN Get(c, [lex EXCEPT !.buffer = Append(@, c), !.left = Tail(@),
                                 !.at = IF Len(lex.left) = 1 THEN "string" ELSE @])
         ELSE Return(c, "parse_error")
    /\ UNCHANGED parserVars

\* The character after a backslash, and what it stands for.
Escapes == [c \in {34, 92, 47, 98, 102, 110, 114, 116} |->
    CASE c = 98 -> 8 [] c = 102 -> 12 [] c = 110 -> 10 [] c = 114 -> 13 [] c = 116 -> 9 [] OTHER -> c]

ScanEscape ==
    /\ lex.at = "escape"
    /\ \E c \in Readable :
         CASE c \in DOMAIN Escapes -> Get(c, [lex EXCEPT !.at = "string", !.buffer = Append(@, Escapes[c])])
           [] c = 117 -> Get(c, [lex EXCEPT !.at = "hex", !.left = <<>>, !.high = 0])
           [] OTHER -> Return(c, "parse_error")
    /\ UNCHANGED parserVars

HexDigit == [c \in Digits \cup 65..70 \cup 97..102 |->
    CASE c \in Digits -> c - 48 [] c \in 65..70 -> c - 55 [] c \in 97..102 -> c - 87]

\* get_codepoint(): 16 bits from four digits.
Codepoint(digits) == 4096 * digits[1] + 256 * digits[2] + 16 * digits[3] + digits[4]

HighSurrogate == 55296..56319
LowSurrogate == 56320..57343

Utf8(codepoint) ==
    LET Last6(n) == 128 + (n % 64) IN
    IF codepoint < 128 THEN <<codepoint>>
    ELSE IF codepoint <= 2047 THEN <<192 + (codepoint \div 64), Last6(codepoint)>>
    ELSE IF codepoint <= 65535
    THEN <<224 + (codepoint \div 4096), Last6(codepoint \div 64), Last6(codepoint)>>
    ELSE <<240 + (codepoint \div 262144), Last6(codepoint \div 4096),
           Last6(codepoint \div 64), Last6(codepoint)>>

Paired(high, low) == 1024 * (high - 55296) + (low - 56320) + 65536

\* The four digits behind \u.  A high surrogate waits for the \u of a low one.
ScanHex ==
    /\ lex.at = "hex"
    /\ \E c \in Readable :
         IF c \notin DOMAIN HexDigit THEN Return(c, "parse_error")
         ELSE LET digits == Append(lex.left, HexDigit[c])
                  codepoint == Codepoint(digits)
                  Add(cp) == Get(c, [lex EXCEPT !.at = "string", !.left = <<>>, !.high = 0, !.buffer = @ \o Utf8(cp)])
              IN CASE Len(digits) < 4 -> Get(c, [lex EXCEPT !.left = digits])
                   [] Len(digits) = 4 /\ lex.high # 0 ->
                        IF codepoint \in LowSurrogate THEN Add(Paired(lex.high, codepoint))
                        ELSE Return(c, "parse_error")
                   [] Len(digits) = 4 /\ lex.high = 0 ->
                        IF codepoint \in HighSurrogate
                        THEN Get(c, [lex EXCEPT !.at = "pair", !.left = <<92, 117>>, !.high = codepoint])
                        ELSE IF codepoint \in LowSurrogate THEN Return(c, "parse_error")
                        ELSE Add(codepoint)
    /\ UNCHANGED parserVars

ScanPair ==
    /\ lex.at = "pair"
    /\ \E c \in Readable :
         IF c = lex.left[1]
         THEN Get(c, [lex EXCEPT !.left = Tail(@), !.at = IF Len(lex.left) = 1 THEN "hex" ELSE @])
         ELSE Return(c, "parse_error")
    /\ UNCHANGED parserVars

-----------------------------------------------------------------------------
(* Numbers: the labels of scan_number() and where each goes on a byte.     *)

NumberNext(at, c) ==
    CASE at = "minus" /\ c = 48 -> "zero"
      [] at = "minus" /\ c \in 49..57 -> "any1"
      [] at = "any1" /\ c \in Digits -> "any1"
      [] at \in {"zero", "any1"} /\ c = 46 -> "decimal1"
      [] at \in {"zero", "any1", "decimal2"} /\ c \in {69, 101} -> "exponent"
      [] at \in {"decimal1", "decimal2"} /\ c \in Digits -> "decimal2"
      [] at \in {"minus", "decimal1"} -> "error"
      [] OTHER -> "done"

ExponentNext(at, c) ==
    CASE at = "exponent" /\ c \in {43, 45} -> "sign"
      [] c \in Digits -> "any2"
      [] at \in {"exponent", "sign"} -> "error"
      [] OTHER -> "done"

NumberLabels == {"minus", "zero", "any1", "decimal1", "decimal2", "exponent", "sign", "any2"}

NumberType(at) == IF at \in {"decimal1", "exponent"} THEN "value_float" ELSE lex.type

\* scan_number_done: an integer that does not fit is read as a double.
NumberDone ==
    IF \/ lex.type = "value_unsigned" /\ FitsUnsigned(lex.buffer)
       \/ lex.type = "value_integer" /\ FitsInteger(lex.buffer)
    THEN lex.type ELSE "value_float"

ScanNumber ==
    /\ lex.at \in NumberLabels
    /\ \E c \in Readable :
         LET at == IF lex.at \in {"exponent", "sign", "any2"}
                   THEN ExponentNext(lex.at, c) ELSE NumberNext(lex.at, c) IN
         CASE at = "error" -> Return(c, "parse_error")
           [] at = "done" -> Unget(c, [lex EXCEPT !.at = "returned"]) /\ token' = NumberDone
           [] OTHER -> Get(c, [lex EXCEPT !.at = at, !.buffer = Append(@, c), !.type = NumberType(at)])
    /\ UNCHANGED parserVars

Lexer ==
    \/ SkipBom \/ Scan \/ ScanLiteral
    \/ ScanString \/ ScanTail \/ ScanEscape \/ ScanHex \/ ScanPair
    \/ ScanNumber

-----------------------------------------------------------------------------
(* json_sax_dom_parser                                                     *)

Back == refStack[Len(refStack)]

InArray == refStack # <<>> /\ heap[Back].kind = "array"

\* The vector of n elements has no room for one more.
Full(n) == \E k \in 0..n : n = 2^k

\* Mutant of EmplaceBack: the elements move and the vector still has their old addresses.
EmplaceBackStale(v) ==
    LET old == heap[Back].value
        moved == IF Full(Len(old)) THEN Len(old) ELSE 0
        last == Len(heap) + moved + 1
    IN [a \in 1..last |->
          IF a = last THEN v
          ELSE IF a > Len(heap) THEN heap[old[a - Len(heap)]]
          ELSE IF a = Back THEN Node("array", Append(old, last))
          ELSE IF moved # 0 /\ a \in Range(old) THEN Gone
          ELSE heap[a]]

\* emplace_back() on the array at the top: a full vector moves its elements.
EmplaceBack(v) ==
    LET old == heap[Back].value
        moved == IF Full(Len(old)) THEN Len(old) ELSE 0
        last == Len(heap) + moved + 1
        elements == [i \in 1..(Len(old) + 1) |->
                        IF i > Len(old) THEN last ELSE IF moved # 0 THEN Len(heap) + i ELSE old[i]]
    IN [a \in 1..last |->
          IF a = last THEN v
          ELSE IF a > Len(heap) THEN heap[old[a - Len(heap)]]
          ELSE IF a = Back THEN Node("array", elements)
          ELSE IF moved # 0 /\ a \in Range(old) THEN Gone
          ELSE heap[a]]

Target == IF refStack = <<>> THEN 1 ELSE objectElement

\* handle_value(v) and the address it returns.
HandleValue(v) == heap' = IF InArray THEN EmplaceBack(v) ELSE [heap EXCEPT ![Target] = v]
Handled == IF InArray THEN Len(heap') ELSE Target

Start(v) ==
    /\ HandleValue(v)
    /\ refStack' = Append(refStack, Handled)
    /\ UNCHANGED objectElement

End ==
    /\ refStack' = SubSeq(refStack, 1, Len(refStack) - 1)
    /\ UNCHANGED <<heap, objectElement>>

\* key(): operator[] of the map adds a null for a key it does not have.
SetKey(k) ==
    LET members == heap[Back].value IN
    IF k \in DOMAIN members
    THEN objectElement' = members[k] /\ UNCHANGED heap
    ELSE /\ objectElement' = Len(heap) + 1
         /\ heap' = Append([heap EXCEPT ![Back] =
                Node("object", [m \in DOMAIN members \cup {k} |->
                                    IF m = k THEN Len(heap) + 1 ELSE members[m]])], Null)

-----------------------------------------------------------------------------
(* parser: sax_parse_internal() and the end of parse().                    *)

\* The tokens each place of the parser can go on with.
Expected ==
    [value |-> {"begin_object", "begin_array"} \cup DOMAIN ScalarKind,
     object |-> {"end_object", "value_string"}, firstColon |-> {"name_separator"},
     array |-> Tokens, arrayNext |-> {"value_separator", "end_array"},
     objectNext |-> {"value_separator", "end_object"}, key |-> {"value_string"},
     nextColon |-> {"name_separator"}, strict |-> {"end_of_input"}]

Looking(at, t) == lex.at = "returned" /\ parseAt = at /\ token = t

GetToken == lex' = [lex EXCEPT !.at = "space"] /\ UNCHANGED <<job, text, token>>

\* The end of a value inside of st: the innermost container says what follows.
AfterValue(st) ==
    /\ states' = st
    /\ parseAt' = IF st = <<>> THEN "strict"
                  ELSE IF st[Len(st)] = "array" THEN "arrayNext" ELSE "objectNext"

Leave(st) == SubSeq(st, 1, Len(st) - 1)

BeginObject ==
    /\ Looking("value", "begin_object")
    /\ Start(Node("object", [k \in {} |-> 0]))
    /\ parseAt' = "object" /\ UNCHANGED states /\ GetToken

EmptyObject == Looking("object", "end_object") /\ End /\ AfterValue(states) /\ GetToken

Key ==
    /\ \/ Looking("object", "value_string") /\ parseAt' = "firstColon"
       \/ Looking("key", "value_string") /\ parseAt' = "nextColon"
    /\ SetKey(lex.buffer)
    /\ UNCHANGED <<states, refStack>> /\ GetToken

FirstColon ==
    /\ Looking("firstColon", "name_separator")
    /\ states' = Append(states, "object") /\ parseAt' = "value"
    /\ UNCHANGED <<heap, refStack, objectElement>> /\ GetToken

NextColon ==
    /\ Looking("nextColon", "name_separator")
    /\ parseAt' = "value"
    /\ UNCHANGED <<states, heap, refStack, objectElement>> /\ GetToken

BeginArray ==
    /\ Looking("value", "begin_array")
    /\ Start(Node("array", <<>>))
    /\ parseAt' = "array" /\ UNCHANGED states /\ GetToken

EmptyArray == Looking("array", "end_array") /\ End /\ AfterValue(states) /\ GetToken

\* The token that is not the closing bracket begins the first element.
FirstElement ==
    /\ lex.at = "returned" /\ parseAt = "array" /\ token # "end_array"
    /\ states' = Append(states, "array") /\ parseAt' = "value"
    /\ UNCHANGED <<job, text, lex, token, heap, refStack, objectElement>>

TokenValue ==
    CASE token = "value_string" -> lex.buffer
      [] token \in {"value_unsigned", "value_integer"} -> ExactValue(lex.buffer)
      [] token = "value_float" -> Double(ExactValue(lex.buffer))
      [] OTHER -> <<>>

TooLarge == token = "value_float" /\ ~IsFinite(TokenValue)

Scalar ==
    /\ lex.at = "returned" /\ parseAt = "value" /\ token \in DOMAIN ScalarKind
    /\ ~TooLarge
    /\ HandleValue(Node(ScalarKind[token], TokenValue))
    /\ UNCHANGED <<refStack, objectElement>>
    /\ AfterValue(states) /\ GetToken

NextElement ==
    /\ Looking("arrayNext", "value_separator")
    /\ parseAt' = "value"
    /\ UNCHANGED <<states, heap, refStack, objectElement>> /\ GetToken

EndArray == Looking("arrayNext", "end_array") /\ End /\ AfterValue(Leave(states)) /\ GetToken

NextMember ==
    /\ Looking("objectNext", "value_separator")
    /\ parseAt' = "key"
    /\ UNCHANGED <<states, heap, refStack, objectElement>> /\ GetToken

\* Mutant of EndObject: the parser forgets to leave the object.
EndObjectStays == Looking("objectNext", "end_object") /\ End /\ AfterValue(states) /\ GetToken

EndObject == Looking("objectNext", "end_object") /\ End /\ AfterValue(Leave(states)) /\ GetToken

\* parse() is strict: nothing but the end of the input may follow the value.
Accept ==
    /\ Looking("strict", "end_of_input")
    /\ parseAt' = "accepted"
    /\ UNCHANGED <<job, text, lex, token, states, heap, refStack, objectElement>>

\* An exception of the class named by parseAt' leaves parse().
Unexpected ==
    /\ lex.at = "returned" /\ parseAt \in DOMAIN Expected /\ token \notin Expected[parseAt]
    /\ parseAt' = "parse_error"
    /\ UNCHANGED <<job, text, lex, token, states, heap, refStack, objectElement>>

NumberOverflow ==
    /\ lex.at = "returned" /\ parseAt = "value" /\ TooLarge
    /\ parseAt' = "out_of_range"
    /\ UNCHANGED <<job, text, lex, token, states, heap, refStack, objectElement>>

Parser ==
    \/ BeginObject \/ EmptyObject \/ Key \/ FirstColon \/ NextColon
    \/ NextMember \/ EndObject
    \/ BeginArray \/ EmptyArray \/ FirstElement \/ NextElement \/ EndArray
    \/ Scalar \/ Accept \/ Unexpected \/ NumberOverflow

JsonInit ==
    /\ job \in DOMAIN Jobs
    /\ text = <<>>
    /\ lex = [at |-> "bom", left |-> <<239, 187, 191>>, current |-> 0, unget |-> FALSE,
              buffer |-> <<>>, type |-> "uninitialized", high |-> 0]
    /\ token = "uninitialized"
    /\ parseAt = "value" /\ states = <<>>
    /\ heap = <<Null>> /\ refStack = <<>> /\ objectElement = 0

JsonNext == Lexer \/ Parser

JsonSpec == JsonInit /\ [][JsonNext]_jsonVars

-----------------------------------------------------------------------------
(* Properties                                                              *)

Kinds == Range(ScalarKind) \cup {"array", "object", "gone"}

Places == DOMAIN Expected \cup {"accepted", "parse_error", "out_of_range"}

Children(n) == IF n.kind \in {"array", "object"} THEN Range(n.value) ELSE {}

\* Every variable has its type, and every pointer points to an object.
JsonTypeOK ==
    /\ job \in DOMAIN Jobs /\ text \in Seq(0..255)
    /\ token \in Tokens /\ parseAt \in Places
    /\ states \in Seq({"array", "object"})
    /\ refStack \in Seq(DOMAIN heap) /\ objectElement \in {0} \cup DOMAIN heap
    /\ \A a \in DOMAIN heap :
         /\ heap[a].kind \in Kinds
         /\ \A c \in Children(heap[a]) : c \in DOMAIN heap /\ heap[c].kind # "gone"

\* Where the parser has opened a container it has not yet put on states.
Opening == parseAt \in {"object", "firstColon", "array"}
Failed == parseAt \in {"parse_error", "out_of_range"}

\* The kinds of the containers ref_stack points to.
Kind(i) == heap[refStack[i]].kind

\* The parser's stack of what it is inside of and the value builder's stack of
\* pointers are two records of one nesting, and the pointers are good: they
\* lead from the root down, each to a child of the one before, at every
\* token, though vectors move their elements when they grow.  The builder's
\* assertions (key(), end_object(), end_array(), handle_value(), json.hpp:8910,
\* :8920, :8959, :9085) follow.
StacksAgree ==
    /\ ~Failed => Len(refStack) = Len(states) + IF Opening THEN 1 ELSE 0
    /\ \A i \in DOMAIN states : i \in DOMAIN refStack /\ Kind(i) = states[i]
    /\ parseAt \in {"object", "firstColon"} => Kind(Len(refStack)) = "object"
    /\ parseAt = "array" => Kind(Len(refStack)) = "array"
    /\ refStack # <<>> => refStack[1] = 1
    /\ \A i \in 1..(Len(refStack) - 1) : refStack[i + 1] \in Children(heap[refStack[i]])
    /\ (refStack # <<>> /\ ~Failed /\ Kind(Len(refStack)) = "object"
           /\ parseAt \in {"firstColon", "nextColon", "value"})
          => objectElement \in Range(heap[Back].value)

\* The lexer knows UTF-8 by its ranges of bytes and writes it where it meets \u
\* (scan_string), dump() knows it by a table: what the lexer lets into a string
\* or a key, dump() can write.  Otherwise a request would end the process, by
\* the type_error 316 that nobody catches.
StringsAreUtf8 ==
    \A a \in DOMAIN heap :
        /\ heap[a].kind = "string" => IsUtf8(heap[a].value)
        /\ heap[a].kind = "object" => \A k \in DOMAIN heap[a].value : IsUtf8(k)
=============================================================================
