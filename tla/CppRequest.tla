----------------------------- MODULE CppRequest ------------------------------
(***************************************************************************)
(* One data package of a client of the C++ echo server, from its bytes to  *)
(* the bytes of the answer: Session::handle_data() and handle_request()    *)
(* (session.cpp), the handler main.cpp registers, json::parse() (CppJson), *)
(* json::dump() and the codecs (CppProtocol).                              *)
(***************************************************************************)
EXTENDS CppJson, CppProtocol

VARIABLES
    at,         \* how far the session has come with the package
    reqId,      \* ReqId
    answer      \* what the session has sent

requestVars == <<at, reqId, answer, jsonVars>>

\* The message in front of the text: each of Jobs has a header, its bytes up to
\* the body, and a count of requests the session has answered before.
Message == MessageDecode(Job.header)

\* "connector.entryHandler.hello"
HelloRoute == <<99, 111, 110, 110, 101, 99, 116, 111, 114, 46, 101, 110, 116, 114, 121, 72, 97, 110, 100, 108, 101, 114, 46, 104, 101, 108, 108, 111>>

\* The names "serverReqId", "code", "msg".
ServerReqId == <<115, 101, 114, 118, 101, 114, 82, 101, 113, 73, 100>>
Code == <<99, 111, 100, 101>>
Msg == <<109, 115, 103>>

\* {"code":400,"msg":"Invalid JSON"}
InvalidJson == <<123, 34, 99, 111, 100, 101, 34, 58, 52, 48, 48, 44, 34, 109, 115, 103, 34, 58, 34, 73, 110, 118, 97, 108, 105, 100, 32, 74, 83, 79, 78, 34, 125>>

\* {"code":404,"msg":"Route not found:
NotFound == <<123, 34, 99, 111, 100, 101, 34, 58, 52, 48, 52, 44, 34, 109, 115, 103, 34, 58, 34, 82, 111, 117, 116, 101, 32, 110, 111, 116, 32, 102, 111, 117, 110, 100, 58, 32>>

-----------------------------------------------------------------------------
(* Values apart from where they lie in memory: what copies of a basic_json *)
(* have in common.                                                         *)

RECURSIVE Tree(_)
Tree(a) ==
    LET n == heap[a] IN
    CASE n.kind = "array" -> <<n.kind, [i \in DOMAIN n.value |-> Tree(n.value[i])]>>
      [] n.kind = "object" -> <<n.kind, [k \in DOMAIN n.value |-> Tree(n.value[k])]>>
      [] OTHER -> <<n.kind, n.value>>

Object(fields) == <<"object", fields>>

\* body["serverReqId"] = n, for null makes an object of it.
WithReqId(body, n) ==
    LET members == IF body[1] = "null" THEN {} ELSE DOMAIN body[2] IN
    Object([k \in members \cup {ServerReqId} |->
        IF k = ServerReqId THEN <<"integer", Natural(n)>> ELSE body[2][k]])

Indexable(body) == body[1] \in {"null", "object"}

-----------------------------------------------------------------------------
(* serializer::dump(), compact and with no character escaped that need not *)
(* be.  It throws for a string that is not UTF-8.                          *)

HexChar(n) == IF n < 10 THEN 48 + n ELSE 87 + n

\* Mutant of Escaped: the last control character goes as it is.
EscapedBelow(c) ==
    CASE c \in {34, 92} -> <<92, c>>
      [] c = 8 -> <<92, 98>> [] c = 9 -> <<92, 116>> [] c = 10 -> <<92, 110>>
      [] c = 12 -> <<92, 102>> [] c = 13 -> <<92, 114>>
      [] c \in 0..30 \ {8, 9, 10, 12, 13} -> <<92, 117, 48, 48, HexChar(c \div 16), HexChar(c % 16)>>
      [] OTHER -> <<c>>

\* How dump_escaped() writes a byte; those of a longer character go as they are.
Escaped(c) ==
    CASE c \in {34, 92} -> <<92, c>>
      [] c = 8 -> <<92, 98>> [] c = 9 -> <<92, 116>> [] c = 10 -> <<92, 110>>
      [] c = 12 -> <<92, 102>> [] c = 13 -> <<92, 114>>
      [] c \in 0..31 \ {8, 9, 10, 12, 13} -> <<92, 117, 48, 48, HexChar(c \div 16), HexChar(c % 16)>>
      [] OTHER -> <<c>>

DumpString(s) == <<34>> \o FlattenSeq([i \in DOMAIN s |-> Escaped(s[i])]) \o <<34>>

RECURSIVE Dumpable(_)
Dumpable(v) ==
    CASE v[1] = "string" -> IsUtf8(v[2])
      [] v[1] = "array" -> \A i \in DOMAIN v[2] : Dumpable(v[2][i])
      [] v[1] = "object" -> \A k \in DOMAIN v[2] : IsUtf8(k) /\ Dumpable(v[2][k])
      [] OTHER -> TRUE

\* std::string's order, which is the order of the map and so of the members.
Before(a, b) ==
    \/ IsStrictPrefix(a, b)
    \/ \E i \in DOMAIN a \cap DOMAIN b : a[i] < b[i] /\ \A j \in 1..(i - 1) : a[j] = b[j]

Separated(texts) ==
    FlattenSeq([i \in DOMAIN texts |-> IF i = 1 THEN texts[i] ELSE <<44>> \o texts[i]])

DumpScalar(v) ==
    CASE v[1] = "string" -> DumpString(v[2])
      [] v[1] = "true" -> <<116, 114, 117, 101>>
      [] v[1] = "false" -> <<102, 97, 108, 115, 101>>
      [] v[1] = "null" -> <<110, 117, 108, 108>>
      [] v[1] \in {"integer", "unsigned"} -> DumpInteger(v[2])
      [] v[1] = "float" -> DumpFloat(v[2])

RECURSIVE Dump(_)
Dump(v) ==
    CASE v[1] = "object" ->
           LET names == SetToSortSeq(DOMAIN v[2], Before)
           IN <<123>> \o Separated([i \in DOMAIN names |->
                  DumpString(names[i]) \o <<58>> \o Dump(v[2][names[i]])]) \o <<125>>
      [] v[1] = "array" -> <<91>> \o Separated([i \in DOMAIN v[2] |-> Dump(v[2][i])]) \o <<93>>
      [] OTHER -> DumpScalar(v)

-----------------------------------------------------------------------------
(* The session.                                                            *)

Send(text_) ==
    /\ answer' = PackageEncode(Data, MessageEncode(Message.id, Response, FALSE, <<>>, text_))
    /\ at' = "answered"

\* A message that is cut short, and one that is no request, is not answered.
HandleData ==
    /\ at = "data"
    /\ IF Message.ok /\ Message.type = Request
       THEN IF Message.route = HelloRoute THEN at' = "parse" /\ UNCHANGED answer
            ELSE Send(NotFound \o Message.route \o <<34, 125>>)
       ELSE at' = "ignored" /\ UNCHANGED answer
    /\ UNCHANGED <<reqId, jsonVars>>

Parse ==
    /\ at = "parse" /\ JsonNext
    /\ UNCHANGED <<at, reqId, answer>>

\* Only a parse_error is caught.
HandleParseError ==
    /\ at = "parse" /\ parseAt = "parse_error"
    /\ Send(InvalidJson)
    /\ UNCHANGED <<reqId, jsonVars>>

\* Any other exception reaches the end of the worker's thread, and with it the
\* process: the out_of_range of a number, the type_error of operator[] on a
\* body that is no object, the one of dump().
Terminate ==
    /\ at = "parse" /\ parseAt = "out_of_range"
    /\ at' = "terminated"
    /\ UNCHANGED <<reqId, answer, jsonVars>>

\* The handler of main.cpp.
Hello ==
    /\ at = "parse" /\ parseAt = "accepted"
    /\ reqId' = reqId + 1
    /\ LET body == Tree(1)
           Resp == Object([k \in {Code, Msg} |->
                       IF k = Code THEN <<"integer", Natural(0)>> ELSE WithReqId(body, reqId')])
       IN IF Indexable(body) /\ Dumpable(Resp) THEN Send(Dump(Resp))
          ELSE at' = "terminated" /\ UNCHANGED answer
    /\ UNCHANGED jsonVars

RequestInit == JsonInit /\ at = "data" /\ reqId = Job.reqId /\ answer = <<>>

RequestNext == HandleData \/ Parse \/ HandleParseError \/ Terminate \/ Hello

RequestSpec == RequestInit /\ [][RequestNext]_requestVars

-----------------------------------------------------------------------------
(* The reference: the grammar of RFC 8259, read off its rules.  Each rule  *)
(* yields, for a text s and a position i, the values that begin there,     *)
(* each with the position behind it.                                       *)

Only(condition, S) == IF condition THEN S ELSE {}

Reads(s, i, word) == i + Len(word) - 1 <= Len(s) /\ SubSeq(s, i, i + Len(word) - 1) = word

\* The first position from i on that holds no whitespace.
Skip(s, i) == CHOOSE j \in i..(Len(s) + 1) :
    /\ j = Len(s) + 1 \/ s[j] \notin Whitespace
    /\ \A k \in i..(j - 1) : s[k] \in Whitespace

AllDigits(l) == l # <<>> /\ ToSet(l) \subseteq Digits
IsInt(l) == AllDigits(l) /\ (Len(l) > 1 => l[1] # 48)
IsFrac(l) == l = <<>> \/ (l[1] = 46 /\ AllDigits(Tail(l)))
IsExp(l) ==
    \/ l = <<>>
    \/ /\ l[1] \in {69, 101}
       /\ AllDigits(Tail(l)) \/ (Len(l) > 1 /\ l[2] \in {43, 45} /\ AllDigits(SubSeq(l, 3, Len(l))))

IsNumber(l) ==
    LET u == IF l[1] = 45 THEN Tail(l) ELSE l IN
    \E i \in 1..Len(u) : \E j \in i..Len(u) :
        IsInt(SubSeq(u, 1, i)) /\ IsFrac(SubSeq(u, i + 1, j)) /\ IsExp(SubSeq(u, j + 1, Len(u)))

\* What a lexeme denotes to the server: the integer itself if 64 bits hold it,
\* the nearest double otherwise.  Zero has one sign.
OneZero(n) == [n EXCEPT !.neg = n.neg /\ n.digits # <<>>]
Denoted(l) ==
    LET fits == /\ ToSet(l) \subseteq Digits \cup {45}
                /\ IF l[1] = 45 THEN FitsInteger(l) ELSE FitsUnsigned(l)
    IN OneZero(IF fits THEN ExactValue(l) ELSE Double(ExactValue(l)))

NumbersAt(s, i) ==
    {<<<<"number", Denoted(SubSeq(s, i, j))>>, j + 1>> :
        j \in {k \in i..Len(s) : IsNumber(SubSeq(s, i, k))}}

\* A character that is not escaped: a scalar value from the blank up but the
\* quote and the backslash, in the one form Utf8 gives it.
Surrogates == HighSurrogate \cup LowSurrogate

ScalarValue(s) ==
    LET Bits(i) == s[i] - 128 IN
    CASE Len(s) = 1 -> s[1]
      [] Len(s) = 2 -> 64 * (s[1] - 192) + Bits(2)
      [] Len(s) = 3 -> 4096 * (s[1] - 224) + 64 * Bits(2) + Bits(3)
      [] Len(s) = 4 -> 262144 * (s[1] - 240) + 4096 * Bits(2) + 64 * Bits(3) + Bits(4)

IsUnescaped(s) ==
    LET v == ScalarValue(s) IN v \in 32..1114111 /\ v \notin {34, 92} \cup Surrogates /\ Utf8(v) = s

\* The code unit of a \u with its four digits.
UnitsAt(s, i) ==
    Only(Reads(s, i, <<92, 117>>) /\ i + 5 <= Len(s) /\ ToSet(SubSeq(s, i + 2, i + 5)) \subseteq DOMAIN HexDigit,
         {Codepoint([k \in 1..4 |-> HexDigit[s[i + 1 + k]]])})

\* The characters of a string that may begin at i, as their bytes.
CharactersAt(s, i) ==
    {<<SubSeq(s, i, j), j + 1>> : j \in {k \in i..(i + 3) : k <= Len(s) /\ IsUnescaped(SubSeq(s, i, k))}}
    \cup {<<<<Escapes[c]>>, i + 2>> : c \in {d \in DOMAIN Escapes : Reads(s, i, <<92, d>>)}}
    \cup {<<Utf8(u), i + 6>> : u \in UnitsAt(s, i) \ Surrogates}
    \cup {<<Utf8(Paired(h, l)), i + 12>> :
              h \in UnitsAt(s, i) \cap HighSurrogate, l \in UnitsAt(s, i + 6) \cap LowSurrogate}

RECURSIVE CharsAt(_, _)
CharsAt(s, i) ==
    Only(Reads(s, i, <<34>>), {<<<<>>, i + 1>>})
    \cup UNION {{<<c[1] \o rest[1], rest[2]>> : rest \in CharsAt(s, c[2])} : c \in CharactersAt(s, i)}

StringsAt(s, i) == IF Reads(s, i, <<34>>) THEN CharsAt(s, i + 1) ELSE {}

\* The object of a list of members: of those with one name the last counts.
ObjectOf(members) ==
    Object([k \in {members[i][1] : i \in DOMAIN members} |->
           members[SelectLastInSeq(members, LAMBDA m : m[1] = k)][2]])

RECURSIVE ValuesAt(_, _), ListAt(_, _, _)

ItemsAt(s, i, close) ==
    IF close = <<93>> THEN ValuesAt(s, i)
    ELSE UNION {LET colon == Skip(s, n[2]) IN
                 Only(Reads(s, colon, <<58>>),
                      {<<<<n[1], v[1]>>, v[2]>> : v \in ValuesAt(s, Skip(s, colon + 1))}) :
               n \in StringsAt(s, i)}

ListAt(s, i, close) ==
    UNION {LET end == Skip(s, x[2]) IN
             Only(Reads(s, end, close), {<<<<x[1]>>, end + 1>>})
             \cup Only(Reads(s, end, <<44>>),
                       {<<<<x[1]>> \o rest[1], rest[2]>> : rest \in ListAt(s, Skip(s, end + 1), close)}) :
           x \in ItemsAt(s, i, close)}

ListOrNone(s, i, close) ==
    LET first == Skip(s, i + 1) IN
    Only(Reads(s, first, close), {<<<<>>, first + 1>>}) \cup ListAt(s, first, close)

ValuesAt(s, i) ==
    IF i > Len(s) THEN {} ELSE
    CASE s[i] = 123 -> {<<ObjectOf(l[1]), l[2]>> : l \in ListOrNone(s, i, <<125>>)}
      [] s[i] = 91 -> {<<<<"array", l[1]>>, l[2]>> : l \in ListOrNone(s, i, <<93>>)}
      [] s[i] = 34 -> {<<<<"string", x[1]>>, x[2]>> : x \in StringsAt(s, i)}
      [] s[i] = 110 -> Only(Reads(s, i, <<110, 117, 108, 108>>), {<<<<"null", <<>>>>, i + 4>>})
      [] s[i] = 116 -> Only(Reads(s, i, <<116, 114, 117, 101>>), {<<<<"true", <<>>>>, i + 4>>})
      [] s[i] = 102 -> Only(Reads(s, i, <<102, 97, 108, 115, 101>>), {<<<<"false", <<>>>>, i + 5>>})
      [] OTHER -> NumbersAt(s, i)

\* The values of a JSON text.  A byte order mark may stand in front of it, and
\* a null byte ends it whatever follows.
JsonTexts(s) ==
    LET start == IF Reads(s, 1, <<239, 187, 191>>) THEN 4 ELSE 1 IN
    {v[1] : v \in {w \in ValuesAt(s, Skip(s, start)) :
        LET end == Skip(s, w[2]) IN end > Len(s) \/ s[end] = 0}}

\* The numbers of Tree have their type in C++, those of the grammar have not.
RECURSIVE Untyped(_)
Untyped(v) ==
    CASE v[1] \in {"unsigned", "integer", "float"} -> <<"number", OneZero(v[2])>>
      [] v[1] \in {"array", "object"} -> <<v[1], [k \in DOMAIN v[2] |-> Untyped(v[2][k])]>>
      [] OTHER -> v

-----------------------------------------------------------------------------
(* Properties                                                              *)

\* What is said and what the parser made of it is one thing: it accepts exactly
\* the texts of the grammar, and the value it has built is theirs.  A text it
\* has refused is in none of Job.ends's continuations a text of the grammar;
\* one it has stopped at for the size of a number has such a number.
ParsesTheGrammar == at = "parse" =>
    /\ parseAt = "accepted" => JsonTexts(text) = {Untyped(Tree(1))}
    /\ parseAt = "parse_error" =>
         \A e \in {<<>>} \cup Only(lex.current # Eof, Job.ends) : JsonTexts(text \o e) = {}
    /\ parseAt = "out_of_range" =>
         \E i \in DOMAIN text : \E n \in NumbersAt(text, i) : ~IsFinite(n[1][2])

\* The message in the package that was sent.
Answered == MessageDecode(PackageDecode(answer).body)

\* The one value of the text that refuses a body.
Refusal == Object([k \in {Code, Msg} |-> IF k = Code THEN <<"number", Natural(400)>>
             ELSE <<"string", <<73, 110, 118, 97, 108, 105, 100, 32, 74, 83, 79, 78>>>>])
RefusalIsRead == JsonTexts(InvalidJson) = {Refusal}

\* What a request deserves that has been answered otherwise.
Deserved ==
    IF Message.route # HelloRoute
    THEN Object([k \in {Code, Msg} |-> IF k = Code THEN <<"number", Natural(404)>>
             ELSE <<"string", SubSeq(NotFound, 20, Len(NotFound)) \o Message.route>>])
    ELSE Object([k \in {Code, Msg} |-> IF k = Code THEN <<"number", Natural(0)>>
             ELSE LET body == CHOOSE v \in JsonTexts(text) : TRUE IN
                  Untyped(WithReqId(body, Job.reqId + 1))])

Readable404 == Message.route = HelloRoute \/ \A i \in DOMAIN Message.route : Escaped(Message.route[i]) = <<Message.route[i]>>

\* A client can read the answer to its request: one whole package with a
\* response under the id of the request, whose text is JSON and says what the
\* request deserves - the body with the count of the requests, or that it is no
\* JSON, or that the route is unknown.  Ids up to 2^31 - 1, and routes that
\* need no escape.
AnswerIsRight ==
    at = "answered" /\ Message.id >= 0 /\ Readable404 =>
        /\ PackageDecode(answer).ok /\ Len(answer) = 4 + PackageLength(answer)
        /\ Answered.ok /\ Answered.type = Response /\ Answered.id = Message.id
        /\ IF Message.route = HelloRoute /\ parseAt = "parse_error"
           THEN Answered.body = InvalidJson /\ RefusalIsRead
           ELSE JsonTexts(Answered.body) = {Deserved}

\* A request ends the process only by what the README names: a number that no
\* double holds, or a body that is neither an object nor null.  In particular
\* dump() can write every string that the lexer lets in.
OnlyTheseTerminate ==
    at = "terminated" =>
        \/ \E i \in DOMAIN text : \E n \in NumbersAt(text, i) : ~IsFinite(n[1][2])
        \/ \E v \in JsonTexts(text) : v[1] \notin {"null", "object"}
=============================================================================
