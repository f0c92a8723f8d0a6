---------------------------- MODULE CppRequestMC -----------------------------
(* CppRequest with bodies chosen to meet every rule of the JSON grammar.   *)
EXTENDS CppRequest

\* A request with the id 129 for the handler's route.
Header == <<0, 129, 1, 28>> \o HelloRoute

\* {"":"
Member == <<123, 34, 34, 58, 34>>

Bodies == <<
    \* Nesting and separators, with keys that are empty.
    [header |-> Header, reqId |-> 0, head |-> <<>>,
     more |-> {91, 93, 123, 125, 44, 58, 34, 49}, max |-> 5,
     ends |-> {<<93>>, <<125>>, <<34, 58, 49, 125>>, <<49, 93>>}],
    \* The first member.
    [header |-> Header, reqId |-> 0, head |-> <<123, 34, 34, 58>>,
     more |-> {91, 93, 123, 125, 44, 58, 34, 49}, max |-> 5,
     ends |-> {<<125>>, <<93, 125>>, <<34, 58, 49, 125>>, <<49, 93, 125>>}],
    \* Members with one key, and values of all depths.
    [header |-> Header, reqId |-> 0, head |-> <<123, 34, 34, 58, 91, 93, 44, 34, 34, 58>>,
     more |-> {91, 93, 123, 125, 44, 58, 34, 49}, max |-> 4,
     ends |-> {<<93>>, <<125>>, <<34, 58, 49, 125>>, <<34, 125>>, <<49, 93>>, <<49, 125>>, <<125, 125>>, <<93, 125>>}],
    \* Escapes in a string.
    [header |-> Header, reqId |-> 0, head |-> Member \o <<92>>,
     more |-> {92, 34, 47, 98, 102, 110, 114, 116, 117, 120, 125}, max |-> 3,
     ends |-> {<<34, 125>>, <<49, 34, 125>>, <<49, 49, 34, 125>>, <<49, 49, 49, 34, 125>>, <<49, 49, 49, 49, 34, 125>>, <<110, 34, 125>>}],
    \* The four digits of an escape.
    [header |-> Header, reqId |-> 0, head |-> Member \o <<92, 117>>,
     more |-> {48, 56, 68, 34, 125}, max |-> 6,
     ends |-> {<<34, 125>>, <<48, 34, 125>>, <<48, 48, 34, 125>>, <<48, 48, 48, 34, 125>>, <<92, 117, 68, 67, 48, 48, 34, 125>>}],
    \* Those of a control character.
    [header |-> Header, reqId |-> 0, head |-> Member \o <<92, 117, 48, 48>>,
     more |-> {48, 49, 57, 97, 102, 70, 34, 125}, max |-> 4,
     ends |-> {<<34, 125>>, <<48, 34, 125>>, <<48, 48, 34, 125>>}],
    \* Behind a high surrogate, and the digits of a low one.
    [header |-> Header, reqId |-> 0, head |-> Member \o <<92, 117, 68, 66, 70, 70>>,
     more |-> {92, 117, 48, 68, 100}, max |-> 6,
     ends |-> {<<34, 125>>, <<70, 34, 125>>, <<70, 70, 34, 125>>, <<68, 70, 70, 34, 125>>, <<117, 68, 67, 48, 48, 34, 125>>, <<67, 48, 48, 34, 125>>, <<92, 117, 68, 67, 48, 48, 34, 125>>, <<48, 48, 34, 125>>}],
    [header |-> Header, reqId |-> 0, head |-> Member \o <<92, 117, 68, 56, 48, 48, 92, 117, 68>>,
     more |-> {48, 66, 67, 70, 34, 125}, max |-> 5,
     ends |-> {<<34, 125>>, <<70, 34, 125>>, <<70, 70, 34, 125>>}],
    \* Bytes a string may not hold, and those dump() escapes.
    [header |-> Header, reqId |-> 0, head |-> Member,
     more |-> {0, 8, 9, 10, 12, 13, 31, 32, 34, 92, 116, 125, 127}, max |-> 3,
     ends |-> {<<34, 125>>, <<116, 34, 125>>, <<92, 34, 125>>}],
    \* Numbers by themselves, which the handler cannot take.
    [header |-> Header, reqId |-> 0, head |-> <<>>,
     more |-> {48, 49, 46, 101, 69, 43, 45}, max |-> 4,
     ends |-> {<<49>>, <<46, 49>>}],
    \* Numbers in an object.
    [header |-> Header, reqId |-> 0, head |-> <<123, 34, 34, 58>>,
     more |-> {48, 53, 46, 101, 45, 125}, max |-> 5,
     ends |-> {<<125>>, <<49, 125>>}],
    \* Exponents at the ends of the range of doubles.
    [header |-> Header, reqId |-> 0, head |-> <<123, 34, 34, 58, 45, 49, 101>>,
     more |-> {48, 50, 51, 43, 45, 125}, max |-> 5,
     ends |-> {<<125>>, <<49, 125>>}],
    \* Integers about 2 to the 64.
    [header |-> Header, reqId |-> 0, head |-> <<123, 34, 34, 58, 49, 56, 52, 52, 54, 55, 52, 52, 48, 55, 51, 55, 48, 57, 53, 53, 49, 54, 49>>,
     more |-> {48, 49, 50, 51, 52, 53, 54, 55, 56, 57, 125}, max |-> 2,
     ends |-> {<<125>>}],
    \* Integers about minus 2 to the 63.
    [header |-> Header, reqId |-> 0, head |-> <<123, 34, 34, 58, 45, 57, 50, 50, 51, 51, 55, 50, 48, 51, 54, 56, 53, 52, 55, 55, 53, 56, 48>>,
     more |-> {48, 49, 50, 51, 52, 53, 54, 55, 56, 57, 125}, max |-> 2,
     ends |-> {<<125>>}],
    \* Literals.
    [header |-> Header, reqId |-> 0, head |-> <<>>,
     more |-> {116, 114, 117, 101, 102, 97, 108, 115, 110, 91, 93}, max |-> 6,
     ends |-> {<<93>>, <<101>>, <<108>>, <<117, 108, 108>>}],
    \* A byte order mark, blanks, a null byte and what stands behind it.
    [header |-> Header, reqId |-> 0, head |-> <<239, 187>>,
     more |-> {187, 191, 110, 32, 10, 0, 49, 34}, max |-> 5,
     ends |-> {}]>>

\* Headers of all kinds in front of the body {}: ids of every length and the
\* negative ones of the wire, messages of other types, flags with a compressed
\* route and with the bit of gzip, routes nobody handles, messages cut short.
Ids == {<<0>>, <<127>>, <<128, 1>>, <<255, 127>>, <<128, 128, 1>>, <<255, 255, 255, 127>>,
        <<128, 128, 128, 128, 1>>, <<255, 255, 255, 255, 7>>, <<255, 255, 255, 255, 15>>,
        <<128, 128, 128, 128, 8>>}
Routes == {<<28>> \o HelloRoute, <<0>>, <<2, 104, 105>>, <<1, 34>>}
Headers ==
    {<<0>> \o i \o r : i \in Ids, r \in Routes} \cup {<<1, 5, 0, 0>>, <<16, 5>> \o <<28>> \o HelloRoute}
    \cup {<<2, 1, 97>>, <<3, 0, 0>>, <<4, 5>>, <<6, 0>>, <<>>, <<0>>, <<0, 128>>, <<0, 5>>, <<0, 5, 2, 97>>, <<1, 5, 0>>}

\* The bytes at the edges of the ranges of UTF-8: those a character may begin
\* with, and how many follow.
Leads == [c \in {127, 128, 191, 192, 193, 194, 223, 224, 225, 236, 237, 238, 239, 240, 243, 244, 245} |->
    IF c < 192 THEN 0 ELSE IF c < 224 THEN 1 ELSE IF c < 240 THEN 2 ELSE 3]

Characters == [c \in DOMAIN Leads |->
    [header |-> Header, reqId |-> 0, head |-> Member \o <<c>>,
     more |-> {34, 125, 128, 143, 144, 159, 160, 191}, max |-> Leads[c] + 2,
     ends |-> {<<34, 125>>, <<128, 34, 125>>, <<128, 128, 34, 125>>}]]

MCJobs ==
    [x \in {"body"} \X DOMAIN Bodies |-> Bodies[x[2]]]
    @@ [x \in {"character"} \X DOMAIN Characters |-> Characters[x[2]]]
    @@ [x \in {"header"} \X Headers \X {0, 99} |->
            [header |-> x[2], reqId |-> x[3], head |-> <<123, 125>>, more |-> {}, max |-> 0, ends |-> {}]]
=============================================================================
