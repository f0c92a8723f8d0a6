------------------------------- MODULE CppUtf8 -------------------------------
(***************************************************************************)
(* The decoder of UTF-8 in json::dump() (json.hpp, serializer::decode()):  *)
(* a table driven automaton, by which dump_escaped() checks each string    *)
(* and each key it writes.                                                 *)
(***************************************************************************)
EXTENDS Integers, Sequences

\* Mutant of Utf8Class: the planes F4 begins are left out.
Utf8ClassShort(c) ==
    CASE c < 128 -> 0 [] c \in 128..143 -> 1 [] c \in 144..159 -> 9 [] c \in 160..191 -> 7
      [] c \in 194..223 -> 2 [] c = 224 -> 10 [] c = 237 -> 4 [] c \in 225..239 \ {237} -> 3
      [] c = 240 -> 11 [] c \in 241..243 -> 6 [] OTHER -> 8

\* The class of a byte, which is a column of Utf8States.
Utf8Class(c) ==
    CASE c < 128 -> 0 [] c \in 128..143 -> 1 [] c \in 144..159 -> 9 [] c \in 160..191 -> 7
      [] c \in 194..223 -> 2 [] c = 224 -> 10 [] c = 237 -> 4 [] c \in 225..239 \ {237} -> 3
      [] c = 240 -> 11 [] c \in 241..243 -> 6 [] c = 244 -> 5 [] OTHER -> 8

\* Where the decoder goes, by state and class: 0 is accept, 1 is reject.
Utf8States == <<
    <<0, 1, 2, 3, 5, 8, 7, 1, 1, 1, 4, 6>>,
    <<1, 1, 1, 1, 1, 1, 1, 1, 1, 1, 1, 1>>,
    <<1, 0, 1, 1, 1, 1, 1, 0, 1, 0, 1, 1>>,
    <<1, 2, 1, 1, 1, 1, 1, 2, 1, 2, 1, 1>>,
    <<1, 1, 1, 1, 1, 1, 1, 2, 1, 1, 1, 1>>,
    <<1, 2, 1, 1, 1, 1, 1, 1, 1, 2, 1, 1>>,
    <<1, 1, 1, 1, 1, 1, 1, 3, 1, 3, 1, 1>>,
    <<1, 3, 1, 1, 1, 1, 1, 3, 1, 3, 1, 1>>,
    <<1, 3, 1, 1, 1, 1, 1, 1, 1, 1, 1, 1>>>>

Decode(state, c) == Utf8States[state + 1][Utf8Class(c) + 1]

\* The decoder's state after each byte of s, which at 0 is the one it begins in.
DecodedTo(s) == LET state[i \in 0..Len(s)] == IF i = 0 THEN 0 ELSE Decode(state[i - 1], s[i]) IN state

\* dump_escaped() throws for a byte that is rejected, and for a string that
\* ends inside a character.
IsUtf8(s) == DecodedTo(s)[Len(s)] = 0
=============================================================================
