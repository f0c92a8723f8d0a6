----------------------------- MODULE CppNumbers ------------------------------
(***************************************************************************)
(* Numbers between text and text, as the JSON library of the C++ server    *)
(* (json.hpp) converts them.  A number is plus or minus                    *)
(*     0.d1 d2 ... dn * 10^exp    with d1 # 0 and dn # 0,                   *)
(* so two lexemes denote one number iff they have one such form; zero has  *)
(* no digits, and a double keeps its sign.  A lexeme is a sequence of      *)
(* ASCII bytes.                                                            *)
(***************************************************************************)
EXTENDS Integers, Sequences, SequencesExt

Infinity == 1000    \* exp of what strtod() makes of a number no double holds

Zeros(n) == [i \in 1..n |-> 0]

Strip(neg, digits, exp) ==
    LET first == SelectInSeq(digits, LAMBDA d : d # 0)
        last == SelectLastInSeq(digits, LAMBDA d : d # 0)
    IN IF first = 0 THEN [neg |-> neg, digits |-> <<>>, exp |-> 0]
       ELSE [neg |-> neg, digits |-> SubSeq(digits, first, last), exp |-> exp - (first - 1)]

DigitsOf(lexeme) == [i \in DOMAIN lexeme |-> lexeme[i] - 48]

DigitsValue(digits) == FoldLeft(LAMBDA n, d : 10 * n + d, 0, digits)

\* The exact value of a lexeme that scan_number() has accepted.
ExactValue(lexeme) ==
    LET neg == lexeme[1] = 45
        start == IF neg THEN 2 ELSE 1
        e == SelectInSeq(lexeme, LAMBDA c : c \in {69, 101})
        end == IF e = 0 THEN Len(lexeme) ELSE e - 1
        point == SelectInSeq(lexeme, LAMBDA c : c = 46)
        whole == SubSeq(lexeme, start, IF point = 0 THEN end ELSE point - 1)
        frac == IF point = 0 THEN <<>> ELSE SubSeq(lexeme, point + 1, end)
        signed == e # 0 /\ lexeme[e + 1] \in {43, 45}
        power == IF e = 0 THEN 0
                 ELSE DigitsValue(DigitsOf(SubSeq(lexeme, e + IF signed THEN 2 ELSE 1, Len(lexeme))))
    IN Strip(neg, DigitsOf(whole \o frac),
             Len(whole) + IF signed /\ lexeme[e + 1] = 45 THEN -power ELSE power)

-----------------------------------------------------------------------------
(* What the C library's converters do with a lexeme.                       *)

TwoTo64 == <<1, 8, 4, 4, 6, 7, 4, 4, 0, 7, 3, 7, 0, 9, 5, 5, 1, 6, 1, 6>>
TwoTo63 == <<9, 2, 2, 3, 3, 7, 2, 0, 3, 6, 8, 5, 4, 7, 7, 5, 8, 0, 8>>

\* digits, an integer without leading zeros, is below limit.
Below(digits, limit) ==
    \/ Len(digits) < Len(limit)
    \/ /\ Len(digits) = Len(limit)
       /\ \E i \in DOMAIN limit : /\ digits[i] < limit[i]
                                  /\ \A j \in 1..(i - 1) : digits[j] = limit[j]

\* errno # ERANGE after strtoull(), after strtoll().
FitsUnsigned(lexeme) == Below(DigitsOf(lexeme), TwoTo64)
FitsInteger(lexeme) ==
    LET digits == DigitsOf(Tail(lexeme)) IN Below(digits, TwoTo63) \/ digits = TwoTo63

Largest == <<1, 7, 9, 7, 6, 9, 3, 1, 3, 4, 8, 6, 2, 3, 1, 5, 8>>

\* The shortest number that reads as the double nearest to n.  Fifteen digits
\* are kept as they are; the only longer lexemes considered (a bound) are the
\* integers about 2^64 and 2^63, which the last two digits cannot move.
Double(n) ==
    LET padded == n.digits \o Zeros(Len(Largest) - Len(n.digits))
        nearest == [n EXCEPT !.digits = IF n.exp = 20
                                        THEN <<1, 8, 4, 4, 6, 7, 4, 4, 0, 7, 3, 7, 0, 9, 5, 5, 2>>
                                        ELSE <<9, 2, 2, 3, 3, 7, 2, 0, 3, 6, 8, 5, 4, 7, 7, 6>>]
    IN CASE n.exp > 309 \/ (n.exp = 309 /\ ~Below(SubSeq(padded, 1, Len(Largest)), Largest)) ->
              [n EXCEPT !.digits = <<1>>, !.exp = Infinity]
         [] n.exp < -323 -> [n EXCEPT !.digits = <<>>, !.exp = 0]
         [] Len(n.digits) <= 15 -> n
         [] OTHER -> nearest

IsFinite(n) == n.exp # Infinity

-----------------------------------------------------------------------------
(* The serializer.                                                         *)

Ascii(digits) == [i \in DOMAIN digits |-> digits[i] + 48]

\* The digits of a natural number that TLC can compute with.
NatDigits(n) ==
    LET size == CHOOSE k \in 1..10 : (k = 10 \/ n < 10^k) /\ \A j \in 1..(k - 1) : n >= 10^j
    IN [i \in 1..size |-> (n \div 10^(size - i)) % 10]

Natural(n) == Strip(FALSE, NatDigits(n), Len(NatDigits(n)))

DumpInteger(n) ==
    IF n.digits = <<>> THEN <<48>>
    ELSE (IF n.neg THEN <<45>> ELSE <<>>) \o Ascii(n.digits \o Zeros(n.exp - Len(n.digits)))

AppendExponent(e) ==
    LET digits == NatDigits(IF e < 0 THEN -e ELSE e)
    IN <<IF e < 0 THEN 45 ELSE 43>>
           \o Ascii(IF Len(digits) = 1 THEN <<0>> \o digits ELSE digits)

MinExp == -4
MaxExp == 15

FormatBuffer(digits, n) ==
    LET k == Len(digits)
        text == Ascii(digits)
    IN CASE k <= n /\ n <= MaxExp -> text \o Ascii(Zeros(n - k)) \o <<46, 48>>
         [] 0 < n /\ n < k /\ n <= MaxExp -> SubSeq(text, 1, n) \o <<46>> \o SubSeq(text, n + 1, k)
         [] MinExp < n /\ n <= 0 -> <<48, 46>> \o Ascii(Zeros(-n)) \o text
         [] OTHER -> <<text[1]>> \o (IF k = 1 THEN <<>> ELSE <<46>> \o Tail(text))
                         \o <<101>> \o AppendExponent(n - 1)

\* The digits are those of the Grisu2 algorithm, which finds the shortest ones.
DumpFloat(n) ==
    (IF n.neg THEN <<45>> ELSE <<>>)
        \o IF n.digits = <<>> THEN <<48, 46, 48>> ELSE FormatBuffer(n.digits, n.exp)
=============================================================================
