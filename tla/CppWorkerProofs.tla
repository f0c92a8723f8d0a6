--------------------------- MODULE CppWorkerProofs ---------------------------
(***************************************************************************)
(* Proofs about what a worker of the C++ server is made of: its codecs,    *)
(* the JSON parser that reads a request, and the timers of its scheduler.  *)
(*                                                                         *)
(* What one side of the protocol writes, the other reads back: packages    *)
(* of every body that three bytes can count, messages of every id, route   *)
(* and body.  The pointers of the JSON builder stay good, whatever the     *)
(* text, and the strings it builds can be written again.  And, for any     *)
(* number of sessions and timers and any times, a working session has a    *)
(* coroutine that will look at it, and a silent client is cut off within   *)
(* one look.                                                               *)
(***************************************************************************)
EXTENDS CppProtocol, CppJson, CppTimers, SequenceTheorems, WellFoundedInduction, TLAPS

ByteStrings == Seq(Byte)

\* The longest body whose length three bytes hold.
MaxBody == 16777215

-----------------------------------------------------------------------------
(* Arithmetic of bytes.                                                    *)

LEMMA MaxBodyBound == MaxBody \in Nat /\ \A p \in Nat : 65536 * p <= MaxBody => p < 256
BY SMT DEF MaxBody

\* The three bytes of a length, and the length of three bytes.
High(n) == (n \div 65536) % 256
Middle(n) == (n \div 256) % 256
Low(n) == n % 256
Three(a, b, c) == 65536 * a + 256 * b + c

LEMMA LengthBytes ==
    ASSUME NEW n \in Nat
    PROVE  High(n) \in Byte /\ Middle(n) \in Byte /\ Low(n) \in Byte
BY SMT DEF High, Middle, Low, Byte

LEMMA Division256 ==
    ASSUME NEW n \in Nat
    PROVE  /\ n \div 256 \in Nat /\ n % 256 \in Byte
           /\ n = 256 * (n \div 256) + (n % 256)
           /\ n < 256 => n % 256 = n
BY SMT DEF Byte

LEMMA HighByte ==
    ASSUME NEW n \in Nat
    PROVE  High(n) = ((n \div 256) \div 256) % 256
<1>1. n \div 65536 = (n \div 256) \div 256
    BY SMT
<1> QED
    BY <1>1, SMT DEF High

LEMMA LengthField ==
    ASSUME NEW n \in Nat, n <= MaxBody
    PROVE  Three(High(n), Middle(n), Low(n)) = n
<1>1. PICK q \in Nat : q = n \div 256
    BY Division256
<1>2. PICK r1 \in Nat : r1 = n % 256
    BY Division256 DEF Byte
<1>3. PICK p \in Nat : p = q \div 256
    BY Division256
<1>4. PICK r2 \in Nat : r2 = q % 256
    BY Division256 DEF Byte
<1>5. n = 256 * q + r1
    BY <1>1, <1>2, Division256
<1>6. q = 256 * p + r2
    BY <1>3, <1>4, Division256
<1>7. p < 256 /\ Three(p, r2, r1) = n
  <2>1. n = 65536 * p + 256 * r2 + r1
      BY <1>5, <1>6, SMT
  <2>2. 65536 * p <= MaxBody
      BY <2>1, MaxBodyBound, SMT
  <2>3. p < 256
      BY <2>2, MaxBodyBound, SMT
  <2> QED
      BY <2>1, <2>3, SMT DEF Three
<1>8. High(n) = p
    BY <1>1, <1>3, <1>7, HighByte, Division256
<1> QED
    BY <1>1, <1>2, <1>4, <1>7, <1>8 DEF Middle, Low

LEMMA PackageBytes ==
    ASSUME NEW type, NEW body
    PROVE  PackageEncode(type, body)
              = <<type, High(Len(body)), Middle(Len(body)), Low(Len(body))>> \o body
BY SMT DEF PackageEncode, High, Middle, Low

LEMMA PackageLengthBytes ==
    ASSUME NEW data
    PROVE  PackageLength(data) = Three(data[2], data[3], data[4])
BY SMT DEF PackageLength, Three

LEMMA FourBytes ==
    ASSUME NEW a \in Byte, NEW b \in Byte, NEW c \in Byte, NEW d \in Byte
    PROVE  LET h == <<a, b, c, d>>
           IN h \in Seq(Byte) /\ Len(h) = 4 /\ h[1] = a /\ h[2] = b /\ h[3] = c /\ h[4] = d
OBVIOUS

-----------------------------------------------------------------------------
(* Packages.                                                               *)

LEMMA Joined ==
    ASSUME NEW s \in ByteStrings, NEW t \in ByteStrings
    PROVE  /\ s \o t \in ByteStrings /\ Len(s \o t) = Len(s) + Len(t)
           /\ \A i \in 1..Len(s) : (s \o t)[i] = s[i]
           /\ \A i \in 1..Len(t) : (s \o t)[Len(s) + i] = t[i]
<1>1. Len(s) \in Nat /\ Len(t) \in Nat
    BY LenProperties DEF ByteStrings
<1>2. /\ s \o t \in Seq(Byte) /\ Len(s \o t) = Len(s) + Len(t)
      /\ \A i \in 1 .. Len(s) + Len(t) : (s \o t)[i] =
             IF i <= Len(s) THEN s[i] ELSE t[i - Len(s)]
    BY ConcatProperties DEF ByteStrings
<1>3. ASSUME NEW i \in 1..Len(s) PROVE (s \o t)[i] = s[i]
    BY <1>1, <1>2
<1>4. ASSUME NEW i \in 1..Len(t) PROVE (s \o t)[Len(s) + i] = t[i]
  <2>1. Len(s) + i \in 1..(Len(s) + Len(t)) /\ ~(Len(s) + i <= Len(s)) /\ (Len(s) + i) - Len(s) = i
      BY <1>1
  <2> QED
      BY <1>2, <2>1
<1> QED
    BY <1>2, <1>3, <1>4 DEF ByteStrings

LEMMA EncodedPackage ==
    ASSUME NEW type \in Byte, NEW body \in ByteStrings, Len(body) <= MaxBody
    PROVE  LET data == PackageEncode(type, body)
           IN /\ data \in ByteStrings /\ Len(data) = 4 + Len(body)
              /\ data[1] = type /\ PackageLength(data) = Len(body)
              /\ \A i \in 1..Len(body) : data[4 + i] = body[i]
<1>1. PICK data : data = PackageEncode(type, body)
    OBVIOUS
<1>2. PICK n \in Nat : n = Len(body)
    BY LenProperties DEF ByteStrings
<1>3. High(n) \in Byte /\ Middle(n) \in Byte /\ Low(n) \in Byte
    BY LengthBytes
<1>4. PICK h : h = <<type, High(n), Middle(n), Low(n)>>
    OBVIOUS
<1>5. /\ h \in ByteStrings /\ Len(h) = 4 /\ h[1] = type
      /\ h[2] = High(n) /\ h[3] = Middle(n) /\ h[4] = Low(n)
    BY <1>3, <1>4, FourBytes DEF ByteStrings
<1>6. data = h \o body
    BY <1>1, <1>2, <1>4, PackageBytes
<1>7. /\ data \in ByteStrings /\ Len(data) = Len(h) + Len(body)
      /\ \A i \in 1..Len(h) : data[i] = h[i]
      /\ \A i \in 1..Len(body) : data[Len(h) + i] = body[i]
    BY <1>5, <1>6, Joined
<1>8. data[1] = h[1] /\ data[2] = h[2] /\ data[3] = h[3] /\ data[4] = h[4]
    BY <1>5, <1>7
<1>9. n <= MaxBody
    BY <1>2
<1>10. PackageLength(data) = n
    BY <1>5, <1>8, <1>9, LengthField, PackageLengthBytes
<1> QED
    BY <1>1, <1>2, <1>5, <1>7, <1>8, <1>10

LEMMA EncodedPackageInStream ==
    ASSUME NEW type \in Byte, NEW body \in ByteStrings, NEW rest \in ByteStrings, Len(body) <= MaxBody
    PROVE  LET data == PackageEncode(type, body) \o rest
           IN /\ data \in ByteStrings /\ Len(data) = 4 + Len(body) + Len(rest)
              /\ data[1] = type /\ PackageLength(data) = Len(body)
              /\ \A i \in 1..Len(body) : data[4 + i] = body[i]
<1>1. PICK p : p = PackageEncode(type, body)
    OBVIOUS
<1>2. PICK n \in Nat : n = Len(body)
    BY LenProperties DEF ByteStrings
<1>3. /\ p \in ByteStrings /\ Len(p) = 4 + n /\ p[1] = type /\ PackageLength(p) = n
      /\ \A i \in 1..n : p[4 + i] = body[i]
    BY <1>1, <1>2, EncodedPackage
<1>4. PICK data : data = p \o rest
    OBVIOUS
<1>5. /\ data \in ByteStrings /\ Len(data) = Len(p) + Len(rest)
      /\ \A i \in 1..Len(p) : data[i] = p[i]
    BY <1>3, <1>4, Joined
<1>6. data[1] = p[1] /\ data[2] = p[2] /\ data[3] = p[3] /\ data[4] = p[4]
    BY <1>3, <1>5
<1>7. PackageLength(data) = n
    BY <1>3, <1>6, PackageLengthBytes
<1>8. ASSUME NEW i \in 1..n PROVE data[4 + i] = body[i]
    BY <1>3, <1>5
<1> QED
    BY <1>1, <1>2, <1>3, <1>4, <1>5, <1>6, <1>7, <1>8

(* A package is read back as it was written, whatever follows it in the    *)
(* stream, when its body is shorter than 2 to the 24.                      *)
THEOREM PackageRoundTrip ==
    ASSUME NEW type \in Byte, NEW body \in ByteStrings, NEW rest \in ByteStrings, Len(body) <= MaxBody
    PROVE  PackageDecode(PackageEncode(type, body) \o rest) = [ok |-> TRUE, type |-> type, body |-> body]
<1>1. PICK data : data = PackageEncode(type, body) \o rest
    OBVIOUS
<1>2. /\ data \in ByteStrings /\ data[1] = type /\ PackageLength(data) = Len(body)
      /\ Len(data) = 4 + Len(body) + Len(rest)
      /\ \A i \in 1..Len(body) : data[4 + i] = body[i]
    BY <1>1, EncodedPackageInStream
<1>3. PICK n \in Nat : n = Len(body)
    BY LenProperties DEF ByteStrings
<1>4. Len(rest) \in Nat
    BY LenProperties DEF ByteStrings
<1>5. \A i \in 5..(4 + n) : data[i] \in Byte
  <2> SUFFICES ASSUME NEW i \in 5..(4 + n) PROVE data[i] \in Byte
      OBVIOUS
  <2>1. i \in 1..Len(data)
      BY <1>2, <1>3, <1>4
  <2> QED
      BY <1>2, <2>1, ElementOfSeq DEF ByteStrings
<1>6. PICK s : s = SubSeq(data, 5, 4 + n)
    OBVIOUS
<1>7. /\ s \in Seq(Byte) /\ Len(s) = IF 5 <= 4 + n THEN (4 + n) - 5 + 1 ELSE 0
      /\ \A i \in 1..((4 + n) - 5 + 1) : s[i] = data[5 + i - 1]
    BY <1>3, <1>5, <1>6, SubSeqProperties
<1>8. Len(s) = n /\ \A i \in 1..n : s[i] = body[i]
    BY <1>2, <1>3, <1>7
<1>9. s = body
    BY <1>3, <1>7, <1>8, SeqEqual DEF ByteStrings
<1>10. ~(Len(data) < 4 \/ Len(data) < 4 + PackageLength(data))
    BY <1>2, <1>3, <1>4
<1> QED
    BY <1>1, <1>2, <1>3, <1>6, <1>9, <1>10 DEF PackageDecode

(* Of a package that has not all come in nothing is read: decode() waits.  *)
THEOREM PartOfPackageWaits ==
    ASSUME NEW type \in Byte, NEW body \in ByteStrings, Len(body) <= MaxBody,
           NEW k \in 0..(3 + Len(body))
    PROVE  PackageDecode(SubSeq(PackageEncode(type, body), 1, k)) = NullOpt
<1>1. PICK data : data = PackageEncode(type, body)
    OBVIOUS
<1>2. data \in ByteStrings /\ PackageLength(data) = Len(body) /\ Len(data) = 4 + Len(body)
    BY <1>1, EncodedPackage
<1>3. PICK n \in Nat : n = Len(body)
    BY LenProperties DEF ByteStrings
<1>4. Len(data) = 4 + n
    BY <1>2, <1>3
<1>6. PICK part : part = SubSeq(data, 1, k)
    OBVIOUS
<1>7. /\ Len(part) = k /\ k <= 3 + n
      /\ \A i \in 1..k : part[i] = data[i]
  <2>1. \A i \in 1..k : data[i] \in Byte
    <3> SUFFICES ASSUME NEW i \in 1..k PROVE data[i] \in Byte
        OBVIOUS
    <3>1. i \in 1..Len(data)
        BY <1>3, <1>4
    <3> QED
        BY <1>2, <3>1, ElementOfSeq DEF ByteStrings
  <2>2. /\ Len(part) = IF 1 <= k THEN k - 1 + 1 ELSE 0
        /\ \A i \in 1..(k - 1 + 1) : part[i] = data[1 + i - 1]
      BY <1>3, <1>6, <2>1, SubSeqProperties
  <2> QED
      BY <1>3, <2>2
<1>8. CASE k < 4
    BY <1>1, <1>6, <1>7, <1>8 DEF PackageDecode
<1>9. CASE k >= 4
  <2>1. PackageLength(part) = PackageLength(data)
      BY <1>3, <1>7, <1>9, PackageLengthBytes
  <2> QED
      BY <1>2, <1>3, <1>1, <1>6, <1>7, <2>1 DEF PackageDecode
<1> QED
    BY <1>3, <1>8, <1>9

-----------------------------------------------------------------------------
(* Messages: the id of a request or a response, in groups of seven bits.   *)

\* The largest int.
MaxInt == 2147483647

\* A number below 128 for each group, the lowest first.
Groups == [1..5 -> 0..127]
Total(d) == d[1] + 128 * d[2] + 16384 * d[3] + 2097152 * d[4] + 268435456 * d[5]

\* The groups of an id that is not negative, n of them in use.
Grouped(id, n, d) ==
    /\ d \in Groups /\ d[5] < 8 /\ Total(d) = id
    /\ \A i \in (n + 1)..5 : d[i] = 0

\* The bytes of an id, with their marks, at the offset o of data.
Marked(data, o, n, d) ==
    /\ o + n <= Len(data)
    /\ \A i \in 1..(n - 1) : data[o + i] = d[i] + 128
    /\ data[o + n] = d[n]

LEMMA MaxIntBound == MaxInt \in Nat /\ \A q \in Nat : 268435456 * q <= MaxInt => q < 8
BY SMT DEF MaxInt

LEMMA Division128 ==
    ASSUME NEW n \in Nat
    PROVE  \E q \in Nat, r \in 0..127 : q = n \div 128 /\ n = 128 * q + r
<1>1. n \div 128 \in Nat /\ n % 128 \in 0..127 /\ n = 128 * (n \div 128) + (n % 128)
    BY SMT
<1> QED
    BY <1>1

LEMMA Divisions ==
    ASSUME NEW n \in Nat
    PROVE  /\ n \div 1 = n /\ n \div 128 \in Nat
           /\ n \div 16384 = (n \div 128) \div 128
           /\ n \div 2097152 = (n \div 16384) \div 128
           /\ n \div 268435456 = (n \div 2097152) \div 128
<1>1. n \div 1 = n /\ n \div 128 \in Nat
    BY SMT
<1>2. n \div 16384 = (n \div 128) \div 128
    BY SMT
<1>3. n \div 2097152 = (n \div 16384) \div 128
    BY SMT
<1>4. n \div 268435456 = (n \div 2097152) \div 128
    BY SMT
<1> QED
    BY <1>1, <1>2, <1>3, <1>4, SMT

\* What id / 128 gives, one time after the other.
LEMMA Quotients ==
    ASSUME NEW id \in Nat, NEW q1 \in Nat, NEW q2 \in Nat, NEW q3 \in Nat, NEW q4 \in Nat,
           q1 = id \div 128, q2 = q1 \div 128, q3 = q2 \div 128, q4 = q3 \div 128
    PROVE  /\ Shifted(id, 0) = id /\ Shifted(id, 1) = q1 /\ Shifted(id, 2) = q2
           /\ Shifted(id, 3) = q3 /\ Shifted(id, 4) = q4
<1>1. /\ id \div 1 = id /\ id \div 16384 = q2 /\ id \div 2097152 = q3 /\ id \div 268435456 = q4
    BY Divisions, SMT
<1>2. /\ Power[0 + 1] = 1 /\ Power[1 + 1] = 128 /\ Power[2 + 1] = 16384 /\ Power[3 + 1] = 2097152
      /\ Power[4 + 1] = 268435456
    BY SMT DEF Power
<1>3. id >= 0
    BY SMT
<1> QED
    BY <1>1, <1>2, <1>3, SMT DEF Shifted

LEMMA BytesOfId ==
    ASSUME NEW id,
           \/ \E n \in 1..4 : Shifted(id, n) = 0 /\ \A m \in 1..(n - 1) : Shifted(id, m) # 0
           \/ \A m \in 1..4 : Shifted(id, m) # 0
    PROVE  /\ IdBytes(id) \in 1..5
           /\ IdBytes(id) = 5 \/ Shifted(id, IdBytes(id)) = 0
           /\ \A m \in 1..(IdBytes(id) - 1) : Shifted(id, m) # 0
<1> DEFINE Q(n) == /\ n = 5 \/ Shifted(id, n) = 0
                   /\ \A m \in 1..(n - 1) : Shifted(id, m) # 0
<1>1. \E n \in 1..5 : Q(n)
    BY SMT
<1>2. IdBytes(id) = CHOOSE n \in 1..5 : Q(n)
    BY DEF IdBytes
<1>3. IdBytes(id) \in 1..5 /\ Q(IdBytes(id))
    <2> HIDE DEF Q
    <2> QED
        BY <1>1, <1>2, Zenon
<1> QED
    BY <1>3

\* The groups that EncodeId writes.
LEMMA IdGroups ==
    ASSUME NEW id \in Nat, id <= MaxInt
    PROVE  \E n \in 1..5, d \in Groups :
              /\ Grouped(id, n, d)
              /\ EncodeId(id) = [i \in 1..n |-> d[i] + IF i < n THEN 128 ELSE 0]
<1>1. PICK q1 \in Nat, r1 \in 0..127 : q1 = id \div 128 /\ id = 128 * q1 + r1
    BY Division128, Zenon
<1>2. PICK q2 \in Nat, r2 \in 0..127 : q2 = q1 \div 128 /\ q1 = 128 * q2 + r2
    BY Division128, Zenon
<1>3. PICK q3 \in Nat, r3 \in 0..127 : q3 = q2 \div 128 /\ q2 = 128 * q3 + r3
    BY Division128, Zenon
<1>4. PICK q4 \in Nat, r4 \in 0..127 : q4 = q3 \div 128 /\ q3 = 128 * q4 + r4
    BY Division128, Zenon
<1>5. /\ Shifted(id, 0) = id /\ Shifted(id, 1) = q1 /\ Shifted(id, 2) = q2
      /\ Shifted(id, 3) = q3 /\ Shifted(id, 4) = q4
    BY <1>1, <1>2, <1>3, <1>4, Quotients, SMT
<1>6. q4 < 8 /\ id = r1 + 128 * r2 + 16384 * r3 + 2097152 * r4 + 268435456 * q4
    <2>1. id = r1 + 128 * r2 + 16384 * r3 + 2097152 * r4 + 268435456 * q4
        BY <1>1, <1>2, <1>3, <1>4, SMT
    <2>2. 268435456 * q4 <= MaxInt
        BY <2>1, MaxIntBound, SMT
    <2> QED
        BY <2>1, <2>2, MaxIntBound, SMT
<1> DEFINE d == [i \in 1..5 |-> CASE i = 1 -> r1 [] i = 2 -> r2 [] i = 3 -> r3 [] i = 4 -> r4 [] i = 5 -> q4]
<1>7. /\ d \in Groups /\ d[1] = r1 /\ d[2] = r2 /\ d[3] = r3 /\ d[4] = r4 /\ d[5] = q4
    BY <1>6, SMT DEF Groups
<1> HIDE DEF d
<1>8. PICK n : n = IdBytes(id)
    OBVIOUS
<1>9. n \in 1..5 /\ (n = 5 \/ Shifted(id, n) = 0)
    <2>1. \/ \E k \in 1..4 : Shifted(id, k) = 0 /\ \A m \in 1..(k - 1) : Shifted(id, m) # 0
          \/ \A m \in 1..4 : Shifted(id, m) # 0
        <3>1. CASE q1 = 0
            BY <1>5, <3>1, SMT
        <3>2. CASE q1 # 0 /\ q2 = 0
            BY <1>5, <3>2, SMT
        <3>3. CASE q1 # 0 /\ q2 # 0 /\ q3 = 0
            BY <1>5, <3>3, SMT
        <3>4. CASE q1 # 0 /\ q2 # 0 /\ q3 # 0
            BY <1>5, <3>4, SMT
        <3> QED
            BY <3>1, <3>2, <3>3, <3>4
    <2> QED
        BY <1>8, <2>1, BytesOfId
<1>10. \A i \in (n + 1)..5 : d[i] = 0
    <2>1. /\ q1 = 0 => q2 = 0 /\ r2 = 0
          /\ q2 = 0 => q3 = 0 /\ r3 = 0
          /\ q3 = 0 => q4 = 0 /\ r4 = 0
        BY <1>2, <1>3, <1>4, SMT
    <2>2. /\ n = 1 => q1 = 0
          /\ n = 2 => q2 = 0
          /\ n = 3 => q3 = 0
          /\ n = 4 => q4 = 0
        BY <1>5, <1>9
    <2> QED
        BY <1>7, <1>9, <2>1, <2>2, SMT
<1>11. Grouped(id, n, d)
    BY <1>6, <1>7, <1>10, SMT DEF Grouped, Total
<1>12. \A i \in 1..5 : IdRest(id, i - 1) = d[i]
    <2>1. /\ IdRest(id, 0) = r1 /\ IdRest(id, 1) = r2 /\ IdRest(id, 2) = r3
          /\ IdRest(id, 3) = r4 /\ IdRest(id, 4) = q4
        BY <1>1, <1>2, <1>3, <1>4, <1>5, SMT DEF IdRest
    <2>2. ASSUME NEW i \in 1..5 PROVE \/ i - 1 = 0 /\ i = 1
                                      \/ i - 1 = 1 /\ i = 2
                                      \/ i - 1 = 2 /\ i = 3
                                      \/ i - 1 = 3 /\ i = 4
                                      \/ i - 1 = 4 /\ i = 5
        OBVIOUS
    <2> QED
        BY <1>7, <2>1, <2>2, Zenon
<1>13. EncodeId(id) = [i \in 1..n |-> d[i] + IF i < n THEN 128 ELSE 0]
    <2>1. ASSUME NEW i \in 1..n PROVE (IdRest(id, i - 1) + IF i < n THEN 128 ELSE 0) % 256
                                       = d[i] + IF i < n THEN 128 ELSE 0
        <3>1. i \in 1..5 /\ IdRest(id, i - 1) = d[i] /\ d[i] \in 0..127
            BY <1>7, <1>9, <1>12, SMT DEF Groups
        <3>2. ASSUME NEW x \in 0..255 PROVE x % 256 = x
            BY <3>2, SMT
        <3>3. d[i] + (IF i < n THEN 128 ELSE 0) \in 0..255
            BY <3>1, SMT
        <3> QED
            BY <3>1, <3>2, <3>3
    <2> QED
        BY <1>8, <2>1, ZenonT(40) DEF EncodeId
<1> QED
    BY <1>7, <1>9, <1>11, <1>13, Zenon

\* The first byte without a mark ends the field.
LEMMA EndOfId ==
    ASSUME NEW data \in ByteStrings, NEW o \in Nat, NEW n \in 1..5, NEW d \in Groups, Marked(data, o, n, d)
    PROVE  HasIdEnd(data, o) /\ IdEnd(data, o) = o + n
<1> DEFINE P(e) == data[e] < 128 /\ \A i \in (o + 1)..(e - 1) : data[i] >= 128
<1>1. PICK l \in Nat : l = Len(data)
    BY LenProperties DEF ByteStrings
<1>2. \A i \in 1..l : data[i] \in 0..255
    BY <1>1, ElementOfSeq DEF ByteStrings, Byte
<1>3. \A i \in 1..n : d[i] \in 0..127
    BY DEF Groups
<1>4. o + n <= l /\ data[o + n] = d[n] /\ \A i \in 1..(n - 1) : data[o + i] = d[i] + 128
    BY <1>1 DEF Marked
<1>5. o + n \in (o + 1)..l /\ n \in 1..n
    BY <1>4
<1>6. data[o + n] < 128
    BY <1>3, <1>4, <1>5
<1>7. ASSUME NEW i \in (o + 1)..(o + n - 1) PROVE data[i] >= 128
    <2>1. i - o \in 1..(n - 1) /\ i - o \in 1..n /\ o + (i - o) = i
        OBVIOUS
    <2>2. d[i - o] \in 0..127 /\ data[i] = d[i - o] + 128
        BY <1>3, <1>4, <2>1
    <2> QED
        BY <2>2
<1>8. P(o + n)
    BY <1>6, <1>7
<1>9. ASSUME NEW e \in (o + 1)..l, P(e) PROVE e = o + n
    <2>1. CASE e < o + n
        <3>1. e \in (o + 1)..(o + n - 1) /\ e \in 1..l
            BY <2>1
        <3>2. data[e] >= 128 /\ data[e] < 128 /\ data[e] \in 0..255
            BY <1>2, <1>7, <1>9, <3>1
        <3> QED
            BY <3>2
    <2>2. CASE e > o + n
        <3>1. o + n \in (o + 1)..(e - 1) /\ o + n \in 1..l
            BY <1>5, <2>2
        <3>2. data[o + n] >= 128 /\ data[o + n] \in 0..255
            BY <1>2, <1>9, <3>1
        <3> QED
            BY <1>6, <3>2
    <2> QED
        BY <2>1, <2>2
<1>10. IdEnd(data, o) = CHOOSE e \in (o + 1)..l : P(e)
    BY <1>1 DEF IdEnd
<1> HIDE DEF P
<1>11. IdEnd(data, o) = o + n
    BY <1>5, <1>8, <1>9, <1>10, Zenon
<1> QED
    BY <1>1, <1>5, <1>6, <1>11 DEF HasIdEnd

LEMMA GroupsAreRead ==
    ASSUME NEW data \in ByteStrings, NEW o \in Nat, NEW n \in 1..5, NEW d, NEW id, Grouped(id, n, d), Marked(data, o, n, d)
    PROVE  HasIdEnd(data, o) /\ IdEnd(data, o) = o + n /\ DecodeId(data, o) = id
<1>1. d \in Groups /\ HasIdEnd(data, o) /\ IdEnd(data, o) = o + n
    BY EndOfId DEF Grouped
<1>2. /\ Power[1] = 1 /\ Power[2] = 128 /\ Power[3] = 16384 /\ Power[4] = 2097152 /\ Power[5] = 268435456
    BY SMT DEF Power
<1>3. ASSUME NEW i \in 1..n PROVE data[o + i] % 128 = d[i]
    <2>1. ASSUME NEW x \in 0..127 PROVE x % 128 = x /\ (x + 128) % 128 = x
        BY <2>1, SMT
    <2>2. d[i] \in 0..127
        BY <1>1 DEF Groups
    <2>3. CASE i = n
        BY <2>1, <2>2, <2>3 DEF Marked
    <2>4. CASE i # n
        <3>1. i \in 1..(n - 1)
            BY <2>4
        <3>2. data[o + i] = d[i] + 128
            BY <3>1 DEF Marked
        <3> QED
            BY <2>1, <2>2, <3>2
    <2> QED
        BY <2>3, <2>4
<1> DEFINE B(i) == IF i <= n THEN Group(data, o, i) ELSE 0
<1>4. ASSUME NEW i \in 1..5 PROVE B(i) = d[i] * Power[i]
    <2>1. d[i] \in 0..127 /\ Power[i] \in Nat
        BY <1>1, <1>2, SMT DEF Groups
    <2>2. CASE i > n
        <3>1. d[i] = 0
            BY <2>2 DEF Grouped
        <3> QED
            BY <2>1, <2>2, <3>1
    <2>3. CASE i <= n /\ i < 5
        BY <1>3, <2>1, <2>3 DEF Group
    <2>4. CASE i <= n /\ i = 5
        <3>1. data[o + 5] % 128 = d[5]
            BY <1>3, <2>4
        <3>2. d[5] \in 0..7
            BY <2>1, <2>4 DEF Grouped
        <3>3. ASSUME NEW x \in 0..7 PROVE (x % 8) - (IF x % 16 >= 8 THEN 8 ELSE 0) = x
            BY <3>3, SMT
        <3> QED
            BY <2>4, <3>1, <3>2, <3>3 DEF Group
    <2> QED
        BY <2>2, <2>3, <2>4
<1>5. DecodeId(data, o) = B(5) + (B(1) + B(2) + B(3) + B(4))
    <2>1. IdEnd(data, o) - o = n
        BY <1>1
    <2> QED
        BY <2>1, Zenon DEF DecodeId
<1> HIDE DEF B
<1>6. DecodeId(data, o) = Total(d)
    <2>1. /\ B(1) = d[1] * 1 /\ B(2) = d[2] * 128 /\ B(3) = d[3] * 16384 /\ B(4) = d[4] * 2097152
          /\ B(5) = d[5] * 268435456
        BY <1>2, <1>4, SMT
    <2>2. d[1] \in Nat /\ d[2] \in Nat /\ d[3] \in Nat /\ d[4] \in Nat /\ d[5] \in Nat
        BY <1>1, SMT DEF Groups
    <2> QED
        BY <1>5, <2>1, <2>2, SMT DEF Total
<1> QED
    BY <1>1, <1>6, SMT DEF Grouped

\* t lies behind the first k bytes of s.
LEMMA Slice ==
    ASSUME NEW s \in ByteStrings, NEW t \in ByteStrings, NEW k \in Nat, k + Len(t) <= Len(s),
           \A i \in 1..Len(t) : s[k + i] = t[i]
    PROVE  SubSeq(s, k + 1, k + Len(t)) = t
<1>1. PICK n \in Nat : n = Len(t)
    BY LenProperties DEF ByteStrings
<1>2. PICK l \in Nat : l = Len(s)
    BY LenProperties DEF ByteStrings
<1>3. \A i \in (k + 1)..(k + n) : s[i] \in Byte
    <2> SUFFICES ASSUME NEW i \in (k + 1)..(k + n) PROVE s[i] \in Byte
        OBVIOUS
    <2>1. i \in 1..l
        BY <1>1, <1>2
    <2> QED
        BY <1>2, <2>1, ElementOfSeq DEF ByteStrings
<1>4. PICK u : u = SubSeq(s, k + 1, k + n)
    OBVIOUS
<1>5. /\ u \in Seq(Byte) /\ Len(u) = IF k + 1 <= k + n THEN (k + n) - (k + 1) + 1 ELSE 0
      /\ \A i \in 1..((k + n) - (k + 1) + 1) : u[i] = s[(k + 1) + i - 1]
    BY <1>3, <1>4, SubSeqProperties
<1>6. Len(u) = n
    BY <1>5
<1>7. ASSUME NEW i \in 1..n PROVE u[i] = t[i]
    <2>1. i \in 1..((k + n) - (k + 1) + 1) /\ (k + 1) + i - 1 = k + i
        OBVIOUS
    <2> QED
        BY <1>1, <1>5, <2>1
<1>8. u = t
    BY <1>1, <1>5, <1>6, <1>7, SeqEqual DEF ByteStrings
<1> QED
    BY <1>1, <1>4, <1>8

\* Four byte strings and their lengths.
Sized(a, b, c, e, la, lb, lc, le) ==
    /\ a \in ByteStrings /\ Len(a) = la /\ la \in Nat
    /\ b \in ByteStrings /\ Len(b) = lb /\ lb \in Nat
    /\ c \in ByteStrings /\ Len(c) = lc /\ lc \in Nat
    /\ e \in ByteStrings /\ Len(e) = le /\ le \in Nat

\* s is made of the four, one behind the other.
LaidOut(s, a, b, c, e, la, lb, lc, le) ==
    /\ s \in ByteStrings /\ Len(s) = la + lb + lc + le
    /\ \A i \in 1..la : s[i] = a[i]
    /\ \A i \in 1..lb : s[la + i] = b[i]
    /\ \A i \in 1..lc : s[la + lb + i] = c[i]
    /\ \A i \in 1..le : s[la + lb + lc + i] = e[i]

LEMMA FourParts ==
    ASSUME NEW a, NEW b, NEW c, NEW e, NEW la, NEW lb, NEW lc, NEW le, Sized(a, b, c, e, la, lb, lc, le)
    PROVE  LaidOut(a \o b \o c \o e, a, b, c, e, la, lb, lc, le)
<1>1. PICK x : x = a \o b
    BY Zenon
<1>2. PICK y : y = x \o c
    BY Zenon
<1>3. PICK s : s = y \o e
    BY Zenon
<1>0. /\ a \in ByteStrings /\ b \in ByteStrings /\ c \in ByteStrings /\ e \in ByteStrings
      /\ la \in Nat /\ lb \in Nat /\ lc \in Nat /\ le \in Nat
      /\ Len(a) = la /\ Len(b) = lb /\ Len(c) = lc /\ Len(e) = le
    BY Zenon DEF Sized
<1>4. /\ x \in ByteStrings /\ Len(x) = la + lb
      /\ \A i \in 1..la : x[i] = a[i]
      /\ \A i \in 1..lb : x[la + i] = b[i]
    <2>1. /\ a \o b \in ByteStrings /\ Len(a \o b) = Len(a) + Len(b)
          /\ \A i \in 1..Len(a) : (a \o b)[i] = a[i]
          /\ \A i \in 1..Len(b) : (a \o b)[Len(a) + i] = b[i]
        BY <1>0, Joined, Zenon
    <2> QED
        BY <1>0, <1>1, <2>1, Zenon
<1>5. /\ y \in ByteStrings /\ Len(y) = la + lb + lc
      /\ \A i \in 1..(la + lb) : y[i] = x[i]
      /\ \A i \in 1..lc : y[la + lb + i] = c[i]
    <2>1. /\ x \o c \in ByteStrings /\ Len(x \o c) = Len(x) + Len(c)
          /\ \A i \in 1..Len(x) : (x \o c)[i] = x[i]
          /\ \A i \in 1..Len(c) : (x \o c)[Len(x) + i] = c[i]
        BY <1>0, <1>4, Joined, Zenon
    <2> QED
        BY <1>0, <1>2, <1>4, <2>1, Zenon
<1>6. /\ s \in ByteStrings /\ Len(s) = la + lb + lc + le
      /\ \A i \in 1..(la + lb + lc) : s[i] = y[i]
      /\ \A i \in 1..le : s[la + lb + lc + i] = e[i]
    <2>1. /\ y \o e \in ByteStrings /\ Len(y \o e) = Len(y) + Len(e)
          /\ \A i \in 1..Len(y) : (y \o e)[i] = y[i]
          /\ \A i \in 1..Len(e) : (y \o e)[Len(y) + i] = e[i]
        BY <1>0, <1>5, Joined, Zenon
    <2> QED
        BY <1>0, <1>3, <1>5, <2>1, Zenon
<1>7. ASSUME NEW i \in 1..la PROVE s[i] = a[i]
    <2>1. i \in 1..(la + lb) /\ i \in 1..(la + lb + lc)
        BY <1>0
    <2> QED
        BY <1>4, <1>5, <1>6, <2>1
<1>8. ASSUME NEW i \in 1..lb PROVE s[la + i] = b[i]
    <2>1. la + i \in 1..(la + lb) /\ la + i \in 1..(la + lb + lc)
        BY <1>0
    <2> QED
        BY <1>4, <1>5, <1>6, <2>1
<1>9. ASSUME NEW i \in 1..lc PROVE s[la + lb + i] = c[i]
    <2>1. la + lb + i \in 1..(la + lb + lc)
        BY <1>0
    <2> QED
        BY <1>5, <1>6, <2>1
<1> QED
    <2>1. a \o b \o c \o e = s
        BY <1>1, <1>2, <1>3, Zenon
    <2>2. LaidOut(s, a, b, c, e, la, lb, lc, le)
        BY <1>6, <1>7, <1>8, <1>9, Zenon DEF LaidOut
    <2> QED
        BY <2>1, <2>2, Zenon

LEMMA EncodedId ==
    ASSUME NEW id \in Nat, id <= MaxInt
    PROVE  \E n \in 1..5, d \in Groups :
              /\ Grouped(id, n, d) /\ EncodeId(id) \in ByteStrings
              /\ Len(EncodeId(id)) = n /\ Marked(EncodeId(id), 0, n, d)
<1>1. PICK n \in 1..5, d \in Groups :
        /\ Grouped(id, n, d)
        /\ EncodeId(id) = [i \in 1..n |-> d[i] + IF i < n THEN 128 ELSE 0]
    BY IdGroups
<1>2. \A i \in 1..n : d[i] \in 0..127
    BY DEF Groups
<1> DEFINE e == [i \in 1..n |-> d[i] + IF i < n THEN 128 ELSE 0]
<1>3. ASSUME NEW i \in 1..n PROVE e[i] \in 0..255
    <2>1. d[i] \in 0..127 /\ e[i] = d[i] + IF i < n THEN 128 ELSE 0
        BY <1>2
    <2>2. \A x \in 0..127 : x + 128 \in 0..255 /\ x + 0 \in 0..255
        OBVIOUS
    <2> QED
        BY <2>1, <2>2, ZenonT(40)
<1>4. e \in Seq(0..255) /\ Len(e) = n
    BY <1>3
<1>5. \A i \in 1..n : e[i] = d[i] + IF i < n THEN 128 ELSE 0
    OBVIOUS
<1> HIDE DEF e
<1>6. Marked(e, 0, n, d)
    <2>1. 0 + n = n /\ n \in 1..n
        OBVIOUS
    <2>2. e[n] = d[n]
        BY <1>2, <1>5, <2>1
    <2>3. ASSUME NEW i \in 1..(n - 1) PROVE e[0 + i] = d[i] + 128
        <3>1. 0 + i = i /\ i \in 1..n /\ i < n
            OBVIOUS
        <3> QED
            BY <1>5, <3>1
    <2> QED
        BY <1>4, <2>1, <2>2, <2>3 DEF Marked
<1>7. EncodeId(id) = e /\ e \in ByteStrings
    BY <1>1, <1>4 DEF e, ByteStrings, Byte
<1> QED
    BY <1>1, <1>4, <1>6, <1>7, Zenon

\* The first byte of a message.
FlagOf(type, compress, flag) ==
    /\ type \in {Request, Notify, Response, Push} /\ compress \in BOOLEAN
    /\ flag = 2 * type + IF compress THEN 1 ELSE 0

FlagReadAs(type, compress, flag) ==
    /\ flag \in 0..255 /\ (flag \div 2) % 8 = type
    /\ (flag % 2 = 1) = compress /\ ((flag \div 16) % 2 = 1) = FALSE

LEMMA FlagIsRead ==
    ASSUME NEW type, NEW compress, NEW flag, FlagOf(type, compress, flag)
    PROVE  FlagReadAs(type, compress, flag)
<1>0. compress \in BOOLEAN /\ flag = 2 * type + IF compress THEN 1 ELSE 0
    BY Zenon DEF FlagOf
<1>1. type \in 0..3
    BY DEF FlagOf, Request, Notify, Response, Push
<1>2. ASSUME NEW t \in 0..3
      PROVE  /\ 2 * t \in 0..255 /\ ((2 * t) \div 2) % 8 = t /\ (2 * t) % 2 # 1 /\ ((2 * t) \div 16) % 2 # 1
             /\ 2 * t + 1 \in 0..255 /\ ((2 * t + 1) \div 2) % 8 = t /\ (2 * t + 1) % 2 = 1
             /\ ((2 * t + 1) \div 16) % 2 # 1
    <2>1. t = 0 \/ t = 1 \/ t = 2 \/ t = 3
        BY <1>2
    <2> QED
        BY <2>1
<1>3. CASE compress
    <2>1. flag = 2 * type + 1
        BY <1>0, <1>3, Zenon
    <2>2. flag \in 0..255 /\ (flag \div 2) % 8 = type /\ flag % 2 = 1 /\ (flag \div 16) % 2 # 1
        BY <1>1, <1>2, <2>1, Zenon
    <2> QED
        BY <1>0, <1>3, <2>2 DEF FlagReadAs
<1>4. CASE ~compress
    <2>1. flag = 2 * type
        BY <1>0, <1>1, <1>4
    <2> QED
        BY <1>0, <1>1, <1>2, <1>4, <2>1, ZenonT(40) DEF FlagReadAs
<1> QED
    BY <1>3, <1>4

\* The n bytes of the id lie behind the flag.
IdWritten(data, id, n) ==
    /\ data \in ByteStrings /\ n \in Nat /\ Len(EncodeId(id)) = n
    /\ 1 + n <= Len(data) /\ \A i \in 1..n : data[1 + i] = EncodeId(id)[i]

LEMMA IdIsRead ==
    ASSUME NEW id \in Nat, id <= MaxInt, NEW data, NEW n, IdWritten(data, id, n)
    PROVE  HasIdEnd(data, 1) /\ IdEnd(data, 1) = 1 + n /\ DecodeId(data, 1) = id
<1>0. /\ data \in ByteStrings /\ n \in Nat /\ Len(EncodeId(id)) = n
      /\ 1 + n <= Len(data) /\ \A i \in 1..n : data[1 + i] = EncodeId(id)[i]
    BY Zenon DEF IdWritten
<1>1. PICK k \in 1..5, d \in Groups :
        /\ Grouped(id, k, d) /\ EncodeId(id) \in ByteStrings
        /\ Len(EncodeId(id)) = k /\ Marked(EncodeId(id), 0, k, d)
    BY EncodedId, Zenon
<1>2. k = n /\ n \in 1..5 /\ Grouped(id, n, d)
    BY <1>0, <1>1, Zenon
<1>3. PICK e : e = EncodeId(id)
    BY Zenon
<1>4. /\ e[0 + n] = d[n]
      /\ \A i \in 1..(n - 1) : e[0 + i] = d[i] + 128
    BY <1>1, <1>2, <1>3, Zenon DEF Marked
<1>5. \A i \in 1..n : data[1 + i] = e[i]
    BY <1>0, <1>3, Zenon
<1>6. Marked(data, 1, n, d)
    <2>1. 0 + n = n /\ n \in 1..n
        BY <1>2
    <2>2. data[1 + n] = d[n]
        BY <1>4, <1>5, <2>1, Zenon
    <2>3. ASSUME NEW i \in 1..(n - 1) PROVE data[1 + i] = d[i] + 128
        <3>1. 0 + i = i /\ i \in 1..n
            BY <1>0
        <3> QED
            BY <1>4, <1>5, <3>1, ZenonT(40)
    <2> QED
        BY <1>0, <2>2, <2>3 DEF Marked
<1>7. 1 \in Nat /\ data \in ByteStrings /\ n \in 1..5 /\ Grouped(id, n, d)
    BY <1>0, <1>2
<1> QED
    BY <1>6, <1>7, GroupsAreRead

\* The route, k bytes, and its length lie behind the n bytes of the id.
RouteWritten(data, route, n, r, m, k) ==
    /\ data \in ByteStrings /\ route \in ByteStrings /\ Len(route) = k /\ k \in 0..255
    /\ n \in Nat /\ r \in Nat /\ m \in Nat /\ Len(data) = 1 + n + r + m
    /\ Len(EncodeRoute(FALSE, route)) = r
    /\ \A i \in 1..r : data[1 + n + i] = EncodeRoute(FALSE, route)[i]

\* Where Message::decode looks for the route and its length.
RouteFound(data, route, n, r) ==
    /\ 1 + n < Len(data) /\ 1 + n + 1 + data[1 + n + 1] = 1 + n + r
    /\ SubSeq(data, 1 + n + 2, 1 + n + r) = route

LEMMA RouteEnds ==
    ASSUME NEW data, NEW route, NEW n, NEW r, NEW m, NEW k, RouteWritten(data, route, n, r, m, k)
    PROVE  RouteFound(data, route, n, r)
<1>0. /\ data \in ByteStrings /\ route \in ByteStrings /\ Len(route) = k /\ k \in 0..255
      /\ n \in Nat /\ r \in Nat /\ m \in Nat /\ Len(data) = 1 + n + r + m
      /\ Len(EncodeRoute(FALSE, route)) = r
      /\ \A i \in 1..r : data[1 + n + i] = EncodeRoute(FALSE, route)[i]
    BY Zenon DEF RouteWritten
<1>1. EncodeRoute(FALSE, route) = <<k>> \o route
    <2>1. k % 256 = k
        BY <1>0
    <2> QED
        BY <1>0, <2>1, Zenon DEF EncodeRoute
<1>2. <<k>> \in ByteStrings /\ Len(<<k>>) = 1 /\ <<k>>[1] = k
    BY <1>0 DEF ByteStrings, Byte
<1>3. /\ Len(<<k>> \o route) = Len(<<k>>) + Len(route)
      /\ \A i \in 1..Len(<<k>>) : (<<k>> \o route)[i] = <<k>>[i]
      /\ \A i \in 1..Len(route) : (<<k>> \o route)[Len(<<k>>) + i] = route[i]
    BY <1>0, <1>2, Joined, Zenon
<1>4. PICK e : e = <<k>> \o route
    BY Zenon
<1>5. r = 1 + k /\ (\A i \in 1..1 : e[i] = <<k>>[i]) /\ \A i \in 1..k : e[1 + i] = route[i]
    BY <1>0, <1>1, <1>2, <1>3, <1>4, Zenon
<1>6. \A i \in 1..r : data[1 + n + i] = e[i]
    BY <1>0, <1>1, <1>4, Zenon
<1>7. data[1 + n + 1] = k
    BY <1>0, <1>2, <1>5, <1>6
<1>8. SubSeq(data, (1 + n + 1) + 1, (1 + n + 1) + Len(route)) = route
    <2>1. (1 + n + 1) + Len(route) <= Len(data)
        BY <1>0, <1>5
    <2>2. ASSUME NEW i \in 1..Len(route) PROVE data[(1 + n + 1) + i] = route[i]
        <3>1. i \in 1..k /\ 1 + i \in 1..r /\ (1 + n + 1) + i = 1 + n + (1 + i)
            BY <1>0, <1>5
        <3> QED
            BY <1>0, <1>5, <1>6, <3>1, Zenon
    <2>3. 1 + n + 1 \in Nat
        BY <1>0
    <2> QED
        BY <1>0, <2>1, <2>2, <2>3, Slice, Zenon
<1>9. (1 + n + 1) + 1 = 1 + n + 2 /\ (1 + n + 1) + Len(route) = 1 + n + r
    BY <1>0, <1>5
<1>10. SubSeq(data, 1 + n + 2, 1 + n + r) = route
    BY <1>8, <1>9, Zenon
<1>11. 1 + n < Len(data) /\ 1 + n + 1 + data[1 + n + 1] = 1 + n + r
    BY <1>0, <1>5, <1>7
<1> QED
    BY <1>10, <1>11, Zenon DEF RouteFound

\* What the parts of a message are read as: n bytes of an id, r of a route, m of a body.
ReadAs(data, type, compress, n, r, m, id, route, body) ==
    /\ (data[1] \div 2) % 8 = type /\ (data[1] % 2 = 1) = compress /\ ((data[1] \div 16) % 2 = 1) = FALSE
    /\ data # <<>> /\ compress \in BOOLEAN /\ Len(data) = 1 + n + r + m /\ n \in Nat /\ r \in Nat /\ m \in Nat
    /\ HasId(type) => HasIdEnd(data, 1) /\ IdEnd(data, 1) = 1 + n /\ DecodeId(data, 1) = id
    /\ ~HasId(type) => n = 0
    /\ ~HasRoute(type) => r = 0
    /\ HasRoute(type) /\ compress => r = 2
    /\ HasRoute(type) /\ ~compress => RouteFound(data, route, n, r)
    /\ SubSeq(data, 1 + n + r + 1, Len(data)) = body

LEMMA MessageIsRead ==
    ASSUME NEW data, NEW type, NEW compress, NEW n, NEW r, NEW m, NEW id, NEW route, NEW body,
           ReadAs(data, type, compress, n, r, m, id, route, body)
    PROVE  MessageDecode(data) = [ok |-> TRUE, type |-> type, compress |-> compress,
                                  id |-> IF HasId(type) THEN id ELSE 0, gzip |-> FALSE,
                                  route |-> IF HasRoute(type) /\ ~compress THEN route ELSE <<>>, body |-> body]
<1>0. /\ (data[1] \div 2) % 8 = type /\ (data[1] % 2 = 1) = compress /\ ((data[1] \div 16) % 2 = 1) = FALSE
      /\ data # <<>> /\ compress \in BOOLEAN /\ Len(data) = 1 + n + r + m /\ n \in Nat /\ r \in Nat /\ m \in Nat
      /\ HasId(type) => HasIdEnd(data, 1) /\ IdEnd(data, 1) = 1 + n /\ DecodeId(data, 1) = id
      /\ ~HasId(type) => n = 0
      /\ ~HasRoute(type) => r = 0
      /\ HasRoute(type) /\ compress => r = 2
      /\ HasRoute(type) /\ ~compress =>
              /\ 1 + n < Len(data) /\ 1 + n + 1 + data[1 + n + 1] = 1 + n + r
              /\ SubSeq(data, 1 + n + 2, 1 + n + r) = route
      /\ SubSeq(data, 1 + n + r + 1, Len(data)) = body
    BY Zenon DEF ReadAs, RouteFound
<1> DEFINE idEnd == IF HasId(type) THEN IdEnd(data, 1) ELSE 1
           got == IF HasId(type) THEN DecodeId(data, 1) ELSE 0
           routeEnd == CASE ~HasRoute(type) -> idEnd
                         [] HasRoute(type) /\ compress -> idEnd + 2
                         [] OTHER -> IF idEnd < Len(data) THEN idEnd + 1 + data[idEnd + 1] ELSE idEnd + 1
<1>1. idEnd = 1 + n /\ got = IF HasId(type) THEN id ELSE 0
    BY <1>0
<1>2. routeEnd = 1 + n + r
    <2>1. CASE ~HasRoute(type)
        BY <1>0, <1>1, <2>1
    <2>2. CASE HasRoute(type) /\ compress
        BY <1>0, <1>1, <2>2
    <2>3. CASE HasRoute(type) /\ ~compress
        BY <1>0, <1>1, <2>3
    <2> QED
        BY <2>1, <2>2, <2>3
<1>3. MessageDecode(data) =
        IF (HasId(type) /\ ~HasIdEnd(data, 1)) \/ routeEnd > Len(data) THEN NullOpt
        ELSE [ok |-> TRUE, type |-> type, compress |-> compress, id |-> got, gzip |-> FALSE,
              route |-> IF HasRoute(type) /\ ~compress THEN SubSeq(data, idEnd + 2, routeEnd) ELSE <<>>,
              body |-> SubSeq(data, routeEnd + 1, Len(data))]
    BY <1>0, Zenon DEF MessageDecode
<1> HIDE DEF idEnd, got, routeEnd
<1>4. ~((HasId(type) /\ ~HasIdEnd(data, 1)) \/ routeEnd > Len(data))
    BY <1>0, <1>2
<1>5. (IF HasRoute(type) /\ ~compress THEN SubSeq(data, idEnd + 2, routeEnd) ELSE <<>>)
        = IF HasRoute(type) /\ ~compress THEN route ELSE <<>>
    BY <1>0, <1>1, <1>2, Zenon
<1>6. SubSeq(data, routeEnd + 1, Len(data)) = body
    BY <1>0, <1>2, Zenon
<1> QED
    BY <1>0, <1>1, <1>3, <1>4, <1>5, <1>6, Zenon

(* What Message::encode() writes, Message::decode() reads: for every type,  *)
(* every id that is an int and not negative, every route of at most 255     *)
(* bytes and every body, the type, the flags, the id, the route and the     *)
(* body come back.                                                          *)
THEOREM MessageRoundTrip ==
    ASSUME NEW id \in Nat, id <= MaxInt, NEW type \in {Request, Notify, Response, Push},
           NEW compress \in BOOLEAN, NEW route \in ByteStrings, Len(route) <= 255, NEW body \in ByteStrings
    PROVE  MessageDecode(MessageEncode(id, type, compress, route, body)) =
               [ok |-> TRUE, type |-> type, compress |-> compress,
                id |-> IF HasId(type) THEN id ELSE 0, gzip |-> FALSE,
                route |-> IF HasRoute(type) /\ ~compress THEN route ELSE <<>>, body |-> body]
<1>1. PICK flag : flag = 2 * type + IF compress THEN 1 ELSE 0
    OBVIOUS
<1>2. PICK I : I = IF HasId(type) THEN EncodeId(id) ELSE <<>>
    OBVIOUS
<1>3. PICK R : R = IF HasRoute(type) THEN EncodeRoute(compress, route) ELSE <<>>
    OBVIOUS
<1>4. PICK data : data = <<flag>> \o I \o R \o body
    OBVIOUS
<1>5. MessageEncode(id, type, compress, route, body) = data
    BY <1>1, <1>2, <1>3, <1>4, Zenon DEF MessageEncode
<1>6. /\ flag \in 0..255 /\ (flag \div 2) % 8 = type
      /\ (flag % 2 = 1) = compress /\ ((flag \div 16) % 2 = 1) = FALSE
    <2>1. FlagOf(type, compress, flag)
        BY <1>1, Zenon DEF FlagOf
    <2>2. FlagReadAs(type, compress, flag)
        BY <2>1, FlagIsRead
    <2> QED
        BY <2>2, Zenon DEF FlagReadAs
<1>7. <<flag>> \in ByteStrings /\ Len(<<flag>>) = 1 /\ <<flag>>[1] = flag
    BY <1>6 DEF ByteStrings, Byte
<1>8. <<>> \in ByteStrings /\ Len(<<>>) = 0
    BY DEF ByteStrings
<1>9. I \in ByteStrings
    <2>1. EncodeId(id) \in ByteStrings
        BY EncodedId, Zenon
    <2> QED
        BY <1>2, <1>8, <2>1, Zenon
<1>10. R \in ByteStrings /\ (HasRoute(type) /\ compress => Len(R) = 2)
    <2>1. <<0, 0>> \in ByteStrings /\ Len(<<0, 0>>) = 2
        BY DEF ByteStrings, Byte
    <2>2. <<Len(route) % 256>> \o route \in ByteStrings
        <3>1. <<Len(route) % 256>> \in ByteStrings
            <4>1. ASSUME NEW x \in Nat PROVE x % 256 \in 0..255
                BY <4>1
            <4>2. Len(route) \in Nat
                BY LenProperties DEF ByteStrings
            <4>3. Len(route) % 256 \in 0..255
                BY <4>1, <4>2, Zenon
            <4> QED
                BY <4>3 DEF ByteStrings, Byte
        <3> QED
            BY <3>1, Joined, Zenon
    <2> QED
        BY <1>3, <1>8, <2>1, <2>2, Zenon DEF EncodeRoute
<1>11. PICK n \in Nat : Len(I) = n
    BY <1>9, LenProperties DEF ByteStrings
<1>12. PICK r \in Nat : Len(R) = r
    BY <1>10, LenProperties DEF ByteStrings
<1>13. PICK m \in Nat : Len(body) = m
    BY LenProperties DEF ByteStrings
<1>14. PICK k \in Nat : Len(route) = k
    BY LenProperties DEF ByteStrings
<1>15. /\ data \in ByteStrings /\ Len(data) = 1 + n + r + m
       /\ \A i \in 1..1 : data[i] = <<flag>>[i]
       /\ \A i \in 1..n : data[1 + i] = I[i]
       /\ \A i \in 1..r : data[1 + n + i] = R[i]
       /\ \A i \in 1..m : data[1 + n + r + i] = body[i]
    <2>1. 1 \in Nat
        OBVIOUS
    <2>2. Sized(<<flag>>, I, R, body, 1, n, r, m)
        BY <1>7, <1>9, <1>10, <1>11, <1>12, <1>13, <2>1, Zenon DEF Sized
    <2> QED
        <3>1. LaidOut(<<flag>> \o I \o R \o body, <<flag>>, I, R, body, 1, n, r, m)
            BY <2>2, FourParts, Zenon
        <3>2. LaidOut(data, <<flag>>, I, R, body, 1, n, r, m)
            BY <1>4, <3>1, Zenon
        <3> QED
            BY <3>2, Zenon DEF LaidOut
<1>16. data[1] = flag /\ data # <<>>
    <2>1. 1 \in 1..1 /\ 1 + n + r + m # 0
        OBVIOUS
    <2> QED
        BY <1>7, <1>8, <1>15, <2>1, Zenon
<1>17. HasId(type) => HasIdEnd(data, 1) /\ IdEnd(data, 1) = 1 + n /\ DecodeId(data, 1) = id
    <2> SUFFICES ASSUME HasId(type) PROVE HasIdEnd(data, 1) /\ IdEnd(data, 1) = 1 + n /\ DecodeId(data, 1) = id
        OBVIOUS
    <2>1. I = EncodeId(id)
        BY <1>2, Zenon
    <2>2. 1 + n <= 1 + n + r + m
        OBVIOUS
    <2> QED
        <3>1. IdWritten(data, id, n)
            BY <1>11, <1>15, <2>1, <2>2, Zenon DEF IdWritten
        <3> QED
            BY <3>1, IdIsRead, Zenon
<1>18. (~HasId(type) => n = 0) /\ (~HasRoute(type) => r = 0)
    BY <1>2, <1>3, <1>8, <1>11, <1>12, Zenon
<1>19. HasRoute(type) /\ ~compress => RouteFound(data, route, n, r)
    <2> SUFFICES ASSUME HasRoute(type), ~compress PROVE RouteFound(data, route, n, r)
        OBVIOUS
    <2>1. compress = FALSE
        BY Zenon
    <2>2. R = EncodeRoute(FALSE, route)
        BY <1>3, <2>1, Zenon
    <2>3. k \in 0..255
        BY <1>14
    <2>4. RouteWritten(data, route, n, r, m, k)
        BY <1>12, <1>14, <1>15, <2>2, <2>3, Zenon DEF RouteWritten
    <2> QED
        BY <2>4, RouteEnds, Zenon
<1>20. SubSeq(data, 1 + n + r + 1, Len(data)) = body
    <2>1. 1 + n + r \in Nat /\ (1 + n + r) + m = 1 + n + r + m /\ 1 + n + r + m <= 1 + n + r + m
        OBVIOUS
    <2>2. SubSeq(data, (1 + n + r) + 1, (1 + n + r) + Len(body)) = body
        BY <1>13, <1>15, <2>1, Slice, ZenonT(40)
    <2> QED
        BY <1>13, <1>15, <2>1, <2>2, Zenon
<1>21. HasRoute(type) /\ compress => r = 2
    BY <1>10, <1>12, Zenon
<1>22. ReadAs(data, type, compress, n, r, m, id, route, body)
    BY <1>6, <1>15, <1>16, <1>17, <1>18, <1>19, <1>20, <1>21, Zenon DEF ReadAs
<1> QED
    BY <1>5, <1>22, MessageIsRead, Zenon

-----------------------------------------------------------------------------
(* The JSON builder of CppJson: what holds of the lexer and the heap       *)

\* What get() answers: a byte, or the end of the input.
Bytes == {Eof} \cup 0..255

\* The lexer's fields, as far as a later step relies on them.
WellFormed(l) ==
    /\ DOMAIN l = {"at", "left", "current", "unget", "buffer", "type", "high"}
    /\ l.type \in Tokens
    /\ l.at = "hex" => l.left \in Seq(Int) /\ Len(l.left) < 4
    /\ l.at = "pair" => l.left \in Seq(Int) /\ Len(l.left) \in 1..2

\* The lexer, and with it what the parser reads: text and tokens.
LexOK == WellFormed(lex) /\ lex.current \in Bytes

Reading == LexOK /\ text \in Seq(0..255) /\ token \in Tokens

\* A sequence, whatever its elements are.
IsSequence(s) == Len(s) \in Nat /\ s = [i \in 1..Len(s) |-> s[i]]

\* The object at a in h has a pointer, under the index or key i.
Holds(h, a, i) ==
    a \in DOMAIN h /\ h[a].kind \in {"array", "object"} /\ i \in DOMAIN h[a].value

\* The pointers of a heap lead to objects that have not been moved from, none
\* to the root, and no two of them to one object.
Sound(h) ==
    /\ IsSequence(h) /\ Len(h) > 0
    /\ \A a \in DOMAIN h : h[a].kind \in Kinds /\ (h[a].kind = "array" => IsSequence(h[a].value))
    /\ \A a, i : Holds(h, a, i) =>
         h[a].value[i] \in DOMAIN h \ {1} /\ h[h[a].value[i]].kind # "gone"
    /\ \A a, b, i, j : Holds(h, a, i) /\ Holds(h, b, j) /\ h[a].value[i] = h[b].value[j] => a = b /\ i = j

\* The object at a is the parent of the one at c.
Points(h, a, c) == \E i : Holds(h, a, i) /\ h[a].value[i] = c

\* ref_stack is a path from the root, without a repetition.
Path ==
    /\ refStack \in Seq(DOMAIN heap)
    /\ \A i \in 1..Len(refStack) : Kind(i) \in {"array", "object"}
    /\ refStack # <<>> => refStack[1] = 1
    /\ \A i \in 1..(Len(refStack) - 1) : Points(heap, refStack[i], refStack[i + 1])
    /\ \A i, j \in 1..Len(refStack) : refStack[i] = refStack[j] => i = j

\* Where the next value goes is a member of the object that is being read.
MemberIsSet ==
    refStack # <<>> /\ Kind(Len(refStack)) = "object" /\ parseAt \in {"firstColon", "nextColon", "value"}
        => Points(heap, Back, objectElement)

\* What the parser is inside of, at each of its places.
Inside ==
    /\ states \in Seq({"array", "object"}) /\ parseAt \in Places
    /\ Len(states) <= Len(refStack)
    /\ \A i \in 1..Len(states) : Kind(i) = states[i]
    /\ ~Failed => Len(refStack) = Len(states) + IF Opening THEN 1 ELSE 0
    /\ parseAt \in {"object", "firstColon"} => Kind(Len(refStack)) = "object"
    /\ parseAt = "array" => Kind(Len(refStack)) = "array"
    /\ parseAt = "arrayNext" => states # <<>> /\ states[Len(states)] = "array"
    /\ parseAt \in {"objectNext", "key", "nextColon"} => states # <<>> /\ states[Len(states)] = "object"

\* The inductive invariant: its part about the builder, and the whole.
Builder ==
    /\ Sound(heap) /\ objectElement \in {0} \cup DOMAIN heap
    /\ Path /\ MemberIsSet /\ Inside

JsonIInv == Builder /\ Reading /\ job \in DOMAIN Jobs

-----------------------------------------------------------------------------
(* What the builder's operations do with the heap                          *)

LEMMA LenOf ==
    ASSUME NEW s, NEW n \in Nat, DOMAIN s = 1..n
    PROVE  Len(s) = n
OBVIOUS

LEMMA FunctionSequence ==
    ASSUME NEW n \in Nat, NEW s, s = [i \in 1..n |-> s[i]]
    PROVE  IsSequence(s) /\ Len(s) = n
<1>1. Len(s) = n
    BY LenOf
<1> QED
    BY <1>1 DEF IsSequence

\* h is the heap after emplace_back(v), which has moved m elements.
Emplaced(h, v, m) ==
    LET old == heap[Back].value
        n == Len(heap)
    IN  /\ m \in {0, Len(old)}
        /\ IsSequence(h) /\ Len(h) = n + m + 1 /\ h[n + m + 1] = v
        /\ \A k \in 1..m : h[n + k] = heap[old[k]]
        /\ h[Back].kind = "array" /\ IsSequence(h[Back].value) /\ Len(h[Back].value) = Len(old) + 1
        /\ \A i \in 1..Len(old) : h[Back].value[i] = IF m # 0 THEN n + i ELSE old[i]
        /\ h[Back].value[Len(old) + 1] = n + m + 1
        /\ \A a \in 1..n : a # Back =>
             h[a] = IF m # 0 /\ \E k \in 1..m : old[k] = a THEN Gone ELSE heap[a]

LEMMA EmplaceBackEffect ==
    ASSUME Sound(heap), Back \in DOMAIN heap, heap[Back].kind = "array", NEW v
    PROVE  \E m : Emplaced(EmplaceBack(v), v, m)
<1> DEFINE old == heap[Back].value
           n == Len(heap)
           m == IF Full(Len(old)) THEN Len(old) ELSE 0
           last == n + m + 1
           elements == [i \in 1..(Len(old) + 1) |->
                          IF i > Len(old) THEN last ELSE IF m # 0 THEN n + i ELSE old[i]]
           h == EmplaceBack(v)
<1>1. n \in Nat /\ Len(old) \in Nat /\ DOMAIN heap = 1..n /\ DOMAIN old = 1..Len(old)
    BY DEF Sound, IsSequence
<1>2. m \in {0, Len(old)} /\ m \in Nat /\ last \in Nat
    BY <1>1
<1>3. h = [a \in 1..last |->
              IF a = last THEN v
              ELSE IF a > n THEN heap[old[a - n]]
              ELSE IF a = Back THEN Node("array", elements)
              ELSE IF m # 0 /\ a \in Range(old) THEN Gone
              ELSE heap[a]]
    BY DEF EmplaceBack
<1> HIDE DEF h
<1>4. IsSequence(h) /\ Len(h) = last
    <2>1. h = [a \in 1..last |-> h[a]]
        BY <1>3
    <2> QED
        BY <2>1, <1>2, FunctionSequence
<1>5. IsSequence(elements) /\ Len(elements) = Len(old) + 1
    <2>1. elements = [i \in 1..(Len(old) + 1) |-> elements[i]]
        OBVIOUS
    <2>2. Len(old) + 1 \in Nat
        BY <1>1
    <2> QED
        BY <2>1, <2>2, FunctionSequence
<1>6. h[Back] = Node("array", elements)
    BY <1>1, <1>2, <1>3
<1>7. h[last] = v
    BY <1>1, <1>2, <1>3
<1>8. ASSUME NEW k \in 1..m PROVE h[n + k] = heap[old[k]]
    <2>1. n + k \in 1..last /\ n + k # last /\ n + k > n /\ (n + k) - n = k
        BY <1>1, <1>2
    <2> QED
        BY <1>3, <2>1
<1>9. ASSUME NEW a \in 1..n, a # Back
      PROVE  h[a] = IF m # 0 /\ \E k \in 1..m : old[k] = a THEN Gone ELSE heap[a]
    <2>1. a \in 1..last /\ a # last /\ ~(a > n)
        BY <1>1, <1>2
    <2>2. h[a] = IF m # 0 /\ a \in Range(old) THEN Gone ELSE heap[a]
        BY <1>3, <1>9, <2>1
    <2>3. m # 0 => (a \in Range(old) <=> \E k \in 1..m : old[k] = a)
        BY <1>1 DEF Range
    <2> QED
        BY <2>2, <2>3
<1>10. /\ \A i \in 1..Len(old) : elements[i] = IF m # 0 THEN n + i ELSE old[i]
       /\ elements[Len(old) + 1] = last
    BY <1>1
<1>11. h[Back].kind = "array" /\ h[Back].value = elements
    BY <1>6 DEF Node
<1>12. Emplaced(h, v, m)
    <2> HIDE DEF elements, m
    <2> QED
        BY <1>2, <1>4, <1>5, <1>7, <1>8, <1>9, <1>10, <1>11 DEF Emplaced
<1> QED
    BY <1>12 DEF h


\* A value as handle_value() gets it: a scalar or an empty container.
Childless(v) ==
    /\ v.kind \in Kinds \ {"gone"}
    /\ v.kind \in {"array", "object"} => DOMAIN v.value = {}
    /\ v.kind = "array" => IsSequence(v.value)

\* The container at the top has no container of the path among its elements.
LEMMA TopIsLast ==
    ASSUME Sound(heap), Path, refStack # <<>>, NEW i \in 1..Len(refStack)
    PROVE  ~Points(heap, Back, refStack[i])
<1> SUFFICES ASSUME Points(heap, Back, refStack[i]) PROVE FALSE
    OBVIOUS
<1>1. Len(refStack) \in Nat /\ Len(refStack) > 0 /\ Back = refStack[Len(refStack)]
    BY DEF Path, Back
<1>2. PICK k : Holds(heap, Back, k) /\ heap[Back].value[k] = refStack[i]
    BY DEF Points
<1>3. refStack[i] # 1
    BY <1>2 DEF Sound
<1>4. i > 1
    BY <1>1, <1>3 DEF Path
<1>5. i - 1 \in 1..(Len(refStack) - 1) /\ (i - 1) + 1 = i
    BY <1>1, <1>4
<1>6. Points(heap, refStack[i - 1], refStack[i])
    BY <1>5 DEF Path
<1>7. PICK l : Holds(heap, refStack[i - 1], l) /\ heap[refStack[i - 1]].value[l] = refStack[i]
    BY <1>6 DEF Points
<1>8. refStack[i - 1] = Back
    BY <1>2, <1>7 DEF Sound
<1>9. i - 1 = Len(refStack)
    BY <1>1, <1>5, <1>8 DEF Path
<1> QED
    BY <1>1, <1>9

\* Each pointer behind an emplace_back() is that to the new element, that to
\* another element, one of an element that was moved, or an untouched one.
LEMMA EmplacedPointers ==
    ASSUME Sound(heap), Back \in DOMAIN heap, heap[Back].kind = "array",
           NEW v, Childless(v), NEW m, NEW h, Emplaced(h, v, m), NEW a, NEW i, Holds(h, a, i)
    PROVE  LET old == heap[Back].value
               n == Len(heap)
           IN  \/ a = Back /\ i = Len(old) + 1 /\ h[a].value[i] = n + m + 1
               \/ /\ a = Back /\ i \in 1..Len(old) /\ Holds(heap, Back, i)
                  /\ h[a].value[i] = IF m # 0 THEN n + i ELSE old[i]
               \/ \E k \in 1..m : /\ a = n + k /\ Holds(heap, Back, k) /\ Holds(heap, old[k], i)
                                  /\ h[a].value[i] = heap[old[k]].value[i]
               \/ /\ a \in 1..n /\ a # Back /\ Holds(heap, a, i) /\ h[a].value[i] = heap[a].value[i]
                  /\ \A k \in 1..m : old[k] # a
<1> DEFINE old == heap[Back].value
           n == Len(heap)
<1>1. n \in Nat /\ Len(old) \in Nat /\ DOMAIN heap = 1..n /\ DOMAIN old = 1..Len(old)
    BY DEF Sound, IsSequence
<1>2. m \in {0, Len(old)} /\ m \in Nat /\ DOMAIN h = 1..(n + m + 1) /\ a \in 1..(n + m + 1)
    BY <1>1 DEF Emplaced, IsSequence, Holds
<1>3. CASE a = Back
    <2>1. i \in 1..(Len(old) + 1)
        BY <1>3 DEF Emplaced, IsSequence, Holds
    <2>2. i \in 1..Len(old) => Holds(heap, Back, i)
        BY <1>1 DEF Holds
    <2> QED
        BY <1>1, <1>3, <2>1, <2>2 DEF Emplaced
<1>4. CASE a # Back /\ a \in 1..n
    <2>1. h[a] # Gone
        BY DEF Holds, Gone, Node
    <2>2. h[a] = heap[a] /\ ~(m # 0 /\ \E k \in 1..m : old[k] = a)
        BY <1>4, <2>1 DEF Emplaced
    <2>3. \A k \in 1..m : old[k] # a
        BY <1>1, <1>2, <2>2
    <2> QED
        BY <1>1, <1>4, <2>2, <2>3 DEF Holds
<1>5. CASE a \in (n + 1)..(n + m)
    <2>1. PICK k \in 1..m : a = n + k
        <3>1. a - n \in 1..m /\ a = n + (a - n)
            BY <1>1, <1>2, <1>5
        <3> QED
            BY <3>1
    <2>2. h[a] = heap[old[k]] /\ k \in 1..Len(old)
        BY <1>1, <1>2, <2>1 DEF Emplaced
    <2>3. Holds(heap, Back, k)
        BY <1>1, <2>2 DEF Holds
    <2>4. old[k] \in DOMAIN heap
        BY <2>3 DEF Sound
    <2> QED
        BY <2>1, <2>2, <2>3, <2>4 DEF Holds
<1>6. CASE a = n + m + 1
    <2>1. h[a] = v
        BY <1>6 DEF Emplaced
    <2> QED
        BY <2>1 DEF Holds, Childless
<1> QED
    BY <1>1, <1>2, <1>3, <1>4, <1>5, <1>6

LEMMA EmplaceKeepsHeapSound ==
    ASSUME Sound(heap), Path, refStack # <<>>, heap[Back].kind = "array",
           NEW v, Childless(v), NEW m, NEW h, Emplaced(h, v, m)
    PROVE  Sound(h)
<1> DEFINE old == heap[Back].value
           n == Len(heap)
<1>1. n \in Nat /\ Len(old) \in Nat /\ DOMAIN heap = 1..n /\ DOMAIN old = 1..Len(old) /\ n > 0
    <2>1. Back \in DOMAIN heap
        BY DEF Path, Back
    <2> QED
        BY <2>1 DEF Sound, IsSequence
<1>2. Back \in DOMAIN heap /\ ~Points(heap, Back, Back)
    BY TopIsLast DEF Path, Back
<1>3. m \in {0, Len(old)} /\ m \in Nat /\ DOMAIN h = 1..(n + m + 1) /\ Len(h) > 0
    BY <1>1 DEF Emplaced, IsSequence
<1>4. \A k \in 1..Len(old) : Holds(heap, Back, k) /\ old[k] \in 2..n /\ old[k] # Back /\ heap[old[k]].kind # "gone"
    <2>1. \A k \in 1..Len(old) : Holds(heap, Back, k)
        BY <1>1, <1>2 DEF Holds
    <2>2. \A k \in 1..Len(old) : old[k] \in DOMAIN heap \ {1} /\ heap[old[k]].kind # "gone"
        BY <2>1 DEF Sound
    <2>3. \A k \in 1..Len(old) : old[k] # Back
        BY <1>2, <2>1 DEF Points
    <2> QED
        BY <1>1, <2>1, <2>2, <2>3
<1>5. \A k \in 1..m : k \in 1..Len(old)
    BY <1>1, <1>3
<1>6. ASSUME NEW a \in DOMAIN h
      PROVE  h[a].kind \in Kinds /\ (h[a].kind = "array" => IsSequence(h[a].value))
    <2>1. CASE a = Back
        BY <2>1 DEF Emplaced, Kinds
    <2>2. CASE a # Back /\ a \in 1..n
        <3>1. h[a] = Gone \/ h[a] = heap[a]
            BY <2>2 DEF Emplaced
        <3> QED
            BY <1>1, <2>2, <3>1 DEF Sound, Gone, Node, Kinds
    <2>3. CASE a \in (n + 1)..(n + m)
        <3>1. PICK k \in 1..m : a = n + k
            BY <1>1, <1>3, <2>3
        <3>2. h[a] = heap[old[k]] /\ old[k] \in DOMAIN heap
            BY <1>1, <1>4, <1>5, <3>1, SMTT(40) DEF Emplaced
        <3> QED
            BY <3>2 DEF Sound
    <2>4. CASE a = n + m + 1
        BY <2>4 DEF Emplaced, Childless
    <2> QED
        BY <1>1, <1>3, <2>1, <2>2, <2>3, <2>4
<1>7. \A a \in 1..n : (\A k \in 1..m : old[k] # a) /\ heap[a].kind # "gone" => h[a].kind # "gone"
    BY DEF Emplaced
<1>8. \A k \in 1..m : h[n + k].kind # "gone"
    BY <1>4, <1>5 DEF Emplaced
<1>9. ASSUME NEW a, NEW i, Holds(h, a, i)
      PROVE  h[a].value[i] \in DOMAIN h \ {1} /\ h[h[a].value[i]].kind # "gone"
    <2> DEFINE c == h[a].value[i]
    <2>1. CASE a = Back /\ i = Len(old) + 1 /\ c = n + m + 1
        BY <1>1, <1>3, <2>1, SMTT(40) DEF Emplaced, Childless
    <2>2. CASE a = Back /\ i \in 1..Len(old) /\ c = IF m # 0 THEN n + i ELSE old[i]
        <3>1. CASE m # 0
            <4>1. c = n + i /\ i \in 1..m
                BY <1>3, <2>2, <3>1
            <4>2. h[c].kind # "gone"
                BY <1>8, <4>1
            <4>3. c \in 1..(n + m + 1) /\ c # 1
                BY <1>1, <1>3, <4>1
            <4> QED
                BY <1>3, <4>2, <4>3
        <3>2. CASE m = 0
            BY <1>1, <1>3, <1>4, <1>7, <2>2, <3>2, SMTT(40)
        <3> QED
            BY <3>1, <3>2
    <2>3. CASE \E b \in DOMAIN heap : /\ b # Back /\ Holds(heap, b, i) /\ c = heap[b].value[i]
        <3>1. PICK b \in DOMAIN heap : b # Back /\ Holds(heap, b, i) /\ c = heap[b].value[i]
            BY <2>3
        <3>2. c \in DOMAIN heap \ {1} /\ heap[c].kind # "gone"
            BY <3>1 DEF Sound
        <3>3. \A k \in 1..m : old[k] # c
            BY <1>4, <1>5, <3>1 DEF Sound
        <3> QED
            BY <1>1, <1>3, <1>7, <3>2, <3>3, SMTT(40)
    <2> QED
        BY <1>1, <1>2, <1>4, <1>5, <1>9, <2>1, <2>2, <2>3, EmplacedPointers
<1>10. ASSUME NEW a, NEW b, NEW i, NEW j, Holds(h, a, i), Holds(h, b, j), h[a].value[i] = h[b].value[j]
       PROVE  a = b /\ i = j
    <2> DEFINE New(x, l) == x = Back /\ l = Len(old) + 1 /\ h[x].value[l] = n + m + 1
               Other(x, l) == /\ x = Back /\ l \in 1..Len(old) /\ Holds(heap, Back, l)
                              /\ h[x].value[l] = IF m # 0 THEN n + l ELSE old[l]
               Moved(x, l) == \E k \in 1..m : /\ x = n + k /\ Holds(heap, Back, k) /\ Holds(heap, old[k], l)
                                              /\ h[x].value[l] = heap[old[k]].value[l]
               Old(x, l) == /\ x \in 1..n /\ x # Back /\ Holds(heap, x, l) /\ h[x].value[l] = heap[x].value[l]
                            /\ \A k \in 1..m : old[k] # x
    <2>0. \A x, y, l, p : Holds(heap, x, l) /\ Holds(heap, y, p) /\ heap[x].value[l] = heap[y].value[p]
            => x = y /\ l = p
        BY DEF Sound
    <2>1. ASSUME NEW x, NEW l, Holds(h, x, l)
          PROVE  New(x, l) \/ Other(x, l) \/ Moved(x, l) \/ Old(x, l)
        BY <1>2, <2>1, EmplacedPointers
    <2>2. ASSUME NEW x, NEW l, Moved(x, l) \/ Old(x, l)
          PROVE  \E y : /\ y # Back /\ Holds(heap, y, l) /\ h[x].value[l] = heap[y].value[l]
                        /\ h[x].value[l] \in 1..n
        <3>1. \A y : Holds(heap, y, l) => heap[y].value[l] \in 1..n
            BY <1>1 DEF Sound
        <3> QED
            BY <1>4, <1>5, <2>2, <3>1
    <2>3. \A x, l : Other(x, l) => h[x].value[l] \in 1..(n + m) /\ (m # 0 => h[x].value[l] > n)
        BY <1>1, <1>3, <1>4
    <2>4. ASSUME NEW x, NEW l, Holds(h, x, l), h[x].value[l] = n + m + 1
          PROVE  New(x, l)
        <3>1. n + m + 1 \notin 1..(n + m) /\ n + m + 1 \notin 1..n
            BY <1>1, <1>3
        <3>2. ~Other(x, l)
            BY <2>3, <2>4, <3>1
        <3>3. ~(Moved(x, l) \/ Old(x, l))
            <4> HIDE DEF Moved, Old
            <4> QED
                BY <2>2, <2>4, <3>1
        <3> HIDE DEF New, Other, Moved, Old
        <3> QED
            BY <2>1, <2>4, <3>2, <3>3
    <2>5. ASSUME New(a, i) \/ New(b, j)
          PROVE  a = b /\ i = j
        <3>1. h[a].value[i] = n + m + 1 /\ h[b].value[j] = n + m + 1
            BY <1>10, <2>5
        <3>2. New(a, i) /\ New(b, j)
            <4> HIDE DEF New
            <4> QED
                BY <1>10, <2>4, <3>1
        <3> QED
            BY <3>2
    <2>6. ASSUME Other(a, i), Other(b, j)
          PROVE  a = b /\ i = j
        <3>1. CASE m # 0
            BY <1>1, <1>10, <2>6, <3>1
        <3>2. CASE m = 0
            BY <1>10, <2>6, <3>2 DEF Sound
        <3> QED
            BY <3>1, <3>2
    <2>7. ASSUME NEW x, NEW y, NEW l, NEW p, Other(x, l), Moved(y, p) \/ Old(y, p)
          PROVE  h[x].value[l] # h[y].value[p]
        <3>1. PICK z : /\ z # Back /\ Holds(heap, z, p) /\ h[y].value[p] = heap[z].value[p]
                       /\ h[y].value[p] \in 1..n
            BY <2>2, <2>7
        <3>2. CASE m # 0
            BY <1>1, <2>3, <2>7, <3>1, <3>2
        <3>3. CASE m = 0
            BY <2>7, <3>1, <3>3 DEF Sound
        <3> QED
            BY <3>2, <3>3
    <2>8. ASSUME Moved(a, i), Moved(b, j)
          PROVE  a = b /\ i = j
        <3>1. PICK k \in 1..m : /\ a = n + k /\ Holds(heap, Back, k) /\ Holds(heap, old[k], i)
                                /\ h[a].value[i] = heap[old[k]].value[i]
            BY <2>8
        <3>2. PICK l \in 1..m : /\ b = n + l /\ Holds(heap, Back, l) /\ Holds(heap, old[l], j)
                                /\ h[b].value[j] = heap[old[l]].value[j]
            BY <2>8
        <3> HIDE DEF New, Other, Moved, Old
        <3>3. heap[old[k]].value[i] = heap[old[l]].value[j]
            BY <1>10, <3>1, <3>2
        <3>4. old[k] = old[l] /\ i = j
            BY <2>0, <3>1, <3>2, <3>3
        <3>5. k = l
            BY <1>1, <2>0, <3>1, <3>2, <3>4
        <3> QED
            BY <3>1, <3>2, <3>4, <3>5
    <2>9. ASSUME NEW x, NEW y, NEW l, NEW p, Moved(x, l), Old(y, p)
          PROVE  h[x].value[l] # h[y].value[p]
        <3>1. PICK k \in 1..m : /\ x = n + k /\ Holds(heap, Back, k) /\ Holds(heap, old[k], l)
                                /\ h[x].value[l] = heap[old[k]].value[l]
            BY <2>9
        <3> QED
            BY <2>9, <3>1 DEF Sound
    <2>10. ASSUME Old(a, i), Old(b, j)
           PROVE  a = b /\ i = j
        BY <1>10, <2>10 DEF Sound
    <2> HIDE DEF New, Other, Moved, Old
    <2> QED
        BY <1>10, <2>1, <2>5, <2>6, <2>7, <2>8, <2>9, <2>10
<1>11. IsSequence(h)
    BY DEF Emplaced
<1> QED
    BY <1>3, <1>6, <1>9, <1>10, <1>11 DEF Sound


\* What an operation must leave of the heap for ref_stack to stay a path in h.
Follows(h) ==
    /\ DOMAIN heap \subseteq DOMAIN h
    /\ \A i \in 1..Len(refStack) : h[refStack[i]].kind = heap[refStack[i]].kind
    /\ \A i \in 1..(Len(refStack) - 1) : Points(h, refStack[i], refStack[i + 1])

LEMMA EmplaceFollows ==
    ASSUME Sound(heap), Path, refStack # <<>>, heap[Back].kind = "array",
           NEW v, Childless(v), NEW m, NEW h, Emplaced(h, v, m)
    PROVE  /\ Follows(h) /\ h[Len(h)] = v /\ Points(h, Back, Len(h))
           /\ Len(h) \in DOMAIN h \ DOMAIN heap
<1> DEFINE old == heap[Back].value
           n == Len(heap)
<1>1. n \in Nat /\ Len(old) \in Nat /\ DOMAIN heap = 1..n /\ DOMAIN old = 1..Len(old)
    <2>1. Back \in DOMAIN heap
        BY DEF Path, Back
    <2> QED
        BY <2>1 DEF Sound, IsSequence
<1>2. m \in {0, Len(old)} /\ m \in Nat /\ DOMAIN h = 1..(n + m + 1) /\ Len(h) = n + m + 1
    BY <1>1 DEF Emplaced, IsSequence
<1>3. Len(refStack) \in Nat /\ Back = refStack[Len(refStack)] /\ Len(refStack) > 0
    BY DEF Path, Back
<1>4. ASSUME NEW i \in 1..(Len(refStack) - 1) PROVE h[refStack[i]] = heap[refStack[i]]
    <2>1. i \in 1..Len(refStack) /\ Len(refStack) \in 1..Len(refStack) /\ i # Len(refStack)
        BY <1>3
    <2>2. refStack[i] # Back /\ refStack[i] \in 1..n
        BY <1>1, <1>3, <2>1 DEF Path
    <2>3. ~Points(heap, Back, refStack[i])
        BY <2>1, TopIsLast
    <2>4. \A k \in 1..m : old[k] # refStack[i]
        <3>1. \A k \in 1..m : Holds(heap, Back, k)
            BY <1>1, <1>2, <1>3 DEF Holds, Path
        <3> QED
            BY <2>3, <3>1 DEF Points
    <2> QED
        BY <2>2, <2>4 DEF Emplaced
<1>5. \A i \in 1..Len(refStack) : h[refStack[i]].kind = heap[refStack[i]].kind
    <2>1. h[Back].kind = "array"
        BY DEF Emplaced
    <2>2. \A i \in 1..Len(refStack) : i = Len(refStack) \/ i \in 1..(Len(refStack) - 1)
        BY <1>3
    <2> QED
        BY <1>3, <1>4, <2>1, <2>2
<1>6. ASSUME NEW i \in 1..(Len(refStack) - 1) PROVE Points(h, refStack[i], refStack[i + 1])
    <2>1. Points(heap, refStack[i], refStack[i + 1])
        BY DEF Path
    <2> QED
        BY <1>1, <1>2, <1>4, <2>1 DEF Points, Holds
<1>7. Points(h, Back, Len(h))
    <2>1. h[Back].kind = "array" /\ Len(old) + 1 \in DOMAIN h[Back].value
          /\ h[Back].value[Len(old) + 1] = Len(h)
        BY <1>1, <1>2 DEF Emplaced, IsSequence
    <2>2. Back \in DOMAIN h
        BY <1>1, <1>2, <1>3 DEF Path
    <2> QED
        BY <2>1, <2>2 DEF Points, Holds
<1>8. h[Len(h)] = v /\ Len(h) \in DOMAIN h \ DOMAIN heap /\ DOMAIN heap \subseteq DOMAIN h
    BY <1>1, <1>2 DEF Emplaced
<1> QED
    BY <1>5, <1>6, <1>7, <1>8 DEF Follows

LEMMA AssignKeepsHeapSound ==
    ASSUME Sound(heap), NEW t \in DOMAIN heap, NEW v, Childless(v)
    PROVE  Sound([heap EXCEPT ![t] = v])
<1> DEFINE h == [heap EXCEPT ![t] = v]
<1>1. IsSequence(h) /\ Len(h) = Len(heap) /\ DOMAIN h = DOMAIN heap
    <2>1. Len(heap) \in Nat /\ DOMAIN heap = 1..Len(heap) /\ h = [i \in 1..Len(heap) |-> h[i]]
        BY DEF Sound, IsSequence
    <2> QED
        BY <2>1, FunctionSequence
<1>2. h[t] = v /\ \A a \in DOMAIN heap : a # t => h[a] = heap[a]
    BY DEF Sound
<1> HIDE DEF h
<1>3. ASSUME NEW a \in DOMAIN h
      PROVE  h[a].kind \in Kinds /\ (h[a].kind = "array" => IsSequence(h[a].value))
    BY <1>1, <1>2 DEF Sound, Childless
<1>4. \A a, i : Holds(h, a, i) => a # t /\ Holds(heap, a, i) /\ h[a].value[i] = heap[a].value[i]
    BY <1>1, <1>2 DEF Holds, Childless
<1>5. \A a, i : Holds(h, a, i) => h[a].value[i] \in DOMAIN h \ {1} /\ h[h[a].value[i]].kind # "gone"
    BY <1>1, <1>2, <1>4 DEF Sound, Childless
<1>6. \A a, b, i, j : Holds(h, a, i) /\ Holds(h, b, j) /\ h[a].value[i] = h[b].value[j] => a = b /\ i = j
    BY <1>4 DEF Sound
<1>7. Sound(h)
    BY <1>1, <1>3, <1>5, <1>6 DEF Sound
<1> QED
    BY <1>7 DEF h

LEMMA AssignFollows ==
    ASSUME Sound(heap), Path, refStack # <<>>, NEW t, Points(heap, Back, t), NEW v, Childless(v)
    PROVE  /\ t \in DOMAIN heap
           /\ Follows([heap EXCEPT ![t] = v])
           /\ Points([heap EXCEPT ![t] = v], Back, t)
           /\ \A i \in 1..Len(refStack) : refStack[i] # t
<1> DEFINE h == [heap EXCEPT ![t] = v]
<1>1. t \in DOMAIN heap
    BY DEF Points, Sound
<1>2. \A i \in 1..Len(refStack) : refStack[i] # t
    BY TopIsLast
<1>3. Len(refStack) \in Nat /\ Len(refStack) > 0 /\ Back = refStack[Len(refStack)]
      /\ \A i \in 1..Len(refStack) : refStack[i] \in DOMAIN heap
    BY DEF Path, Back
<1>4. DOMAIN h = DOMAIN heap /\ \A i \in 1..Len(refStack) : h[refStack[i]] = heap[refStack[i]]
    BY <1>2, <1>3 DEF Sound, IsSequence
<1> HIDE DEF h
<1>5. ASSUME NEW i \in 1..Len(refStack), NEW c, Points(heap, refStack[i], c)
      PROVE  Points(h, refStack[i], c)
    BY <1>4, <1>5 DEF Points, Holds
<1>6. ASSUME NEW i \in 1..(Len(refStack) - 1) PROVE Points(h, refStack[i], refStack[i + 1])
    <2>1. i \in 1..Len(refStack) /\ Points(heap, refStack[i], refStack[i + 1])
        BY <1>3 DEF Path
    <2> QED
        BY <1>5, <2>1
<1>7. Points(h, Back, t)
    BY <1>3, <1>5
<1> QED
    BY <1>1, <1>2, <1>4, <1>6, <1>7 DEF Follows, h

\* The heap with a null under a key that the object at the top did not have.
WithKey(k) ==
    LET members == heap[Back].value
    IN Append([heap EXCEPT ![Back] =
           Node("object", [m \in DOMAIN members \cup {k} |->
                               IF m = k THEN Len(heap) + 1 ELSE members[m]])], Null)

LEMMA WithKeyEffect ==
    ASSUME Sound(heap), Path, refStack # <<>>, heap[Back].kind = "object",
           NEW k, k \notin DOMAIN heap[Back].value
    PROVE  LET h == WithKey(k)
               n == Len(heap)
           IN  /\ IsSequence(h) /\ Len(h) = n + 1 /\ DOMAIN heap = 1..n /\ n \in Nat /\ n > 0
               /\ h[n + 1] = Null /\ Back \in 1..n
               /\ \A a \in 1..n : a # Back => h[a] = heap[a]
               /\ h[Back].kind = "object" /\ DOMAIN h[Back].value = DOMAIN heap[Back].value \cup {k}
               /\ h[Back].value[k] = n + 1
               /\ \A i \in DOMAIN heap[Back].value : h[Back].value[i] = heap[Back].value[i]
<1> DEFINE members == heap[Back].value
           n == Len(heap)
           object == [m \in DOMAIN members \cup {k} |-> IF m = k THEN n + 1 ELSE members[m]]
           g == [heap EXCEPT ![Back] = Node("object", object)]
           h == WithKey(k)
<1>1. n \in Nat /\ DOMAIN heap = 1..n /\ n > 0 /\ Back \in 1..n
    BY DEF Sound, IsSequence, Path, Back
<1>2. DOMAIN g = 1..n /\ Len(g) = n
    BY <1>1, LenOf
<1>3. h = Append(g, Null)
    BY DEF WithKey
<1>4. h = [i \in 1..(n + 1) |-> IF i = n + 1 THEN Null ELSE g[i]]
    BY <1>1, <1>2, <1>3
<1>5. IsSequence(h) /\ Len(h) = n + 1
    <2>1. h = [i \in 1..(n + 1) |-> h[i]]
        BY <1>4
    <2> QED
        BY <1>1, <2>1, FunctionSequence
<1>6. h[n + 1] = Null /\ \A a \in 1..n : h[a] = g[a]
    BY <1>1, <1>4
<1>7. h[Back] = Node("object", object) /\ \A a \in 1..n : a # Back => h[a] = heap[a]
    BY <1>1, <1>6
<1>8. h[Back].kind = "object" /\ h[Back].value = object
    BY <1>7 DEF Node
<1> QED
    BY <1>1, <1>5, <1>6, <1>7, <1>8

LEMMA WithKeySound ==
    ASSUME Sound(heap), Path, refStack # <<>>, heap[Back].kind = "object",
           NEW k, k \notin DOMAIN heap[Back].value
    PROVE  /\ Sound(WithKey(k)) /\ Follows(WithKey(k))
           /\ Points(WithKey(k), Back, Len(heap) + 1) /\ Len(heap) + 1 \in DOMAIN WithKey(k)
<1> DEFINE n == Len(heap)
           h == WithKey(k)
<1>1. /\ IsSequence(h) /\ Len(h) = n + 1 /\ DOMAIN heap = 1..n /\ n \in Nat /\ n > 0
      /\ h[n + 1] = Null /\ Back \in 1..n
      /\ \A a \in 1..n : a # Back => h[a] = heap[a]
      /\ h[Back].kind = "object" /\ DOMAIN h[Back].value = DOMAIN heap[Back].value \cup {k}
      /\ h[Back].value[k] = n + 1
      /\ \A i \in DOMAIN heap[Back].value : h[Back].value[i] = heap[Back].value[i]
    BY WithKeyEffect
<1> HIDE DEF h
<1>2. DOMAIN h = 1..(n + 1) /\ n + 1 \notin 1..n
    BY <1>1 DEF IsSequence
<1>3. ASSUME NEW a \in DOMAIN h
      PROVE  /\ h[a].kind \in Kinds /\ (h[a].kind = "array" => IsSequence(h[a].value))
             /\ a \in 1..n => h[a].kind = heap[a].kind
    <2>1. CASE a = Back
        BY <1>1, <2>1 DEF Kinds
    <2>2. CASE a # Back /\ a \in 1..n
        BY <1>1, <2>2 DEF Sound
    <2>3. CASE a = n + 1
        BY <1>1, <2>3 DEF Null, Node, Kinds, Range, ScalarKind
    <2> QED
        BY <1>1, <1>2, <2>1, <2>2, <2>3
<1>4. ASSUME NEW a, NEW i, Holds(h, a, i)
      PROVE  \/ a = Back /\ i = k /\ h[a].value[i] = n + 1
             \/ Holds(heap, a, i) /\ h[a].value[i] = heap[a].value[i]
    <2>1. a # n + 1
        BY <1>1, <1>4 DEF Holds, Null, Node
    <2>2. a \in 1..n
        BY <1>1, <1>2, <1>4, <2>1 DEF Holds
    <2> QED
        BY <1>1, <1>4, <2>2 DEF Holds
<1>5. \A a, i : Holds(heap, a, i) => heap[a].value[i] \in 2..n /\ heap[heap[a].value[i]].kind # "gone"
    BY <1>1 DEF Sound
<1>6. ASSUME NEW a, NEW i, Holds(h, a, i)
      PROVE  h[a].value[i] \in DOMAIN h \ {1} /\ h[h[a].value[i]].kind # "gone"
    <2>1. CASE h[a].value[i] = n + 1
        BY <1>1, <1>2, <2>1 DEF Null, Node
    <2>2. CASE Holds(heap, a, i) /\ h[a].value[i] = heap[a].value[i]
        <3>1. h[a].value[i] \in 2..n /\ heap[h[a].value[i]].kind # "gone"
            BY <1>5, <2>2
        <3>2. h[a].value[i] \in 1..n /\ h[a].value[i] \in DOMAIN h /\ h[a].value[i] # 1
            BY <1>1, <1>2, <3>1
        <3> QED
            BY <1>3, <3>1, <3>2
    <2> QED
        BY <1>4, <1>6, <2>1, <2>2
<1>7. ASSUME NEW a, NEW b, NEW i, NEW j, Holds(h, a, i), Holds(h, b, j), h[a].value[i] = h[b].value[j]
      PROVE  a = b /\ i = j
    <2>1. \A x, l : Holds(heap, x, l) => heap[x].value[l] # n + 1
        BY <1>1, <1>5
    <2>2. CASE h[a].value[i] = n + 1
        <3>1. a = Back /\ i = k
            BY <1>4, <1>7, <2>1, <2>2
        <3>2. b = Back /\ j = k
            BY <1>4, <1>7, <2>1, <2>2
        <3> QED
            BY <3>1, <3>2
    <2>3. CASE h[a].value[i] # n + 1
        <3>1. Holds(heap, a, i) /\ h[a].value[i] = heap[a].value[i]
            BY <1>4, <1>7, <2>3
        <3>2. Holds(heap, b, j) /\ h[b].value[j] = heap[b].value[j]
            BY <1>4, <1>7, <2>3
        <3> QED
            BY <1>7, <3>1, <3>2 DEF Sound
    <2> QED
        BY <2>2, <2>3
<1>8. Sound(h)
    BY <1>1, <1>3, <1>6, <1>7 DEF Sound
<1>9. \A a, c : Points(heap, a, c) => Points(h, a, c)
    <2>1. ASSUME NEW a, NEW i, Holds(heap, a, i)
          PROVE  Holds(h, a, i) /\ h[a].value[i] = heap[a].value[i]
        <3>1. a \in 1..n /\ a \in DOMAIN h
            BY <1>1, <1>2, <2>1 DEF Holds
        <3>2. CASE a = Back
            BY <1>1, <2>1, <3>1, <3>2 DEF Holds
        <3>3. CASE a # Back
            BY <1>1, <2>1, <3>1, <3>3 DEF Holds
        <3> QED
            BY <3>2, <3>3
    <2> QED
        BY <2>1 DEF Points
<1>10. Follows(h)
    <2>1. \A i \in 1..Len(refStack) : refStack[i] \in 1..n
        BY <1>1 DEF Path
    <2> QED
        BY <1>1, <1>2, <1>3, <1>9, <2>1 DEF Follows, Path
<1>11. Points(h, Back, n + 1)
    BY <1>1, <1>2 DEF Points, Holds
<1> QED
    BY <1>2, <1>8, <1>10, <1>11 DEF h


-----------------------------------------------------------------------------
(* What they do with ref_stack                                             *)

LEMMA PathStays ==
    ASSUME Path, Follows(heap'), refStack' = refStack
    PROVE  Path'
BY DEF Path, Follows, Kind

LEMMA PathGrows ==
    ASSUME Path, Follows(heap'), NEW c, c \in DOMAIN heap', heap'[c].kind \in {"array", "object"},
           \A i \in 1..Len(refStack) : refStack[i] # c,
           refStack = <<>> => c = 1,
           refStack # <<>> => Points(heap', Back, c),
           refStack' = Append(refStack, c)
    PROVE  Path'
<1> DEFINE n == Len(refStack)
<1>1. n \in Nat /\ refStack \in Seq(DOMAIN heap')
    BY DEF Path, Follows
<1>2. refStack' \in Seq(DOMAIN heap') /\ Len(refStack') = n + 1 /\ refStack'[n + 1] = c
      /\ \A i \in 1..n : refStack'[i] = refStack[i]
    BY <1>1
<1>3. \A i \in 1..(n + 1) : heap'[refStack'[i]].kind \in {"array", "object"}
    <2>1. \A i \in 1..n : heap'[refStack'[i]].kind \in {"array", "object"}
        BY <1>2 DEF Path, Follows, Kind
    <2>2. \A i \in 1..(n + 1) : i = n + 1 \/ i \in 1..n
        BY <1>1
    <2> QED
        BY <1>2, <2>1, <2>2
<1>4. refStack'[1] = 1
    <2>1. CASE n = 0
        BY <1>1, <1>2, <2>1
    <2>2. CASE n # 0
        <3>1. 1 \in 1..n /\ refStack # <<>>
            BY <1>1, <2>2
        <3> QED
            BY <1>2, <3>1 DEF Path
    <2> QED
        BY <2>1, <2>2
<1>5. ASSUME NEW i \in 1..n PROVE Points(heap', refStack'[i], refStack'[i + 1])
    <2>1. CASE i = n
        <3>1. refStack # <<>> /\ refStack[n] = Back
            BY <1>1, <2>1 DEF Back
        <3> QED
            BY <1>2, <2>1, <3>1
    <2>2. CASE i # n
        <3>1. i \in 1..(n - 1) /\ i + 1 \in 1..n
            BY <1>1, <2>2
        <3> QED
            BY <1>2, <3>1 DEF Follows
    <2> QED
        BY <2>1, <2>2
<1>6. ASSUME NEW i \in 1..(n + 1), NEW j \in 1..(n + 1), refStack'[i] = refStack'[j] PROVE i = j
    <2>1. i = n + 1 \/ i \in 1..n
        BY <1>1
    <2>2. j = n + 1 \/ j \in 1..n
        BY <1>1
    <2> QED
        BY <1>2, <1>6, <2>1, <2>2 DEF Path
<1>7. Len(refStack') - 1 = n
    BY <1>1, <1>2
<1> QED
    BY <1>2, <1>3, <1>4, <1>5, <1>6, <1>7 DEF Path, Kind

LEMMA PathShrinks ==
    ASSUME Path, refStack # <<>>, End
    PROVE  /\ Path' /\ Len(refStack') = Len(refStack) - 1
           /\ \A i \in 1..Len(refStack') : refStack'[i] = refStack[i]
<1> DEFINE n == Len(refStack)
<1>1. n \in Nat /\ n > 0 /\ refStack \in Seq(DOMAIN heap)
    BY DEF Path
<1>2. refStack' \in Seq(DOMAIN heap) /\ Len(refStack') = n - 1 /\ \A i \in 1..(n - 1) : refStack'[i] = refStack[i]
    <2>1. refStack' = SubSeq(refStack, 1, n - 1)
        BY DEF End
    <2>2. 1 \in 1..(n + 1) /\ n - 1 \in 0..n
        BY <1>1
    <2>3. \A i \in 1..(n - 1) : i \in 1..n
        BY <1>1
    <2>4. \A i \in 1..(n - 1) : refStack[i] \in DOMAIN heap
        BY <1>1, <2>3
    <2>5. refStack' = [i \in 1..(n - 1) |-> refStack[i]]
        BY <1>1, <2>1
    <2>6. n - 1 \in Nat /\ DOMAIN refStack' = 1..(n - 1)
        BY <1>1, <2>5
    <2> QED
        BY <2>4, <2>5, <2>6, LenOf
<1>3. \A i \in 1..(n - 1) : i \in 1..n
    BY <1>1
<1>4. heap' = heap
    BY DEF End
<1>5. refStack' # <<>> => refStack'[1] = 1
    BY <1>1, <1>2 DEF Path
<1>6. \A i \in 1..(n - 1) : heap[refStack[i]].kind \in {"array", "object"}
    BY <1>3 DEF Path, Kind
<1>7. ASSUME NEW i \in 1..(Len(refStack') - 1) PROVE Points(heap, refStack'[i], refStack'[i + 1])
    <2>1. i \in 1..(n - 1) /\ i + 1 \in 1..(n - 1)
        BY <1>1, <1>2
    <2> QED
        BY <1>2, <2>1 DEF Path
<1>8. ASSUME NEW i \in 1..(n - 1), NEW j \in 1..(n - 1), refStack'[i] = refStack'[j] PROVE i = j
    BY <1>2, <1>3, <1>8 DEF Path
<1> QED
    BY <1>2, <1>4, <1>5, <1>6, <1>7, <1>8 DEF Path, Kind

-----------------------------------------------------------------------------
(* The steps of the parser                                                 *)

LEMMA ValueIsHandled ==
    ASSUME Builder, parseAt = "value", NEW v, Childless(v), HandleValue(v)
    PROVE  /\ Sound(heap') /\ Follows(heap') /\ Handled \in DOMAIN heap' /\ heap'[Handled] = v
           /\ \A i \in 1..Len(refStack) : refStack[i] # Handled
           /\ refStack = <<>> => Handled = 1
           /\ refStack # <<>> => Points(heap', Back, Handled)
<1>1. Sound(heap) /\ Path /\ Len(heap) > 0 /\ Len(heap) \in Nat /\ DOMAIN heap = 1..Len(heap)
    BY DEF Builder, Sound, IsSequence
<1>2. CASE refStack = <<>>
    <2>1. heap' = [heap EXCEPT ![1] = v] /\ Handled = 1 /\ 1 \in DOMAIN heap
        BY <1>1, <1>2 DEF HandleValue, Handled, InArray, Target
    <2>2. Sound(heap')
        BY <1>1, <2>1, AssignKeepsHeapSound
    <2>3. heap'[1] = v /\ DOMAIN heap' = DOMAIN heap
        BY <1>1, <2>1
    <2>4. Len(refStack) = 0
        BY <1>2
    <2>5. Follows(heap')
        BY <2>3, <2>4 DEF Follows
    <2> QED
        BY <1>2, <2>1, <2>2, <2>3, <2>4, <2>5
<1>3. CASE refStack # <<>> /\ heap[Back].kind = "array"
    <2>1. heap' = EmplaceBack(v) /\ Handled = Len(heap')
        BY <1>3 DEF HandleValue, Handled, InArray
    <2>2. Back \in DOMAIN heap /\ \A i \in 1..Len(refStack) : refStack[i] \in DOMAIN heap
        BY <1>1, <1>3 DEF Path, Back
    <2>3. PICK m : Emplaced(heap', v, m)
        BY <1>1, <1>3, <2>1, <2>2, EmplaceBackEffect
    <2>4. Sound(heap')
        BY <1>1, <1>3, <2>3, EmplaceKeepsHeapSound
    <2>5. /\ Follows(heap') /\ heap'[Len(heap')] = v /\ Points(heap', Back, Len(heap'))
          /\ Len(heap') \in DOMAIN heap' \ DOMAIN heap
        BY <1>1, <1>3, <2>3, EmplaceFollows
    <2> QED
        BY <1>3, <2>1, <2>2, <2>4, <2>5
<1>4. CASE refStack # <<>> /\ heap[Back].kind # "array"
    <2>1. heap' = [heap EXCEPT ![objectElement] = v] /\ Handled = objectElement
        BY <1>4 DEF HandleValue, Handled, InArray, Target
    <2>2. heap[Back].kind = "object" /\ Kind(Len(refStack)) = "object"
        BY <1>1, <1>4 DEF Path, Back, Kind
    <2>3. Points(heap, Back, objectElement)
        BY <1>4, <2>2 DEF Builder, MemberIsSet
    <2>4. /\ objectElement \in DOMAIN heap /\ Follows(heap') /\ Points(heap', Back, objectElement)
          /\ \A i \in 1..Len(refStack) : refStack[i] # objectElement
        BY <1>1, <1>4, <2>1, <2>3, AssignFollows
    <2>5. Sound(heap')
        BY <1>1, <2>1, <2>4, AssignKeepsHeapSound
    <2>6. heap'[objectElement] = v /\ objectElement \in DOMAIN heap'
        BY <1>1, <2>1, <2>4
    <2> QED
        BY <1>4, <2>1, <2>4, <2>5, <2>6
<1> QED
    BY <1>2, <1>3, <1>4

LEMMA InsideAfterValue ==
    ASSUME NEW st \in Seq({"array", "object"}), AfterValue(st), Len(refStack') = Len(st),
           \A i \in 1..Len(st) : heap'[refStack'[i]].kind = st[i]
    PROVE  Inside' /\ MemberIsSet'
<1>1. states' = st /\ parseAt' \in {"strict", "arrayNext", "objectNext"}
    BY DEF AfterValue
<1>2. parseAt' = "arrayNext" => st # <<>> /\ st[Len(st)] = "array"
    BY DEF AfterValue
<1>3. parseAt' = "objectNext" => st # <<>> /\ st[Len(st)] = "object"
    <2>1. st # <<>> => st[Len(st)] \in {"array", "object"}
        OBVIOUS
    <2> QED
        BY <2>1 DEF AfterValue
<1>4. parseAt' \in Places /\ ~Opening' /\ ~Failed'
    BY <1>1 DEF Places, Expected, Opening, Failed
<1> QED
    BY <1>1, <1>2, <1>3, <1>4 DEF Inside, MemberIsSet, Kind

LEMMA Starts ==
    ASSUME Builder, parseAt = "value", NEW v, Childless(v), v.kind \in {"array", "object"}, Start(v),
           UNCHANGED states, parseAt' = v.kind
    PROVE  Builder'
<1>1. Sound(heap) /\ Path /\ HandleValue(v) /\ refStack' = Append(refStack, Handled) /\ objectElement' = objectElement
    BY DEF Start, Builder
<1>2. /\ Sound(heap') /\ Follows(heap') /\ Handled \in DOMAIN heap' /\ heap'[Handled] = v
      /\ \A i \in 1..Len(refStack) : refStack[i] # Handled
      /\ refStack = <<>> => Handled = 1
      /\ refStack # <<>> => Points(heap', Back, Handled)
    BY <1>1, ValueIsHandled
<1>3. Path'
    BY <1>1, <1>2, PathGrows
<1>4. Len(refStack) = Len(states) /\ states \in Seq({"array", "object"}) /\ \A i \in 1..Len(states) : Kind(i) = states[i]
    BY DEF Builder, Inside, Failed, Opening
<1>5. /\ Len(refStack') = Len(states) + 1 /\ refStack'[Len(states) + 1] = Handled
      /\ \A i \in 1..Len(states) : refStack'[i] = refStack[i]
    BY <1>1, <1>4 DEF Path
<1>6. heap'[refStack'[Len(refStack')]].kind = v.kind
    BY <1>2, <1>5
<1>7. \A i \in 1..Len(states) : heap'[refStack'[i]].kind = states[i]
    BY <1>2, <1>4, <1>5 DEF Follows, Kind
<1>8. Inside'
    BY <1>4, <1>5, <1>6, <1>7 DEF Inside, Kind, Places, Expected, Opening, Failed
<1>9. MemberIsSet'
    BY DEF MemberIsSet
<1>10. objectElement' \in {0} \cup DOMAIN heap'
    BY <1>1, <1>2 DEF Builder, Follows
<1> QED
    BY <1>2, <1>3, <1>8, <1>9, <1>10 DEF Builder

\* The innermost container ends, the parser being inside of st behind it.
LEMMA Ends ==
    ASSUME Builder, End, NEW st \in Seq({"array", "object"}), AfterValue(st), Len(refStack) = Len(st) + 1,
           \A i \in 1..Len(st) : Kind(i) = st[i]
    PROVE  Builder'
<1>1. Path /\ Len(st) \in Nat /\ refStack # <<>>
    BY DEF Builder
<1>2. /\ Path' /\ Len(refStack') = Len(refStack) - 1
      /\ \A i \in 1..Len(refStack') : refStack'[i] = refStack[i]
    BY <1>1, PathShrinks
<1>3. heap' = heap /\ objectElement' = objectElement
    BY DEF End
<1>4. Len(refStack') = Len(st)
    BY <1>1, <1>2
<1>5. \A i \in 1..Len(st) : heap'[refStack'[i]].kind = st[i]
    BY <1>2, <1>3, <1>4 DEF Kind
<1>6. Inside' /\ MemberIsSet'
    BY <1>4, <1>5, InsideAfterValue
<1> QED
    BY <1>2, <1>3, <1>6 DEF Builder

LEMMA StackIsOpen ==
    ASSUME Builder, Opening
    PROVE  /\ states \in Seq({"array", "object"}) /\ Len(refStack) = Len(states) + 1
           /\ \A i \in 1..Len(states) : Kind(i) = states[i]
           /\ refStack # <<>> /\ Kind(Len(refStack)) = IF parseAt = "array" THEN "array" ELSE "object"
<1>1. /\ states \in Seq({"array", "object"}) /\ Len(refStack) = Len(states) + 1
      /\ \A i \in 1..Len(states) : Kind(i) = states[i]
      /\ Kind(Len(refStack)) = IF parseAt = "array" THEN "array" ELSE "object"
    BY DEF Builder, Inside, Opening, Failed
<1>2. refStack # <<>>
    BY <1>1
<1> QED
    BY <1>1, <1>2

LEMMA KeyIsInObject ==
    ASSUME Builder, Key
    PROVE  refStack # <<>> /\ Kind(Len(refStack)) = "object"
<1>1. states \in Seq({"array", "object"}) /\ (parseAt = "object" \/ parseAt = "key")
    BY DEF Builder, Inside, Key, Looking
<1>2. CASE parseAt = "object"
    BY <1>2, StackIsOpen DEF Opening
<1>3. CASE parseAt = "key"
    <2>1. Len(refStack) = Len(states) /\ states # <<>> /\ states[Len(states)] = "object"
          /\ \A i \in 1..Len(states) : Kind(i) = states[i]
        BY <1>3 DEF Builder, Inside, Opening, Failed
    <2>2. Len(states) \in 1..Len(states) /\ refStack # <<>>
        BY <1>1, <2>1
    <2> QED
        BY <2>1, <2>2
<1> QED
    BY <1>1, <1>2, <1>3

LEMMA KeyIsSet ==
    ASSUME Builder, Key
    PROVE  Builder'
<1>1. Sound(heap) /\ Path /\ states \in Seq({"array", "object"})
    BY DEF Builder, Inside
<1>2. UNCHANGED <<states, refStack>> /\ SetKey(lex.buffer)
      /\ ((parseAt = "object" /\ parseAt' = "firstColon") \/ (parseAt = "key" /\ parseAt' = "nextColon"))
    BY DEF Key, Looking
<1>3. refStack # <<>> /\ Kind(Len(refStack)) = "object"
    BY KeyIsInObject
<1>4. heap[Back].kind = "object" /\ Back \in DOMAIN heap
    BY <1>1, <1>3 DEF Kind, Back, Path
<1> DEFINE members == heap[Back].value
<1>5. Sound(heap') /\ Follows(heap') /\ Points(heap', Back, objectElement') /\ objectElement' \in DOMAIN heap'
    <2>1. CASE lex.buffer \in DOMAIN members
        <3>1. objectElement' = members[lex.buffer] /\ heap' = heap
            BY <1>2, <2>1 DEF SetKey
        <3>2. Holds(heap, Back, lex.buffer)
            BY <1>4, <2>1 DEF Holds
        <3>3. Points(heap, Back, objectElement') /\ objectElement' \in DOMAIN heap
            BY <1>1, <3>1, <3>2 DEF Points, Sound
        <3>4. Follows(heap)
            BY <1>1 DEF Follows, Path
        <3> QED
            BY <1>1, <3>1, <3>3, <3>4
    <2>2. CASE lex.buffer \notin DOMAIN members
        <3>1. objectElement' = Len(heap) + 1 /\ heap' = WithKey(lex.buffer)
            BY <1>2, <2>2 DEF SetKey, WithKey
        <3> QED
            BY <1>1, <1>3, <1>4, <2>2, <3>1, WithKeySound
    <2> QED
        BY <2>1, <2>2
<1>6. Path'
    BY <1>1, <1>2, <1>5, PathStays
<1>7. MemberIsSet'
    BY <1>2, <1>5 DEF MemberIsSet, Back
<1>8. Len(states) <= Len(refStack) /\ \A i \in 1..Len(refStack) : heap'[refStack'[i]].kind = heap[refStack[i]].kind
    BY <1>2, <1>5 DEF Builder, Inside, Follows
<1>9. Len(refStack) \in Nat /\ Len(refStack) > 0 /\ Len(states) \in Nat
    BY <1>1, <1>3 DEF Path
<1>10. \A i \in 1..Len(states) : heap'[refStack'[i]].kind = states[i]
    <2>1. \A i \in 1..Len(states) : i \in 1..Len(refStack)
        BY <1>8, <1>9
    <2> QED
        BY <1>8, <2>1 DEF Builder, Inside, Kind
<1>11. heap'[refStack'[Len(refStack')]].kind = "object"
    BY <1>2, <1>3, <1>8, <1>9 DEF Kind
<1>12. Len(refStack') = Len(states') + IF Opening' THEN 1 ELSE 0
    BY <1>2 DEF Builder, Inside, Opening, Failed
<1>13. parseAt' = "nextColon" => states # <<>> /\ states[Len(states)] = "object"
    BY <1>2 DEF Builder, Inside
<1>14. Inside'
    BY <1>1, <1>2, <1>8, <1>10, <1>11, <1>12, <1>13 DEF Inside, Kind, Places, Expected, Failed
<1> QED
    BY <1>5, <1>6, <1>7, <1>14 DEF Builder


\* A step of the parser that leaves the builder alone.
LEMMA BuilderWaits ==
    ASSUME Builder, UNCHANGED <<heap, refStack, objectElement>>, Inside', MemberIsSet'
    PROVE  Builder'
BY DEF Builder, Path, Kind

LEMMA FirstColonBuilds ==
    ASSUME Builder, FirstColon
    PROVE  Builder'
<1>1. /\ parseAt = "firstColon" /\ parseAt' = "value" /\ states' = Append(states, "object")
      /\ UNCHANGED <<heap, refStack, objectElement>>
    BY DEF FirstColon, Looking
<1>2. /\ states \in Seq({"array", "object"}) /\ Len(refStack) = Len(states) + 1
      /\ \A i \in 1..Len(states) : Kind(i) = states[i]
      /\ refStack # <<>> /\ Kind(Len(refStack)) = "object"
    BY <1>1, StackIsOpen DEF Opening
<1>3. Len(states') = Len(states) + 1 /\ states' \in Seq({"array", "object"})
      /\ states'[Len(states) + 1] = "object" /\ \A i \in 1..Len(states) : states'[i] = states[i]
    BY <1>1, <1>2
<1>4. \A i \in 1..Len(states') : Kind(i) = states'[i]
    <2>1. \A i \in 1..Len(states') : i = Len(states) + 1 \/ i \in 1..Len(states)
        BY <1>2, <1>3
    <2> QED
        BY <1>2, <1>3, <2>1
<1>5. Inside'
    BY <1>1, <1>2, <1>3, <1>4 DEF Inside, Kind, Places, Expected, Opening, Failed
<1>6. MemberIsSet'
    BY <1>1 DEF Builder, MemberIsSet, Kind, Back
<1> QED
    BY <1>1, <1>5, <1>6, BuilderWaits

LEMMA FirstElementBuilds ==
    ASSUME Builder, FirstElement
    PROVE  Builder'
<1>1. /\ parseAt = "array" /\ parseAt' = "value" /\ states' = Append(states, "array")
      /\ UNCHANGED <<heap, refStack, objectElement>>
    BY DEF FirstElement
<1>2. /\ states \in Seq({"array", "object"}) /\ Len(refStack) = Len(states) + 1
      /\ \A i \in 1..Len(states) : Kind(i) = states[i]
      /\ refStack # <<>> /\ Kind(Len(refStack)) = "array"
    BY <1>1, StackIsOpen DEF Opening
<1>3. Len(states') = Len(states) + 1 /\ states' \in Seq({"array", "object"})
      /\ states'[Len(states) + 1] = "array" /\ \A i \in 1..Len(states) : states'[i] = states[i]
    BY <1>1, <1>2
<1>4. \A i \in 1..Len(states') : Kind(i) = states'[i]
    <2>1. \A i \in 1..Len(states') : i = Len(states) + 1 \/ i \in 1..Len(states)
        BY <1>2, <1>3
    <2> QED
        BY <1>2, <1>3, <2>1
<1>5. Inside'
    BY <1>1, <1>2, <1>3, <1>4 DEF Inside, Kind, Places, Expected, Opening, Failed
<1>6. MemberIsSet'
    BY <1>1, <1>2 DEF MemberIsSet, Kind
<1> QED
    BY <1>1, <1>5, <1>6, BuilderWaits

LEMMA SeparatorBuilds ==
    ASSUME Builder, NextColon \/ NextElement \/ NextMember
    PROVE  Builder'
<1>1. /\ UNCHANGED <<states, heap, refStack, objectElement>>
      /\ \/ parseAt = "nextColon" /\ parseAt' = "value"
         \/ parseAt = "arrayNext" /\ parseAt' = "value"
         \/ parseAt = "objectNext" /\ parseAt' = "key"
    BY DEF NextColon, NextElement, NextMember, Looking
<1>2. Inside'
    BY <1>1 DEF Builder, Inside, Kind, Places, Expected, Opening, Failed
<1>3. CASE parseAt = "arrayNext"
    <2>1. Len(refStack) = Len(states) /\ states # <<>> /\ states[Len(states)] = "array"
          /\ states \in Seq({"array", "object"}) /\ \A i \in 1..Len(states) : Kind(i) = states[i]
        BY <1>3 DEF Builder, Inside, Opening, Failed
    <2>2. Len(states) \in 1..Len(states)
        BY <2>1
    <2>3. Kind(Len(refStack)) = "array"
        BY <2>1, <2>2
    <2>4. MemberIsSet'
        BY <1>1, <2>3 DEF MemberIsSet, Kind
    <2> QED
        BY <1>1, <1>2, <2>4, BuilderWaits
<1>4. CASE parseAt # "arrayNext"
    <2>1. MemberIsSet'
        BY <1>1, <1>4 DEF Builder, MemberIsSet, Kind, Back
    <2> QED
        BY <1>1, <1>2, <2>1, BuilderWaits
<1> QED
    BY <1>3, <1>4

LEMMA EndOfParseBuilds ==
    ASSUME Builder, Accept \/ Unexpected \/ NumberOverflow
    PROVE  Builder'
<1>1. /\ UNCHANGED <<states, heap, refStack, objectElement>>
      /\ \/ parseAt = "strict" /\ parseAt' = "accepted"
         \/ parseAt' \in {"parse_error", "out_of_range"}
    BY DEF Accept, Unexpected, NumberOverflow, Looking
<1>2. Inside'
    BY <1>1 DEF Builder, Inside, Kind, Places, Expected, Opening, Failed
<1>3. MemberIsSet'
    BY <1>1 DEF MemberIsSet
<1> QED
    BY <1>1, <1>2, <1>3, BuilderWaits

LEMMA ScalarBuilds ==
    ASSUME Builder, Scalar
    PROVE  Builder'
<1>1. /\ parseAt = "value" /\ token \in DOMAIN ScalarKind
      /\ HandleValue(Node(ScalarKind[token], TokenValue))
      /\ UNCHANGED <<refStack, objectElement>> /\ AfterValue(states)
    BY DEF Scalar
<1> DEFINE v == Node(ScalarKind[token], TokenValue)
<1>2. Childless(v)
    <2>1. ScalarKind[token] \in Range(ScalarKind) /\ ScalarKind[token] \notin {"array", "object", "gone"}
        BY <1>1 DEF ScalarKind, Range
    <2>2. v.kind = ScalarKind[token]
        BY DEF Node
    <2> QED
        BY <2>1, <2>2 DEF Childless, Kinds
<1>3. Sound(heap') /\ Follows(heap')
    <2> HIDE DEF v
    <2> QED
        BY <1>1, <1>2, ValueIsHandled DEF v
<1>4. Path'
    BY <1>1, <1>3, PathStays DEF Builder
<1>5. states \in Seq({"array", "object"}) /\ Len(refStack) = Len(states)
      /\ \A i \in 1..Len(states) : Kind(i) = states[i]
    BY <1>1 DEF Builder, Inside, Opening, Failed
<1>6. \A i \in 1..Len(states) : heap'[refStack'[i]].kind = states[i]
    BY <1>1, <1>3, <1>5 DEF Follows, Kind
<1>7. Inside' /\ MemberIsSet'
    BY <1>1, <1>5, <1>6, InsideAfterValue
<1>8. objectElement' \in {0} \cup DOMAIN heap'
    BY <1>1, <1>3 DEF Builder, Follows
<1> QED
    BY <1>3, <1>4, <1>7, <1>8 DEF Builder

LEMMA BeginBuilds ==
    ASSUME Builder, BeginObject \/ BeginArray
    PROVE  Builder'
<1>1. CASE BeginObject
    <2> DEFINE v == Node("object", [k \in {} |-> 0])
    <2>1. parseAt = "value" /\ Start(v) /\ UNCHANGED states /\ parseAt' = "object"
        BY <1>1 DEF BeginObject, Looking
    <2>2. Childless(v) /\ v.kind = "object"
        BY DEF Childless, Node, Kinds
    <2> HIDE DEF v
    <2> QED
        BY <2>1, <2>2, Starts
<1>2. CASE BeginArray
    <2> DEFINE v == Node("array", <<>>)
    <2>1. parseAt = "value" /\ Start(v) /\ UNCHANGED states /\ parseAt' = "array"
        BY <1>2 DEF BeginArray, Looking
    <2>2. IsSequence(<<>>) /\ DOMAIN <<>> = {}
        BY DEF IsSequence
    <2>3. Childless(v) /\ v.kind = "array"
        BY <2>2 DEF Childless, Node, Kinds
    <2> HIDE DEF v
    <2> QED
        BY <2>1, <2>3, Starts
<1> QED
    BY <1>1, <1>2

LEMMA EndBuilds ==
    ASSUME Builder, EmptyObject \/ EmptyArray \/ EndArray \/ EndObject
    PROVE  Builder'
<1>1. CASE EmptyObject \/ EmptyArray
    <2>1. Opening /\ End /\ AfterValue(states)
        BY <1>1 DEF EmptyObject, EmptyArray, Looking, Opening
    <2> QED
        BY <2>1, StackIsOpen, Ends
<1>2. CASE EndArray \/ EndObject
    <2> DEFINE n == Len(states)
               st == Leave(states)
    <2>1. parseAt \in {"arrayNext", "objectNext"} /\ End /\ AfterValue(st)
        BY <1>2 DEF EndArray, EndObject, Looking
    <2>2. states \in Seq({"array", "object"}) /\ states # <<>> /\ Len(refStack) = n
          /\ \A i \in 1..n : Kind(i) = states[i]
        BY <2>1 DEF Builder, Inside, Opening, Failed
    <2>3. n \in Nat /\ n > 0
        BY <2>2
    <2>4. st = [i \in 1..(n - 1) |-> states[i]]
        BY <2>2, <2>3 DEF Leave
    <2>5. \A i \in 1..(n - 1) : i \in 1..n
        BY <2>3
    <2>6. Len(st) = n - 1 /\ st \in Seq({"array", "object"})
        <3>1. n - 1 \in Nat /\ DOMAIN st = 1..(n - 1)
            BY <2>3, <2>4
        <3>2. \A i \in 1..(n - 1) : st[i] \in {"array", "object"}
            BY <2>2, <2>4, <2>5
        <3> HIDE DEF st
        <3> QED
            BY <2>4, <3>1, <3>2, LenOf
    <2>7. Len(refStack) = Len(st) + 1 /\ \A i \in 1..Len(st) : Kind(i) = st[i]
        BY <2>2, <2>3, <2>4, <2>5, <2>6
    <2> HIDE DEF st
    <2> QED
        BY <2>1, <2>6, <2>7, Ends
<1> QED
    BY <1>1, <1>2

LEMMA ParserBuilds ==
    ASSUME Builder, Parser
    PROVE  Builder'
BY BeginBuilds, EndBuilds, KeyIsSet, FirstColonBuilds, FirstElementBuilds, SeparatorBuilds,
   ScalarBuilds, EndOfParseBuilds DEF Parser


-----------------------------------------------------------------------------
(* The steps of the lexer                                                  *)

LEMMA BytesAreRead ==
    ASSUME Reading, job \in DOMAIN Jobs, NEW c \in Readable
    PROVE  c \in Bytes /\ (lex.unget \/ c = Eof \/ c \in 0..255)
<1>1. CASE lex.unget
    BY <1>1 DEF Readable, Reading, LexOK
<1>2. CASE ~lex.unget
    <2>1. Job.head \in Seq(0..255) /\ Job.more \subseteq 0..255
        BY JobsAssumption DEF Job
    <2>2. Len(text) < Len(Job.head) => Job.head[Len(text) + 1] \in 0..255
        <3> DEFINE head == Job.head
        <3> HIDE DEF head
        <3>1. head \in Seq(0..255)
            BY <2>1 DEF head
        <3>2. Len(text) \in Nat /\ Len(head) \in Nat
            BY <3>1 DEF Reading
        <3>3. Len(text) < Len(head) => Len(text) + 1 \in 1..Len(head)
            BY <3>2
        <3>4. Len(text) < Len(head) => head[Len(text) + 1] \in 0..255
            BY <3>1, <3>3, ElementOfSeq
        <3> QED
            BY <3>4 DEF head
    <2>3. c \in NextBytes
        BY <1>2 DEF Readable
    <2>4. c = Eof \/ c \in 0..255
        BY <2>1, <2>2, <2>3 DEF NextBytes
    <2> QED
        BY <2>4 DEF Bytes
<1> QED
    BY <1>1, <1>2

LEMMA GetReads ==
    ASSUME Reading, job \in DOMAIN Jobs, NEW c \in Readable, NEW l, WellFormed(l), Get(c, l)
    PROVE  Reading'
<1>1. lex' = [l EXCEPT !.current = c, !.unget = FALSE]
    BY DEF Get
<1>2. /\ lex'.at = l.at /\ lex'.left = l.left /\ lex'.current = c /\ lex'.type = l.type
      /\ DOMAIN lex' = {"at", "left", "current", "unget", "buffer", "type", "high"}
    BY <1>1 DEF WellFormed
<1>3. WellFormed(lex') /\ lex'.current \in Bytes
    BY <1>2, BytesAreRead DEF WellFormed
<1>4. text' \in Seq(0..255) /\ token' \in Tokens
    BY BytesAreRead DEF Get, Reading
<1> QED
    BY <1>3, <1>4 DEF Reading, LexOK

LEMMA UngetReads ==
    ASSUME Reading, job \in DOMAIN Jobs, NEW c \in Readable, NEW l, WellFormed(l), Unget(c, l), token' \in Tokens
    PROVE  Reading'
<1>1. lex' = [l EXCEPT !.current = c, !.unget = TRUE]
    BY DEF Unget
<1>2. /\ lex'.at = l.at /\ lex'.left = l.left /\ lex'.current = c /\ lex'.type = l.type
      /\ DOMAIN lex' = {"at", "left", "current", "unget", "buffer", "type", "high"}
    BY <1>1 DEF WellFormed
<1>3. WellFormed(lex') /\ lex'.current \in Bytes
    BY <1>2, BytesAreRead DEF WellFormed
<1>4. text' \in Seq(0..255)
    BY BytesAreRead DEF Unget, Reading
<1> QED
    BY <1>3, <1>4 DEF Reading, LexOK

LEMMA ReturnReads ==
    ASSUME Reading, job \in DOMAIN Jobs, NEW c \in Readable, NEW t \in Tokens, Return(c, t)
    PROVE  Reading'
<1>1. lex' = [lex EXCEPT !.current = c, !.unget = FALSE, !.at = "returned", !.left = <<>>]
    BY DEF Return
<1>2. /\ lex'.at = "returned" /\ lex'.current = c /\ lex'.type = lex.type
      /\ DOMAIN lex' = {"at", "left", "current", "unget", "buffer", "type", "high"}
    BY <1>1 DEF Reading, LexOK, WellFormed
<1>3. WellFormed(lex') /\ lex'.current \in Bytes
    BY <1>2, BytesAreRead DEF WellFormed, Reading, LexOK
<1>4. text' \in Seq(0..255) /\ token' \in Tokens
    BY BytesAreRead DEF Return, Reading
<1> QED
    BY <1>3, <1>4 DEF Reading, LexOK

LEMMA NamedTokens ==
    /\ {"parse_error", "end_of_input", "uninitialized", "value_string", "value_integer",
        "value_unsigned", "value_float"} \subseteq Tokens
    /\ \A c \in DOMAIN Structural : Structural[c] \in Tokens
    /\ \A c \in DOMAIN Literals : Literals[c].token \in Tokens
BY DEF Tokens, ScalarKind, Structural, Literals

LEMMA SkipBomReads == ASSUME Reading, job \in DOMAIN Jobs, SkipBom PROVE Reading'
<1>1. PICK c \in Readable :
         IF c = lex.left[1]
         THEN Get(c, [lex EXCEPT !.left = Tail(@), !.at = IF Len(lex.left) = 1 THEN "space" ELSE @])
         ELSE IF Len(lex.left) = 3 THEN Unget(c, [lex EXCEPT !.at = "space"]) /\ UNCHANGED token
         ELSE Return(c, "parse_error")
    BY DEF SkipBom
<1>2. lex.at = "bom"
    BY DEF SkipBom
<1>3. WellFormed([lex EXCEPT !.left = Tail(@), !.at = IF Len(lex.left) = 1 THEN "space" ELSE @])
    BY <1>2 DEF Reading, LexOK, WellFormed
<1>4. WellFormed([lex EXCEPT !.at = "space"])
    BY DEF Reading, LexOK, WellFormed
<1>5. token \in Tokens
    BY DEF Reading
<1> QED
    BY <1>1, <1>3, <1>4, <1>5, GetReads, UngetReads, ReturnReads, NamedTokens

LEMMA ScanReads == ASSUME Reading, job \in DOMAIN Jobs, Scan PROVE Reading'
<1>1. PICK c \in Readable :
         CASE c \in Whitespace -> Get(c, lex)
           [] c \in DOMAIN Structural -> Return(c, Structural[c])
           [] c \in DOMAIN Literals ->
                Get(c, [lex EXCEPT !.at = "literal", !.left = Literals[c].rest, !.type = Literals[c].token])
           [] c = 34 -> Get(c, [lex EXCEPT !.at = "string", !.buffer = <<>>])
           [] c = 45 -> Get(c, [lex EXCEPT !.at = "minus", !.buffer = <<c>>, !.type = "value_integer"])
           [] c = 48 -> Get(c, [lex EXCEPT !.at = "zero", !.buffer = <<c>>, !.type = "value_unsigned"])
           [] c \in 49..57 -> Get(c, [lex EXCEPT !.at = "any1", !.buffer = <<c>>, !.type = "value_unsigned"])
           [] c \in {0, Eof} -> Return(c, "end_of_input")
           [] OTHER -> Return(c, "parse_error")
    BY DEF Scan
<1>2. \A t \in Tokens : Return(c, t) => Reading'
    BY ReturnReads
<1>3. \A l : WellFormed(l) /\ Get(c, l) => Reading'
    BY GetReads
<1>4. WellFormed(lex)
    BY DEF Reading, LexOK
<1>5. c \in DOMAIN Literals =>
        WellFormed([lex EXCEPT !.at = "literal", !.left = Literals[c].rest, !.type = Literals[c].token])
    BY <1>4, NamedTokens DEF WellFormed
<1>6. WellFormed([lex EXCEPT !.at = "string", !.buffer = <<>>])
    BY <1>4 DEF WellFormed
<1>7. /\ WellFormed([lex EXCEPT !.at = "minus", !.buffer = <<c>>, !.type = "value_integer"])
      /\ WellFormed([lex EXCEPT !.at = "zero", !.buffer = <<c>>, !.type = "value_unsigned"])
      /\ WellFormed([lex EXCEPT !.at = "any1", !.buffer = <<c>>, !.type = "value_unsigned"])
    BY <1>4, NamedTokens DEF WellFormed
<1>8. c \in DOMAIN Structural => Structural[c] \in Tokens
    BY NamedTokens
<1> QED
    BY <1>1, <1>2, <1>3, <1>4, <1>5, <1>6, <1>7, <1>8, NamedTokens, Zenon

LEMMA ScanLiteralReads == ASSUME Reading, job \in DOMAIN Jobs, ScanLiteral PROVE Reading'
<1>1. PICK c \in Readable :
         IF c # lex.left[1] THEN Return(c, "parse_error")
         ELSE IF Len(lex.left) = 1 THEN Return(c, lex.type)
         ELSE Get(c, [lex EXCEPT !.left = Tail(@)])
    BY DEF ScanLiteral
<1>2. lex.at = "literal" /\ lex.type \in Tokens
    BY DEF ScanLiteral, Reading, LexOK, WellFormed
<1>3. WellFormed([lex EXCEPT !.left = Tail(@)])
    BY <1>2 DEF Reading, LexOK, WellFormed
<1> QED
    BY <1>1, <1>2, <1>3, GetReads, ReturnReads, NamedTokens

LEMMA ScanStringReads == ASSUME Reading, job \in DOMAIN Jobs, ScanString PROVE Reading'
<1>1. PICK c \in Readable :
         CASE c = 34 -> Return(c, "value_string")
           [] c = 92 -> Get(c, [lex EXCEPT !.at = "escape"])
           [] c \in Plain -> Get(c, [lex EXCEPT !.buffer = Append(@, c)])
           [] c \in 194..244 ->
                Get(c, [lex EXCEPT !.at = "tail", !.buffer = Append(@, c), !.left = TailRanges(c)])
           [] c \in Control \cup {Eof} \/ c \in 128..193 \/ c > 244 -> Return(c, "parse_error")
    BY DEF ScanString
<1>2. \A t \in Tokens : Return(c, t) => Reading'
    BY ReturnReads
<1>3. \A l : WellFormed(l) /\ Get(c, l) => Reading'
    BY GetReads
<1>4. WellFormed(lex) /\ lex.at = "string"
    BY DEF Reading, LexOK, ScanString
<1>5. WellFormed([lex EXCEPT !.at = "escape"]) /\ WellFormed([lex EXCEPT !.buffer = Append(@, c)])
    BY <1>4 DEF WellFormed
<1>6. WellFormed([lex EXCEPT !.at = "tail", !.buffer = Append(@, c), !.left = TailRanges(c)])
    <2> DEFINE q == TailRanges(c)
    <2> HIDE DEF q
    <2> QED
        BY <1>4 DEF WellFormed
<1>7. c = 34 \/ c = 92 \/ c \in Plain \/ c \in 194..244 \/ (c \in Control \cup {Eof} \/ c \in 128..193 \/ c > 244)
    BY BytesAreRead DEF Bytes, Plain, Control, Eof
<1> QED
    BY <1>1, <1>2, <1>3, <1>5, <1>6, <1>7, NamedTokens, ZenonT(40)

LEMMA ScanTailReads == ASSUME Reading, job \in DOMAIN Jobs, ScanTail PROVE Reading'
<1>1. PICK c \in Readable :
         IF c \in lex.left[1][1]..lex.left[1][2]
         THEN Get(c, [lex EXCEPT !.buffer = Append(@, c), !.left = Tail(@),
                                 !.at = IF Len(lex.left) = 1 THEN "string" ELSE @])
         ELSE Return(c, "parse_error")
    BY DEF ScanTail
<1>2. lex.at = "tail"
    BY DEF ScanTail
<1>3. WellFormed([lex EXCEPT !.buffer = Append(@, c), !.left = Tail(@),
                             !.at = IF Len(lex.left) = 1 THEN "string" ELSE @])
    BY <1>2 DEF Reading, LexOK, WellFormed
<1> QED
    BY <1>1, <1>3, GetReads, ReturnReads, NamedTokens

LEMMA ScanEscapeReads == ASSUME Reading, job \in DOMAIN Jobs, ScanEscape PROVE Reading'
<1>1. PICK c \in Readable :
         CASE c \in DOMAIN Escapes -> Get(c, [lex EXCEPT !.at = "string", !.buffer = Append(@, Escapes[c])])
           [] c = 117 -> Get(c, [lex EXCEPT !.at = "hex", !.left = <<>>, !.high = 0])
           [] OTHER -> Return(c, "parse_error")
    BY DEF ScanEscape
<1>2. \A t \in Tokens : Return(c, t) => Reading'
    BY ReturnReads
<1>3. \A l : WellFormed(l) /\ Get(c, l) => Reading'
    BY GetReads
<1>4. WellFormed([lex EXCEPT !.at = "string", !.buffer = Append(@, Escapes[c])])
    <2> DEFINE q == Escapes[c]
    <2> HIDE DEF q
    <2> QED
        BY DEF Reading, LexOK, WellFormed
<1>5. WellFormed([lex EXCEPT !.at = "hex", !.left = <<>>, !.high = 0])
    BY DEF Reading, LexOK, WellFormed
<1> QED
    BY <1>1, <1>2, <1>3, <1>4, <1>5, NamedTokens, Zenon

LEMMA RestOfTwo ==
    ASSUME NEW s \in Seq(Int), NEW t, t = Tail(s), Len(s) \in 1..2
    PROVE  t \in Seq(Int) /\ (Len(s) = 1 => Len(t) = 0) /\ (Len(s) # 1 => Len(t) = 1)
<1>1. s # <<>>
    <2>1. s = <<>> => Len(s) = 0
        OBVIOUS
    <2> QED
        BY <2>1
<1>2. Tail(s) \in Seq(Int) /\ Len(Tail(s)) = Len(s) - 1
    BY <1>1, HeadTailProperties
<1>3. t \in Seq(Int) /\ Len(t) = Len(s) - 1
    BY <1>2, Zenon
<1> QED
    BY <1>3

LEMMA ScanPairReads == ASSUME Reading, job \in DOMAIN Jobs, ScanPair PROVE Reading'
<1>1. PICK c \in Readable :
         IF c = lex.left[1]
         THEN Get(c, [lex EXCEPT !.left = Tail(@), !.at = IF Len(lex.left) = 1 THEN "hex" ELSE @])
         ELSE Return(c, "parse_error")
    BY DEF ScanPair
<1>2. lex.at = "pair" /\ lex.left \in Seq(Int) /\ Len(lex.left) \in 1..2
    BY DEF ScanPair, Reading, LexOK, WellFormed
<1> DEFINE q == Tail(lex.left)
<1>3. q \in Seq(Int) /\ (Len(lex.left) = 1 => Len(q) = 0) /\ (Len(lex.left) # 1 => Len(q) = 1)
    BY <1>2, RestOfTwo
<1>4. WellFormed([lex EXCEPT !.left = q, !.at = IF Len(lex.left) = 1 THEN "hex" ELSE @])
    <2> HIDE DEF q
    <2> QED
        BY <1>2, <1>3 DEF Reading, LexOK, WellFormed
<1> QED
    BY <1>1, <1>4, GetReads, ReturnReads, NamedTokens

LEMMA ScanHexReads == ASSUME Reading, job \in DOMAIN Jobs, ScanHex PROVE Reading'
<1> DEFINE Digit(c) == Append(lex.left, HexDigit[c])
           Add(c, cp) == Get(c, [lex EXCEPT !.at = "string", !.left = <<>>, !.high = 0, !.buffer = @ \o Utf8(cp)])
<1>1. PICK c \in Readable :
         IF c \notin DOMAIN HexDigit THEN Return(c, "parse_error")
         ELSE CASE Len(Digit(c)) < 4 -> Get(c, [lex EXCEPT !.left = Digit(c)])
                [] Len(Digit(c)) = 4 /\ lex.high # 0 ->
                     IF Codepoint(Digit(c)) \in LowSurrogate THEN Add(c, Paired(lex.high, Codepoint(Digit(c))))
                     ELSE Return(c, "parse_error")
                [] Len(Digit(c)) = 4 /\ lex.high = 0 ->
                     IF Codepoint(Digit(c)) \in HighSurrogate
                     THEN Get(c, [lex EXCEPT !.at = "pair", !.left = <<92, 117>>, !.high = Codepoint(Digit(c))])
                     ELSE IF Codepoint(Digit(c)) \in LowSurrogate THEN Return(c, "parse_error")
                     ELSE Add(c, Codepoint(Digit(c)))
    BY DEF ScanHex
<1>2. Return(c, "parse_error") => Reading'
    BY ReturnReads, NamedTokens
<1>3. \A l : WellFormed(l) /\ Get(c, l) => Reading'
    BY GetReads
<1>4. lex.at = "hex" /\ lex.left \in Seq(Int) /\ Len(lex.left) < 4 /\ WellFormed(lex)
    BY DEF ScanHex, Reading, LexOK, WellFormed
<1>5. ASSUME NEW cp, Add(c, cp) PROVE Reading'
    <2> DEFINE b == lex.buffer \o Utf8(cp)
               l == [lex EXCEPT !.at = "string", !.left = <<>>, !.high = 0, !.buffer = b]
    <2>1. Get(c, l)
        BY <1>5
    <2>2. WellFormed(l)
        <3> HIDE DEF b
        <3> QED
            BY <1>4 DEF WellFormed
    <2> QED
        BY <1>3, <2>1, <2>2
<1>6. ASSUME NEW h PROVE WellFormed([lex EXCEPT !.at = "pair", !.left = <<92, 117>>, !.high = h])
    <2>1. <<92, 117>> \in Seq(Int) /\ Len(<<92, 117>>) = 2
        OBVIOUS
    <2> QED
        BY <1>4, <2>1 DEF WellFormed
<1>7. CASE c \in DOMAIN HexDigit
    <2>1. HexDigit[c] \in Int
        BY <1>7 DEF HexDigit, Digits
    <2>2. Digit(c) \in Seq(Int) /\ Len(Digit(c)) = Len(lex.left) + 1 /\ Len(lex.left) \in Nat
        BY <1>4, <2>1
    <2>3. Len(Digit(c)) < 4 \/ Len(Digit(c)) = 4
        BY <1>4, <2>2
    <2>4. Len(Digit(c)) < 4 => WellFormed([lex EXCEPT !.left = Digit(c)])
        <3> DEFINE q == Digit(c)
        <3> HIDE DEF q
        <3> QED
            BY <1>4, <2>2 DEF WellFormed, q
    <2> DEFINE q == Digit(c)
               cp == Codepoint(q)
    <2>5. CASE Len(q) < 4
        <3>1. Get(c, [lex EXCEPT !.left = q])
            <4>1. ~(Len(q) = 4)
                BY <2>5
            <4> HIDE DEF Add, q, cp
            <4> QED
                BY <1>1, <1>7, <2>5, <4>1 DEF q
        <3> QED
            BY <1>3, <2>4, <2>5, <3>1
    <2>6. CASE Len(q) = 4 /\ lex.high # 0
        <3>1. Return(c, "parse_error") \/ Add(c, Paired(lex.high, cp))
            <4>1. ~(Len(q) < 4) /\ ~(lex.high = 0)
                BY <2>6
            <4> HIDE DEF Add, q, cp
            <4> QED
                BY <1>1, <1>7, <2>6, <4>1 DEF q, cp
        <3> QED
            BY <1>2, <1>5, <3>1
    <2>7. CASE Len(q) = 4 /\ lex.high = 0
        <3>1. \/ Return(c, "parse_error") \/ Add(c, cp)
              \/ Get(c, [lex EXCEPT !.at = "pair", !.left = <<92, 117>>, !.high = cp])
            <4>1. ~(Len(q) < 4)
                BY <2>7
            <4> HIDE DEF Add, q, cp
            <4> QED
                BY <1>1, <1>7, <2>7, <4>1 DEF q, cp
        <3> QED
            BY <1>2, <1>3, <1>5, <1>6, <3>1
    <2> QED
        BY <2>3, <2>5, <2>6, <2>7
<1> QED
    BY <1>1, <1>2, <1>7

LEMMA ScanNumberReads == ASSUME Reading, job \in DOMAIN Jobs, ScanNumber PROVE Reading'
<1> DEFINE Where(c) == IF lex.at \in {"exponent", "sign", "any2"} THEN ExponentNext(lex.at, c) ELSE NumberNext(lex.at, c)
<1>1. PICK c \in Readable :
         CASE Where(c) = "error" -> Return(c, "parse_error")
           [] Where(c) = "done" -> Unget(c, [lex EXCEPT !.at = "returned"]) /\ token' = NumberDone
           [] OTHER -> Get(c, [lex EXCEPT !.at = Where(c), !.buffer = Append(@, c), !.type = NumberType(Where(c))])
    BY DEF ScanNumber
<1> DEFINE p == Where(c)
           t == NumberType(p)
<1>2. p \notin {"hex", "pair"}
    BY DEF ExponentNext, NumberNext
<1> HIDE DEF p
<1>3. WellFormed(lex) /\ lex.type \in Tokens
    BY DEF Reading, LexOK, WellFormed
<1>4. t \in Tokens /\ NumberDone \in Tokens
    BY <1>3, NamedTokens DEF NumberType, NumberDone
<1> HIDE DEF t
<1>5. WellFormed([lex EXCEPT !.at = "returned"])
    BY <1>3 DEF WellFormed
<1>6. WellFormed([lex EXCEPT !.at = p, !.buffer = Append(@, c), !.type = t])
    <2> DEFINE b == Append(lex.buffer, c)
    <2> HIDE DEF b
    <2> QED
        BY <1>2, <1>3, <1>4 DEF WellFormed
<1>7. \/ Return(c, "parse_error")
      \/ Unget(c, [lex EXCEPT !.at = "returned"]) /\ token' = NumberDone
      \/ Get(c, [lex EXCEPT !.at = p, !.buffer = Append(@, c), !.type = t])
    BY <1>1 DEF p, t
<1> QED
    BY <1>4, <1>5, <1>6, <1>7, GetReads, UngetReads, ReturnReads, NamedTokens

LEMMA ParserReads == ASSUME Reading, Parser PROVE Reading'
<1>1. CASE UNCHANGED <<text, lex, token>>
    BY <1>1 DEF Reading, LexOK, WellFormed
<1>2. CASE GetToken
    <2>1. WellFormed([lex EXCEPT !.at = "space"]) /\ [lex EXCEPT !.at = "space"].current = lex.current
        BY DEF Reading, LexOK, WellFormed
    <2> QED
        BY <1>2, <2>1 DEF GetToken, Reading, LexOK
<1> QED
    BY <1>1, <1>2 DEF Parser, BeginObject, EmptyObject, Key, FirstColon, NextColon, NextMember, EndObject,
       BeginArray, EmptyArray, FirstElement, NextElement, EndArray, Scalar, Accept, Unexpected, NumberOverflow

-----------------------------------------------------------------------------
(* The invariant                                                           *)

LEMMA JsonInitIInv == JsonInit => JsonIInv
<1> SUFFICES ASSUME JsonInit PROVE JsonIInv
    OBVIOUS
<1>1. Reading /\ job \in DOMAIN Jobs
    BY NamedTokens DEF JsonInit, Reading, LexOK, WellFormed, Bytes
<1>2. heap = <<Null>> /\ refStack = <<>> /\ states = <<>> /\ parseAt = "value" /\ objectElement = 0
    BY DEF JsonInit
<1>3. DOMAIN heap = {1} /\ heap[1] = Null /\ Len(heap) = 1 /\ IsSequence(heap)
    BY <1>2 DEF IsSequence
<1>4. Sound(heap)
    <2>1. Null.kind = "null" /\ "null" \in Kinds
        BY DEF Null, Node, Kinds, Range, ScalarKind
    <2>2. \A a, i : ~Holds(heap, a, i)
        BY <1>3, <2>1 DEF Holds
    <2> QED
        BY <1>3, <2>1, <2>2 DEF Sound
<1>5. Path /\ MemberIsSet
    BY <1>2 DEF Path, MemberIsSet
<1>6. Inside
    BY <1>2 DEF Inside, Places, Expected, Opening, Failed
<1> QED
    BY <1>1, <1>2, <1>4, <1>5, <1>6 DEF JsonIInv, Builder

LEMMA JsonNextIInv == JsonIInv /\ [JsonNext]_jsonVars => JsonIInv'
<1> SUFFICES ASSUME JsonIInv, [JsonNext]_jsonVars PROVE JsonIInv'
    OBVIOUS
<1>1. CASE UNCHANGED jsonVars
    BY <1>1 DEF jsonVars, JsonIInv, Builder, Path, MemberIsSet, Inside, Kind, Back, Failed, Opening,
       Reading, LexOK
<1>2. CASE Lexer
    <2>1. Reading'
        BY <1>2, SkipBomReads, ScanReads, ScanLiteralReads, ScanStringReads, ScanTailReads, ScanEscapeReads,
           ScanHexReads, ScanPairReads, ScanNumberReads DEF JsonIInv, Lexer
    <2>2. UNCHANGED parserVars
        BY <1>2 DEF Lexer, SkipBom, Scan, ScanLiteral, ScanString, ScanTail, ScanEscape, ScanHex, ScanPair, ScanNumber
    <2>3. Builder'
        BY <2>2 DEF parserVars, JsonIInv, Builder, Path, MemberIsSet, Inside, Kind, Back, Failed, Opening
    <2> QED
        BY <2>1, <2>2, <2>3 DEF JsonIInv, parserVars
<1>3. CASE Parser
    <2>1. Builder' /\ Reading'
        BY <1>3, ParserBuilds, ParserReads DEF JsonIInv
    <2>2. job' = job
        BY <1>3 DEF Parser, BeginObject, EmptyObject, Key, FirstColon, NextColon, NextMember, EndObject,
           BeginArray, EmptyArray, FirstElement, NextElement, EndArray, Scalar, Accept, Unexpected,
           NumberOverflow, GetToken
    <2> QED
        BY <2>1, <2>2 DEF JsonIInv
<1> QED
    BY <1>1, <1>2, <1>3 DEF JsonNext

LEMMA InvariantIsTyped == JsonIInv => JsonTypeOK
<1> SUFFICES ASSUME JsonIInv PROVE JsonTypeOK
    OBVIOUS
<1>1. ASSUME NEW a \in DOMAIN heap, NEW c \in Children(heap[a])
      PROVE  c \in DOMAIN heap /\ heap[c].kind # "gone"
    <2>1. PICK i : Holds(heap, a, i) /\ heap[a].value[i] = c
        BY <1>1 DEF Children, Range, Holds
    <2> QED
        BY <2>1 DEF JsonIInv, Builder, Sound
<1> QED
    BY <1>1 DEF JsonIInv, Builder, Reading, Sound, Path, Inside, JsonTypeOK

LEMMA InvariantAgrees == JsonIInv => StacksAgree
<1> SUFFICES ASSUME JsonIInv PROVE StacksAgree
    OBVIOUS
<1>1. Sound(heap) /\ Path /\ Inside /\ MemberIsSet
    BY DEF JsonIInv, Builder
<1>2. \A a, c : Points(heap, a, c) => c \in Children(heap[a])
    BY DEF Points, Holds, Children, Range
<1>3. \A i \in DOMAIN states : i \in DOMAIN refStack /\ Kind(i) = states[i]
    <2>1. DOMAIN states = 1..Len(states) /\ DOMAIN refStack = 1..Len(refStack)
          /\ Len(states) \in Nat /\ Len(refStack) \in Nat
        BY <1>1 DEF Path, Inside
    <2>2. \A i \in 1..Len(states) : i \in 1..Len(refStack)
        <3>1. Len(states) <= Len(refStack)
            BY <1>1 DEF Inside
        <3> QED
            BY <2>1, <3>1
    <2> QED
        BY <1>1, <2>1, <2>2 DEF Inside
<1>4. /\ ~Failed => Len(refStack) = Len(states) + IF Opening THEN 1 ELSE 0
      /\ parseAt \in {"object", "firstColon"} => Kind(Len(refStack)) = "object"
      /\ parseAt = "array" => Kind(Len(refStack)) = "array"
    BY <1>1 DEF Inside
<1>5. /\ refStack # <<>> => refStack[1] = 1
      /\ \A i \in 1..(Len(refStack) - 1) : refStack[i + 1] \in Children(heap[refStack[i]])
    BY <1>1, <1>2 DEF Path
<1>6. ASSUME refStack # <<>>, ~Failed, Kind(Len(refStack)) = "object",
             parseAt \in {"firstColon", "nextColon", "value"}
      PROVE  objectElement \in Range(heap[Back].value)
    <2>1. Points(heap, Back, objectElement)
        BY <1>1, <1>6 DEF MemberIsSet
    <2> QED
        BY <2>1 DEF Points, Holds, Range
<1> QED
    BY <1>3, <1>4, <1>5, <1>6 DEF StacksAgree

(* The variables keep their types, and every pointer of the value that is  *)
(* being built leads to an object that has not been moved from.            *)
THEOREM JsonTypeCorrect == JsonSpec => []JsonTypeOK
BY JsonInitIInv, JsonNextIInv, InvariantIsTyped, PTL DEF JsonSpec

(* What parse() is inside of and the pointers of the builder are two       *)
(* records of one nesting, for every text: no assertion of the builder     *)
(* fails, and no pointer is stale though vectors move their elements.      *)
THEOREM BuilderStaysInStep == JsonSpec => []StacksAgree
BY JsonInitIInv, JsonNextIInv, InvariantAgrees, PTL DEF JsonSpec

-----------------------------------------------------------------------------
(* Counting: a set of numbers that has 0 and, with each number, the next   *)
(* one, has them all.                                                      *)

LEMMA LeastNatural ==
    ASSUME NEW T \in SUBSET Nat, T # {}
    PROVE  \E n \in T : \A m \in T : n <= m
<1> DEFINE R == {ss \in Nat \X Nat : ss[1] < ss[2]}
<1>1. IsWellFoundedOn(R, Nat)
    BY NatLessThanWellFounded DEF OpToRel
<1>2. PICK n \in T : \A m \in T : ~(<<m, n>> \in R)
    <2> HIDE DEF R
    <2> QED BY <1>1, WFMin
<1>3. ASSUME NEW m \in T PROVE n <= m
    <2>1. m \in Nat /\ n \in Nat /\ ~(m < n)
        BY <1>2
    <2> QED
        BY <2>1
<1> QED
    BY <1>3

LEMMA Induction ==
    ASSUME NEW S, 0 \in S, \A n \in Nat : n \in S => n + 1 \in S
    PROVE  \A n \in Nat : n \in S
<1> SUFFICES ASSUME {n \in Nat : n \notin S} # {} PROVE FALSE
    OBVIOUS
<1>1. PICK n \in {n \in Nat : n \notin S} : \A m \in {k \in Nat : k \notin S} : n <= m
    BY LeastNatural
<1>2. n # 0 /\ n - 1 \in Nat /\ n - 1 < n
    BY <1>1
<1>3. n - 1 \in S
    BY <1>1, <1>2
<1>4. n \in S
    BY <1>2, <1>3
<1> QED
    BY <1>1, <1>4

-----------------------------------------------------------------------------
(* The decoder of dump(): the lexer's ranges of bytes, and the characters  *)
(* it makes of \u, bring the decoder from accept back to accept.           *)

\* The recursive function DecodedTo(s) exists: one can count up to Len(s).
LEMMA DecodedRecurrence ==
    ASSUME NEW s \in Seq(Int)
    PROVE  /\ DecodedTo(s)[0] = 0
           /\ \A i \in 1..Len(s) : DecodedTo(s)[i] = Decode(DecodedTo(s)[i - 1], s[i])
<1> DEFINE Recurs(g, n) == g = [i \in 0..n |-> IF i = 0 THEN 0 ELSE Decode(g[i - 1], s[i])]
           S == {n \in Nat : \E g : Recurs(g, n)}
<1>1. 0 \in S
    <2> DEFINE g == [i \in 0..0 |-> 0]
    <2>1. Recurs(g, 0)
        OBVIOUS
    <2> QED
        BY <2>1
<1>2. ASSUME NEW n \in Nat, n \in S PROVE n + 1 \in S
    <2>1. PICK g : Recurs(g, n)
        BY <1>2
    <2> DEFINE h == [i \in 0..(n + 1) |-> IF i = n + 1 THEN Decode(g[n], s[n + 1]) ELSE g[i]]
    <2>2. ASSUME NEW i \in 0..(n + 1)
          PROVE  h[i] = IF i = 0 THEN 0 ELSE Decode(h[i - 1], s[i])
        <3>1. CASE i = n + 1
            <4>1. h[i] = Decode(g[n], s[n + 1]) /\ i - 1 = n /\ n \in 0..(n + 1) /\ n # n + 1
                BY <3>1
            <4> QED
                BY <3>1, <4>1
        <3>2. CASE i # n + 1
            <4>1. i \in 0..n /\ h[i] = g[i]
                BY <3>2
            <4>2. g[i] = IF i = 0 THEN 0 ELSE Decode(g[i - 1], s[i])
                BY <2>1, <4>1
            <4>3. i # 0 => i - 1 \in 0..(n + 1) /\ i - 1 # n + 1 /\ h[i - 1] = g[i - 1]
                BY <4>1
            <4> QED
                BY <4>1, <4>2, <4>3
        <3> QED
            BY <3>1, <3>2
    <2>3. Recurs(h, n + 1)
        <3> HIDE DEF h
        <3>1. h = [i \in 0..(n + 1) |-> h[i]]
            BY DEF h
        <3> QED
            BY <2>2, <3>1
    <2>4. (\E k : Recurs(k, n + 1)) /\ n + 1 \in Nat
        <3> HIDE DEF h, Recurs
        <3> QED
            BY <2>3
    <2> QED
        BY <2>4
<1>3. \A n \in Nat : n \in S
    <2> HIDE DEF S
    <2> QED
        BY <1>1, <1>2, Induction
<1>4. Len(s) \in Nat
    BY LenProperties
<1>5. PICK g : Recurs(g, Len(s))
    BY <1>3, <1>4
<1>6. Recurs(DecodedTo(s), Len(s))
    BY <1>5 DEF DecodedTo
<1>7. 0 \in 0..Len(s) /\ \A i \in 1..Len(s) : i \in 0..Len(s) /\ i # 0
    BY <1>4
<1> QED
    <2> DEFINE f == DecodedTo(s)
    <2> HIDE DEF f
    <2>1. Recurs(f, Len(s))
        BY <1>6 DEF f
    <2>2. f[0] = 0 /\ \A i \in 1..Len(s) : f[i] = Decode(f[i - 1], s[i])
        BY <1>7, <2>1
    <2> QED
        BY <2>2 DEF f

\* Where the decoder is behind the whole of s, and whether it may end there.
Utf8State(s) == DecodedTo(s)[Len(s)]
WellSpelled(s) == s \in Seq(Int) /\ Utf8State(s) = 0

\* A byte more is a step more.
LEMMA OneByteMore ==
    ASSUME NEW s \in Seq(Int), NEW c \in Int
    PROVE  Append(s, c) \in Seq(Int) /\ Utf8State(Append(s, c)) = Decode(Utf8State(s), c)
<1> DEFINE t == Append(s, c)
           n == Len(s)
           f == DecodedTo(s)
           g == DecodedTo(t)
           S == {i \in Nat : i <= n => g[i] = f[i]}
<1>1. /\ t \in Seq(Int) /\ Len(t) = n + 1 /\ n \in Nat /\ t[n + 1] = c
      /\ \A i \in 1..n : t[i] = s[i]
    BY AppendProperties
<1>2. /\ f[0] = 0 /\ \A i \in 1..n : f[i] = Decode(f[i - 1], s[i])
      /\ g[0] = 0 /\ \A i \in 1..(n + 1) : g[i] = Decode(g[i - 1], t[i])
    <2> HIDE DEF t
    <2> QED
        BY <1>1, DecodedRecurrence
<1> HIDE DEF f, g, t
<1>3. 0 \in S
    BY <1>2
<1>4. ASSUME NEW i \in Nat, i \in S PROVE i + 1 \in S
    <2> SUFFICES ASSUME i + 1 <= n PROVE g[i + 1] = f[i + 1]
        BY <1>4
    <2>1. i + 1 \in 1..n /\ i + 1 \in 1..(n + 1) /\ (i + 1) - 1 = i /\ i <= n
        BY <1>1
    <2>3. g[i] = f[i]
        BY <1>4, <2>1
    <2>2. f[i + 1] = Decode(f[i], s[i + 1]) /\ g[i + 1] = Decode(g[i], t[i + 1])
        BY <1>2, <2>1
    <2> QED
        BY <1>1, <2>1, <2>2, <2>3
<1>5. \A i \in Nat : i \in S
    <2>1. \A i \in Nat : i \in S => i + 1 \in S
        BY <1>4
    <2> HIDE DEF S
    <2> QED
        BY <1>3, <2>1, Induction
<1>6. g[n] = f[n]
    <2>1. n \in S
        BY <1>1, <1>5
    <2> QED
        BY <1>1, <2>1
<1>7. g[n + 1] = Decode(g[n], t[n + 1])
    <2>1. n + 1 \in 1..(n + 1) /\ (n + 1) - 1 = n
        BY <1>1
    <2> QED
        BY <1>2, <2>1
<1> QED
    BY <1>1, <1>6, <1>7 DEF Utf8State, f, g, t

LEMMA NothingIsSpelled == WellSpelled(<<>>)
<1>1. <<>> \in Seq(Int) /\ Len(<<>>) = 0
    OBVIOUS
<1> QED
    BY <1>1, DecodedRecurrence DEF WellSpelled, Utf8State

\* c is a number from lo to hi.
Within(c, lo, hi) == c \in Int /\ lo <= c /\ c <= hi

\* The table, read column by column.
LEMMA Classes ==
    ASSUME NEW c
    PROVE  /\ Within(c, 0, 127) => Utf8Class(c) = 0
           /\ Within(c, 128, 143) => Utf8Class(c) = 1
           /\ Within(c, 144, 159) => Utf8Class(c) = 9
           /\ Within(c, 160, 191) => Utf8Class(c) = 7
           /\ Within(c, 194, 223) => Utf8Class(c) = 2
           /\ Within(c, 225, 236) \/ Within(c, 238, 239) => Utf8Class(c) = 3
           /\ Within(c, 241, 243) => Utf8Class(c) = 6
           /\ c = 224 => Utf8Class(c) = 10
           /\ c = 237 => Utf8Class(c) = 4
           /\ c = 240 => Utf8Class(c) = 11
           /\ c = 244 => Utf8Class(c) = 5
<1>1. ASSUME Within(c, 0, 127) PROVE Utf8Class(c) = 0
    BY <1>1 DEF Utf8Class, Within
<1>2. ASSUME Within(c, 128, 143) PROVE Utf8Class(c) = 1
    BY <1>2 DEF Utf8Class, Within
<1>3. ASSUME Within(c, 144, 159) PROVE Utf8Class(c) = 9
    BY <1>3 DEF Utf8Class, Within
<1>4. ASSUME Within(c, 160, 191) PROVE Utf8Class(c) = 7
    BY <1>4 DEF Utf8Class, Within
<1>5. ASSUME Within(c, 194, 223) PROVE Utf8Class(c) = 2
    BY <1>5 DEF Utf8Class, Within
<1>6. ASSUME Within(c, 225, 236) \/ Within(c, 238, 239) PROVE Utf8Class(c) = 3
    BY <1>6 DEF Utf8Class, Within
<1>7. ASSUME Within(c, 241, 243) PROVE Utf8Class(c) = 6
    BY <1>7 DEF Utf8Class, Within
<1>8. Utf8Class(224) = 10 /\ Utf8Class(237) = 4 /\ Utf8Class(240) = 11 /\ Utf8Class(244) = 5
    BY DEF Utf8Class
<1> QED
    BY <1>1, <1>2, <1>3, <1>4, <1>5, <1>6, <1>7, <1>8

\* Where characters begin, and how they go on.
LEMMA FirstBytes ==
    ASSUME NEW c
    PROVE  /\ Within(c, 0, 127) => Decode(0, c) = 0
           /\ Within(c, 194, 223) => Decode(0, c) = 2
           /\ Within(c, 225, 236) \/ Within(c, 238, 239) => Decode(0, c) = 3
           /\ Within(c, 241, 243) => Decode(0, c) = 7
           /\ c = 224 => Decode(0, c) = 4
           /\ c = 237 => Decode(0, c) = 5
           /\ c = 240 => Decode(0, c) = 6
           /\ c = 244 => Decode(0, c) = 8
<1> DEFINE row == <<0, 1, 2, 3, 5, 8, 7, 1, 1, 1, 4, 6>>
<1>1. Decode(0, c) = row[Utf8Class(c) + 1]
    BY DEF Decode, Utf8States
<1>2. row[1] = 0 /\ row[3] = 2 /\ row[11] = 4 /\ row[4] = 3 /\ row[5] = 5 /\ row[12] = 6 /\ row[7] = 7 /\ row[6] = 8
    OBVIOUS
<1> HIDE DEF row
<1> QED
    BY <1>1, <1>2, Classes

LEMMA LaterBytes ==
    ASSUME NEW c
    PROVE  /\ Within(c, 128, 191) => Decode(2, c) = 0 /\ Decode(3, c) = 2 /\ Decode(7, c) = 3
           /\ Within(c, 160, 191) => Decode(4, c) = 2
           /\ Within(c, 128, 159) => Decode(5, c) = 2
           /\ Within(c, 144, 191) => Decode(6, c) = 3
           /\ Within(c, 128, 143) => Decode(8, c) = 3
<1>1. /\ Utf8States[3][2] = 0 /\ Utf8States[3][8] = 0 /\ Utf8States[3][10] = 0
      /\ Utf8States[4][2] = 2 /\ Utf8States[4][8] = 2 /\ Utf8States[4][10] = 2
      /\ Utf8States[5][8] = 2
      /\ Utf8States[6][2] = 2 /\ Utf8States[6][10] = 2
      /\ Utf8States[7][8] = 3 /\ Utf8States[7][10] = 3
      /\ Utf8States[8][2] = 3 /\ Utf8States[8][8] = 3 /\ Utf8States[8][10] = 3
      /\ Utf8States[9][2] = 3
    BY DEF Utf8States
<1>2. /\ Within(c, 128, 191) => Utf8Class(c) \in {1, 7, 9}
      /\ Within(c, 160, 191) => Utf8Class(c) = 7
      /\ Within(c, 128, 159) => Utf8Class(c) \in {1, 9}
      /\ Within(c, 144, 191) => Utf8Class(c) \in {7, 9}
      /\ Within(c, 128, 143) => Utf8Class(c) = 1
    BY Classes DEF Within
<1> QED
    BY <1>1, <1>2 DEF Decode

\* The ranges of bytes that must follow, by the state the decoder is in.
Amid(q0, left) ==
    \/ q0 = 2 /\ left = <<Continuation>>
    \/ q0 = 3 /\ left = <<Continuation, Continuation>>
    \/ q0 = 4 /\ left = <<<<160, 191>>, Continuation>>
    \/ q0 = 5 /\ left = <<<<128, 159>>, Continuation>>
    \/ q0 = 6 /\ left = <<<<144, 191>>, Continuation, Continuation>>
    \/ q0 = 7 /\ left = <<Continuation, Continuation, Continuation>>
    \/ q0 = 8 /\ left = <<<<128, 143>>, Continuation, Continuation>>

LEMMA BoundsAreNumbers ==
    ASSUME NEW q0, NEW left, Amid(q0, left)
    PROVE  left[1][1] \in Int /\ left[1][2] \in Int
BY DEF Amid, Continuation

LEMMA TailBegins == ASSUME NEW c, Within(c, 194, 244) PROVE Amid(Decode(0, c), TailRanges(c))
<1>1. CASE Within(c, 194, 223)
    BY <1>1, FirstBytes DEF TailRanges, Amid, Within
<1>2. CASE c = 224
    BY <1>2, FirstBytes DEF TailRanges, Amid
<1>3. CASE Within(c, 225, 236) \/ Within(c, 238, 239)
    BY <1>3, FirstBytes DEF TailRanges, Amid, Within
<1>4. CASE c = 237
    BY <1>4, FirstBytes DEF TailRanges, Amid
<1>5. CASE c = 240
    BY <1>5, FirstBytes DEF TailRanges, Amid
<1>6. CASE Within(c, 241, 243)
    BY <1>6, FirstBytes DEF TailRanges, Amid, Within
<1>7. CASE c = 244
    BY <1>7, FirstBytes DEF TailRanges, Amid
<1> QED
    BY <1>1, <1>2, <1>3, <1>4, <1>5, <1>6, <1>7 DEF Within

LEMMA TailGoesOn ==
    ASSUME NEW q0, NEW left, Amid(q0, left), NEW c, Within(c, left[1][1], left[1][2])
    PROVE  IF Len(left) = 1 THEN Decode(q0, c) = 0 ELSE Amid(Decode(q0, c), Tail(left))
<1> DEFINE One == <<Continuation>>
           Two == <<Continuation, Continuation>>
<1>1. CASE q0 = 2 /\ left = <<Continuation>>
    <2>1. Within(c, 128, 191) /\ Len(left) = 1
        BY <1>1 DEF Continuation
    <2> QED
        BY <1>1, <2>1, LaterBytes
<1>2. CASE Len(left) = 2 /\ Tail(left) = One /\ Decode(q0, c) = 2
    BY <1>2 DEF Amid
<1>3. CASE Len(left) = 3 /\ Tail(left) = Two /\ Decode(q0, c) = 3
    BY <1>3 DEF Amid
<1>4. CASE q0 = 3 /\ left = <<Continuation, Continuation>>
    <2>1. Within(c, 128, 191) /\ Len(left) = 2 /\ Tail(left) = One
        BY <1>4 DEF Continuation
    <2> QED
        BY <1>2, <1>4, <2>1, LaterBytes
<1>5. CASE q0 = 4 /\ left = <<<<160, 191>>, Continuation>>
    <2>1. Within(c, 160, 191) /\ Len(left) = 2 /\ Tail(left) = One
        BY <1>5
    <2> QED
        BY <1>2, <1>5, <2>1, LaterBytes
<1>6. CASE q0 = 5 /\ left = <<<<128, 159>>, Continuation>>
    <2>1. Within(c, 128, 159) /\ Len(left) = 2 /\ Tail(left) = One
        BY <1>6
    <2> QED
        BY <1>2, <1>6, <2>1, LaterBytes
<1>7. CASE q0 = 6 /\ left = <<<<144, 191>>, Continuation, Continuation>>
    <2>1. Within(c, 144, 191) /\ Len(left) = 3 /\ Tail(left) = Two
        BY <1>7
    <2> QED
        BY <1>3, <1>7, <2>1, LaterBytes
<1>8. CASE q0 = 7 /\ left = <<Continuation, Continuation, Continuation>>
    <2>1. Within(c, 128, 191) /\ Len(left) = 3 /\ Tail(left) = Two
        BY <1>8 DEF Continuation
    <2> QED
        BY <1>3, <1>8, <2>1, LaterBytes
<1>9. CASE q0 = 8 /\ left = <<<<128, 143>>, Continuation, Continuation>>
    <2>1. Within(c, 128, 143) /\ Len(left) = 3 /\ Tail(left) = Two
        BY <1>9
    <2> QED
        BY <1>3, <1>9, <2>1, LaterBytes
<1> QED
    BY <1>1, <1>4, <1>5, <1>6, <1>7, <1>8, <1>9 DEF Amid

\* The bytes of a character, each by each.
LEMMA BytesInARow ==
    ASSUME NEW s \in Seq(Int), NEW a \in Int, NEW b \in Int, NEW c \in Int, NEW d \in Int
    PROVE  /\ s \o <<a>> = Append(s, a)
           /\ s \o <<a, b>> = Append(Append(s, a), b)
           /\ s \o <<a, b, c>> = Append(Append(Append(s, a), b), c)
           /\ s \o <<a, b, c, d>> = Append(Append(Append(Append(s, a), b), c), d)
<1>1. ASSUME NEW t \in Seq(Int), NEW e \in Int
      PROVE  s \o Append(t, e) = Append(s \o t, e)
    <2>1. s \o t \in Seq(Int) /\ <<e>> \in Seq(Int)
        BY ConcatProperties
    <2>2. Append(t, e) = t \o <<e>> /\ Append(s \o t, e) = (s \o t) \o <<e>>
        BY <2>1, AppendIsConcat
    <2> QED
        BY <2>1, <2>2, ConcatAssociative
<1>2. s \o <<a>> = Append(s, a)
    BY AppendIsConcat
<1>3. /\ <<a, b>> = Append(<<a>>, b) /\ <<a, b, c>> = Append(<<a, b>>, c)
      /\ <<a, b, c, d>> = Append(<<a, b, c>>, d)
      /\ <<a>> \in Seq(Int) /\ <<a, b>> \in Seq(Int) /\ <<a, b, c>> \in Seq(Int)
    OBVIOUS
<1>4. s \o <<a, b>> = Append(Append(s, a), b)
    BY <1>1, <1>2, <1>3
<1>5. s \o <<a, b, c>> = Append(Append(Append(s, a), b), c)
    BY <1>1, <1>3, <1>4
<1> QED
    BY <1>1, <1>2, <1>3, <1>4, <1>5

\* The well-formed byte sequences of one character, as the Unicode Standard
\* tables them.
Trailing(c) == Within(c, 128, 191)
OneCharacter(q) ==
    \/ \E a : q = <<a>> /\ Within(a, 0, 127)
    \/ \E a, b : q = <<a, b>> /\ Within(a, 194, 223) /\ Trailing(b)
    \/ \E a, b, c :
         /\ q = <<a, b, c>> /\ Within(a, 224, 239) /\ Trailing(b) /\ Trailing(c)
         /\ (a = 224 => b >= 160) /\ (a = 237 => b <= 159)
    \/ \E a, b, c, d :
         /\ q = <<a, b, c, d>> /\ Within(a, 240, 244) /\ Trailing(b) /\ Trailing(c) /\ Trailing(d)
         /\ (a = 240 => b >= 144) /\ (a = 244 => b <= 143)

\* What \u can denote: no half of a pair.
IsScalar(cp) == cp \in Nat /\ cp <= 1114111 /\ (cp < 55296 \/ cp > 57343)

LEMMA Utf8IsWellFormed == ASSUME NEW cp, IsScalar(cp) PROVE OneCharacter(Utf8(cp))
<1> DEFINE L(n) == 128 + (n % 64)
           l1 == L(cp)
           l2 == L(cp \div 64)
           l3 == L(cp \div 4096)
<1>1. Trailing(l1) /\ Trailing(l2) /\ Trailing(l3)
    BY DEF Trailing, Within, IsScalar
<1>2. CASE cp < 128
    <2>1. Utf8(cp) = <<cp>> /\ Within(cp, 0, 127)
        BY <1>2 DEF Utf8, IsScalar, Within
    <2> QED
        BY <2>1 DEF OneCharacter
<1>3. CASE 128 <= cp /\ cp <= 2047
    <2> DEFINE a == 192 + (cp \div 64)
    <2>1. Utf8(cp) = <<a, l1>>
        BY <1>3 DEF Utf8, IsScalar
    <2>2. Within(a, 194, 223)
        BY <1>3 DEF IsScalar, Within
    <2> HIDE DEF a, l1, l2, l3
    <2> QED
        BY <1>1, <2>1, <2>2 DEF OneCharacter
<1>4. CASE 2048 <= cp /\ cp <= 65535
    <2> DEFINE a == 224 + (cp \div 4096)
    <2>1. Utf8(cp) = <<a, l2, l1>>
        BY <1>4 DEF Utf8, IsScalar
    <2>2. Within(a, 224, 239)
        BY <1>4 DEF IsScalar, Within
    <2>3. a = 224 => l2 >= 160
        BY <1>4 DEF IsScalar
    <2>4. a = 237 => l2 <= 159
        BY <1>4 DEF IsScalar
    <2> HIDE DEF a, l1, l2, l3
    <2> QED
        BY <1>1, <2>1, <2>2, <2>3, <2>4 DEF OneCharacter
<1>5. CASE 65536 <= cp
    <2> DEFINE a == 240 + (cp \div 262144)
    <2>1. Utf8(cp) = <<a, l3, l2, l1>>
        BY <1>5 DEF Utf8, IsScalar
    <2>2. Within(a, 240, 244)
        BY <1>5 DEF IsScalar, Within
    <2>3. a = 240 => l3 >= 144
        BY <1>5 DEF IsScalar
    <2>4. a = 244 => l3 <= 143
        BY <1>5 DEF IsScalar
    <2> HIDE DEF a, l1, l2, l3
    <2> QED
        BY <1>1, <2>1, <2>2, <2>3, <2>4 DEF OneCharacter
<1> QED
    BY <1>2, <1>3, <1>4, <1>5 DEF IsScalar

\* s brings the decoder to state k.
Spelled(s, k) == s \in Seq(Int) /\ Utf8State(s) = k

LEMMA SpelledOn ==
    ASSUME NEW s, NEW k, Spelled(s, k), NEW c \in Int
    PROVE  Spelled(Append(s, c), Decode(k, c))
BY OneByteMore DEF Spelled

LEMMA CharacterIsSpelled ==
    ASSUME NEW s, WellSpelled(s), NEW q, OneCharacter(q)
    PROVE  WellSpelled(s \o q)
<1>1. Spelled(s, 0) /\ s \in Seq(Int)
    BY DEF WellSpelled, Spelled
<1>2. SUFFICES Spelled(s \o q, 0)
    BY DEF WellSpelled, Spelled
<1>3. ASSUME NEW a, q = <<a>>, Within(a, 0, 127) PROVE Spelled(s \o q, 0)
    <2>1. a \in Int
        BY <1>3 DEF Within
    <2>2. s \o q = Append(s, a)
        BY <1>1, <1>3, <2>1, BytesInARow
    <2>3. Decode(0, a) = 0
        BY <1>3, FirstBytes
    <2> QED
        BY <1>1, <2>1, <2>2, <2>3, SpelledOn
<1>4. ASSUME NEW a, NEW b, q = <<a, b>>, Within(a, 194, 223), Trailing(b) PROVE Spelled(s \o q, 0)
    <2>1. a \in Int /\ b \in Int
        BY <1>4 DEF Within, Trailing
    <2>2. s \o q = Append(Append(s, a), b)
        BY <1>1, <1>4, <2>1, BytesInARow
    <2>3. Decode(0, a) = 2 /\ Decode(2, b) = 0
        BY <1>4, FirstBytes, LaterBytes DEF Trailing
    <2>4. Spelled(Append(s, a), 2)
        BY <1>1, <2>1, <2>3, SpelledOn
    <2> QED
        BY <2>1, <2>2, <2>3, <2>4, SpelledOn
<1>5. ASSUME NEW a, NEW b, NEW c, q = <<a, b, c>>, Within(a, 224, 239), Trailing(b), Trailing(c),
             a = 224 => b >= 160, a = 237 => b <= 159
      PROVE  Spelled(s \o q, 0)
    <2>1. a \in Int /\ b \in Int /\ c \in Int
        BY <1>5 DEF Within, Trailing
    <2>2. s \o q = Append(Append(Append(s, a), b), c)
        BY <1>1, <1>5, <2>1, BytesInARow
    <2>3. Decode(Decode(0, a), b) = 2 /\ Decode(2, c) = 0
        <3>1. Within(b, 128, 191) /\ (a = 224 => Within(b, 160, 191)) /\ (a = 237 => Within(b, 128, 159))
            BY <1>5 DEF Within, Trailing
        <3>2. a = 224 \/ a = 237 \/ Within(a, 225, 236) \/ Within(a, 238, 239)
            BY <1>5 DEF Within
        <3>3. Decode(Decode(0, a), b) = 2
            BY <3>1, <3>2, FirstBytes, LaterBytes
        <3> QED
            BY <1>5, <3>3, LaterBytes DEF Trailing
    <2>4. Spelled(Append(s, a), Decode(0, a))
        BY <1>1, <2>1, SpelledOn
    <2>5. Spelled(Append(Append(s, a), b), 2)
        BY <2>1, <2>3, <2>4, SpelledOn
    <2> QED
        BY <2>1, <2>2, <2>3, <2>5, SpelledOn
<1>6. ASSUME NEW a, NEW b, NEW c, NEW d, q = <<a, b, c, d>>,
             Within(a, 240, 244), Trailing(b), Trailing(c), Trailing(d), a = 240 => b >= 144, a = 244 => b <= 143
      PROVE  Spelled(s \o q, 0)
    <2>1. a \in Int /\ b \in Int /\ c \in Int /\ d \in Int
        BY <1>6 DEF Within, Trailing
    <2>2. s \o q = Append(Append(Append(Append(s, a), b), c), d)
        <3>1. s \o <<a, b, c, d>> = Append(Append(Append(Append(s, a), b), c), d)
            BY <1>1, <2>1, BytesInARow
        <3> QED
            BY <1>6, <3>1
    <2>3. Decode(Decode(0, a), b) = 3 /\ Decode(3, c) = 2 /\ Decode(2, d) = 0
        <3>1. Within(b, 128, 191) /\ (a = 240 => Within(b, 144, 191)) /\ (a = 244 => Within(b, 128, 143))
            BY <1>6 DEF Within, Trailing
        <3>2. a = 240 \/ a = 244 \/ Within(a, 241, 243)
            BY <1>6 DEF Within
        <3>3. Decode(Decode(0, a), b) = 3
            BY <3>1, <3>2, FirstBytes, LaterBytes
        <3> QED
            BY <1>6, <3>3, LaterBytes DEF Trailing
    <2>4. Spelled(Append(s, a), Decode(0, a))
        BY <1>1, <2>1, SpelledOn
    <2>5. Spelled(Append(Append(s, a), b), 3)
        BY <2>1, <2>3, <2>4, SpelledOn
    <2>6. Spelled(Append(Append(Append(s, a), b), c), 2)
        BY <2>1, <2>3, <2>5, SpelledOn
    <2> QED
        BY <2>1, <2>2, <2>3, <2>6, SpelledOn
<1> QED
    BY <1>3, <1>4, <1>5, <1>6 DEF OneCharacter

LEMMA AsciiIsSpelled ==
    ASSUME NEW s, WellSpelled(s), NEW c, Within(c, 0, 127)
    PROVE  WellSpelled(Append(s, c))
<1>1. Spelled(s, 0) /\ c \in Int /\ Decode(0, c) = 0
    BY FirstBytes DEF WellSpelled, Spelled, Within
<1>2. Spelled(Append(s, c), Decode(0, c))
    BY <1>1, SpelledOn
<1> QED
    BY <1>1, <1>2 DEF WellSpelled, Spelled

LEMMA TailIsBegun ==
    ASSUME NEW s, WellSpelled(s), NEW c, Within(c, 194, 244)
    PROVE  Append(s, c) \in Seq(Int) /\ Amid(Utf8State(Append(s, c)), TailRanges(c))
<1>1. Spelled(s, 0) /\ c \in Int
    BY DEF WellSpelled, Spelled, Within
<1>2. Spelled(Append(s, c), Decode(0, c))
    BY <1>1, SpelledOn
<1> QED
    BY <1>2, TailBegins DEF Spelled

LEMMA RangeIsWithin ==
    ASSUME NEW a \in Int, NEW b \in Int, NEW c \in Int
    PROVE  c \in a..b <=> Within(c, a, b)
BY DEF Within

-----------------------------------------------------------------------------
(* The characters \u denotes                                               *)

\* The values of hexadecimal digits.
Nibbles(s) == s \in Seq(Int) /\ \A i \in 1..Len(s) : Within(s[i], 0, 15)

LEMMA DigitIsNibble ==
    ASSUME NEW c \in DOMAIN HexDigit
    PROVE  Within(HexDigit[c], 0, 15)
<1>1. DOMAIN HexDigit = Digits \cup 65..70 \cup 97..102
    BY DEF HexDigit
<1>2. CASE c \in Digits
    BY <1>2 DEF HexDigit, Digits, Within
<1>3. CASE c \in 65..70
    BY <1>3 DEF HexDigit, Digits, Within
<1>4. CASE c \in 97..102
    BY <1>4 DEF HexDigit, Digits, Within
<1> QED
    BY <1>1, <1>2, <1>3, <1>4

LEMMA OneNibbleMore ==
    ASSUME NEW s, Nibbles(s), NEW n, Within(n, 0, 15)
    PROVE  Nibbles(Append(s, n)) /\ Len(Append(s, n)) = Len(s) + 1 /\ Len(s) \in Nat
<1>1. s \in Seq(Int) /\ n \in Int
    BY DEF Nibbles, Within
<1>2. /\ Append(s, n) \in Seq(Int) /\ Len(Append(s, n)) = Len(s) + 1 /\ Len(s) \in Nat
      /\ Append(s, n)[Len(s) + 1] = n /\ \A i \in 1..Len(s) : Append(s, n)[i] = s[i]
    BY <1>1, AppendProperties
<1>3. \A i \in 1..(Len(s) + 1) : i = Len(s) + 1 \/ i \in 1..Len(s)
    BY <1>2
<1> QED
    BY <1>2, <1>3 DEF Nibbles

LEMMA CodepointRange ==
    ASSUME NEW d, Nibbles(d), Len(d) = 4
    PROVE  Within(Codepoint(d), 0, 65535)
<1>1. Within(d[1], 0, 15) /\ Within(d[2], 0, 15) /\ Within(d[3], 0, 15) /\ Within(d[4], 0, 15)
    BY DEF Nibbles
<1> QED
    BY <1>1 DEF Codepoint, Within

LEMMA SurrogateOrScalar ==
    ASSUME NEW cp, Within(cp, 0, 65535)
    PROVE  /\ cp \in HighSurrogate <=> Within(cp, 55296, 56319)
           /\ cp \in LowSurrogate <=> Within(cp, 56320, 57343)
           /\ cp \notin HighSurrogate /\ cp \notin LowSurrogate => IsScalar(cp)
<1>1. /\ cp \in HighSurrogate <=> Within(cp, 55296, 56319)
      /\ cp \in LowSurrogate <=> Within(cp, 56320, 57343)
    BY RangeIsWithin DEF HighSurrogate, LowSurrogate, Within
<1> QED
    BY <1>1 DEF IsScalar, Within

LEMMA PairIsScalar ==
    ASSUME NEW high, Within(high, 55296, 56319), NEW low, Within(low, 56320, 57343)
    PROVE  IsScalar(Paired(high, low))
BY DEF Paired, IsScalar, Within

-----------------------------------------------------------------------------
(* What the lexer has spelled in its buffer                                *)

Spells(l, t) ==
    /\ l.at \in {"string", "escape", "hex", "pair"} => WellSpelled(l.buffer)
    /\ l.at = "tail" => l.buffer \in Seq(Int) /\ Amid(Utf8State(l.buffer), l.left)
    /\ l.at = "hex" => Nibbles(l.left)
    /\ l.at \in {"hex", "pair"} => l.high = 0 \/ Within(l.high, 55296, 56319)
    /\ l.at = "literal" => l.type # "value_string"
    /\ l.at = "returned" /\ t = "value_string" => WellSpelled(l.buffer)

Spelling == Spells(lex, token)

LEMMA GetSpells ==
    ASSUME NEW c, NEW l, WellFormed(l), Spells(l, token), Get(c, l)
    PROVE  Spelling'
<1>1. lex' = [l EXCEPT !.current = c, !.unget = FALSE] /\ token' = token
    BY DEF Get
<1>2. lex'.at = l.at /\ lex'.left = l.left /\ lex'.buffer = l.buffer /\ lex'.type = l.type /\ lex'.high = l.high
    BY <1>1 DEF WellFormed
<1> QED
    BY <1>1, <1>2 DEF Spells, Spelling

LEMMA UngetSpells ==
    ASSUME NEW c, NEW l, WellFormed(l), Spells(l, token'), Unget(c, l)
    PROVE  Spelling'
<1>1. lex' = [l EXCEPT !.current = c, !.unget = TRUE]
    BY DEF Unget
<1>2. lex'.at = l.at /\ lex'.left = l.left /\ lex'.buffer = l.buffer /\ lex'.type = l.type /\ lex'.high = l.high
    BY <1>1 DEF WellFormed
<1> QED
    BY <1>2 DEF Spells, Spelling

LEMMA ReturnSpells ==
    ASSUME WellFormed(lex), NEW c, NEW t, Return(c, t), t = "value_string" => WellSpelled(lex.buffer)
    PROVE  Spelling'
<1>1. lex' = [lex EXCEPT !.current = c, !.unget = FALSE, !.at = "returned", !.left = <<>>] /\ token' = t
    BY DEF Return
<1>2. lex'.at = "returned" /\ lex'.buffer = lex.buffer
    BY <1>1 DEF WellFormed
<1> QED
    BY <1>1, <1>2 DEF Spells, Spelling

LEMMA RefusalSpells == ASSUME WellFormed(lex), NEW c, Return(c, "parse_error") PROVE Spelling'
BY ReturnSpells

LEMMA SkipBomSpells == ASSUME WellFormed(lex), SkipBom PROVE Spelling'
<1>1. PICK c \in Readable :
         IF c = lex.left[1]
         THEN Get(c, [lex EXCEPT !.left = Tail(@), !.at = IF Len(lex.left) = 1 THEN "space" ELSE @])
         ELSE IF Len(lex.left) = 3 THEN Unget(c, [lex EXCEPT !.at = "space"]) /\ UNCHANGED token
         ELSE Return(c, "parse_error")
    BY DEF SkipBom
<1>2. lex.at = "bom"
    BY DEF SkipBom
<1> DEFINE l == [lex EXCEPT !.left = Tail(@), !.at = IF Len(lex.left) = 1 THEN "space" ELSE @]
           m == [lex EXCEPT !.at = "space"]
<1>3. l.at \in {"bom", "space"} /\ WellFormed(l) /\ m.at = "space" /\ WellFormed(m)
    BY <1>2 DEF WellFormed
<1> HIDE DEF l, m
<1>4. \A t : Spells(l, t) /\ Spells(m, t)
    BY <1>3 DEF Spells
<1>5. Get(c, l) \/ Unget(c, m) \/ Return(c, "parse_error")
    BY <1>1 DEF l, m
<1> QED
    BY <1>3, <1>4, <1>5, GetSpells, UngetSpells, RefusalSpells

LEMMA ScanSpells == ASSUME WellFormed(lex), Spelling, Scan PROVE Spelling'
<1>1. PICK c \in Readable :
         CASE c \in Whitespace -> Get(c, lex)
           [] c \in DOMAIN Structural -> Return(c, Structural[c])
           [] c \in DOMAIN Literals ->
                Get(c, [lex EXCEPT !.at = "literal", !.left = Literals[c].rest, !.type = Literals[c].token])
           [] c = 34 -> Get(c, [lex EXCEPT !.at = "string", !.buffer = <<>>])
           [] c = 45 -> Get(c, [lex EXCEPT !.at = "minus", !.buffer = <<c>>, !.type = "value_integer"])
           [] c = 48 -> Get(c, [lex EXCEPT !.at = "zero", !.buffer = <<c>>, !.type = "value_unsigned"])
           [] c \in 49..57 -> Get(c, [lex EXCEPT !.at = "any1", !.buffer = <<c>>, !.type = "value_unsigned"])
           [] c \in {0, Eof} -> Return(c, "end_of_input")
           [] OTHER -> Return(c, "parse_error")
    BY DEF Scan
<1>2. \A t : Return(c, t) /\ t # "value_string" => Spelling'
    BY ReturnSpells
<1>3. \A l : WellFormed(l) /\ Spells(l, token) /\ Get(c, l) => Spelling'
    BY GetSpells
<1> DEFINE l1 == [lex EXCEPT !.at = "literal", !.left = Literals[c].rest, !.type = Literals[c].token]
           l2 == [lex EXCEPT !.at = "string", !.buffer = <<>>]
           l3 == [lex EXCEPT !.at = "minus", !.buffer = <<c>>, !.type = "value_integer"]
           l4 == [lex EXCEPT !.at = "zero", !.buffer = <<c>>, !.type = "value_unsigned"]
           l5 == [lex EXCEPT !.at = "any1", !.buffer = <<c>>, !.type = "value_unsigned"]
<1>4. c \in DOMAIN Literals => WellFormed(l1) /\ Spells(l1, token)
    <2> SUFFICES ASSUME c \in DOMAIN Literals PROVE WellFormed(l1) /\ Spells(l1, token)
        OBVIOUS
    <2>1. Literals[c].token \in Tokens /\ Literals[c].token # "value_string"
        BY NamedTokens DEF Literals
    <2>2. WellFormed(l1) /\ l1.at = "literal" /\ l1.type # "value_string"
        BY <2>1 DEF WellFormed
    <2> HIDE DEF l1
    <2> QED
        BY <2>2 DEF Spells
<1>5. WellFormed(l2) /\ Spells(l2, token)
    <2>1. WellFormed(l2) /\ l2.at = "string" /\ l2.buffer = <<>>
        BY DEF WellFormed
    <2> HIDE DEF l2
    <2> QED
        BY <2>1, NothingIsSpelled DEF Spells
<1>6. WellFormed(l3) /\ WellFormed(l4) /\ WellFormed(l5) /\ l3.at = "minus" /\ l4.at = "zero" /\ l5.at = "any1"
    BY NamedTokens DEF WellFormed
<1>7. Spells(lex, token)
    BY DEF Spelling
<1>8. c \in DOMAIN Structural => Structural[c] # "value_string"
    BY DEF Structural
<1> HIDE DEF l1, l2, l3, l4, l5
<1>9. Spells(l3, token) /\ Spells(l4, token) /\ Spells(l5, token)
    BY <1>6 DEF Spells
<1>10. \/ Get(c, lex)
       \/ c \in DOMAIN Structural /\ Return(c, Structural[c])
       \/ c \in DOMAIN Literals /\ Get(c, l1)
       \/ Get(c, l2) \/ Get(c, l3) \/ Get(c, l4) \/ Get(c, l5)
       \/ Return(c, "end_of_input") \/ Return(c, "parse_error")
    BY <1>1, Zenon DEF l1, l2, l3, l4, l5
<1>11. "end_of_input" # "value_string" /\ "parse_error" # "value_string"
    OBVIOUS
<1> QED
    BY <1>2, <1>3, <1>4, <1>5, <1>6, <1>7, <1>8, <1>9, <1>10, <1>11, Zenon

LEMMA ScanLiteralSpells == ASSUME WellFormed(lex), Spelling, ScanLiteral PROVE Spelling'
<1>1. PICK c \in Readable :
         IF c # lex.left[1] THEN Return(c, "parse_error")
         ELSE IF Len(lex.left) = 1 THEN Return(c, lex.type)
         ELSE Get(c, [lex EXCEPT !.left = Tail(@)])
    BY DEF ScanLiteral
<1>2. lex.at = "literal" /\ lex.type # "value_string"
    BY DEF ScanLiteral, Spelling, Spells
<1> DEFINE l == [lex EXCEPT !.left = Tail(@)]
<1>3. WellFormed(l) /\ l.at = "literal" /\ l.type # "value_string"
    BY <1>2 DEF WellFormed
<1>4. Return(c, "parse_error") \/ Return(c, lex.type) \/ Get(c, l)
    BY <1>1
<1> HIDE DEF l
<1>5. Spells(l, token)
    BY <1>3 DEF Spells
<1> QED
    BY <1>2, <1>3, <1>4, <1>5, GetSpells, ReturnSpells, RefusalSpells

LEMMA ScanStringSpells == ASSUME Reading, job \in DOMAIN Jobs, Spelling, ScanString PROVE Spelling'
<1> DEFINE Quote(c) == Return(c, "value_string")
           Backslash(c) == Get(c, [lex EXCEPT !.at = "escape"])
           Stands(c) == Get(c, [lex EXCEPT !.buffer = Append(@, c)])
           Begins(c) == Get(c, [lex EXCEPT !.at = "tail", !.buffer = Append(@, c), !.left = TailRanges(c)])
           Fails(c) == Return(c, "parse_error")
           Lead(c) == c \in 194..244
           Refused(c) == c \in Control \cup {Eof} \/ c \in 128..193 \/ c > 244
<1>1. PICK c \in Readable :
         CASE c = 34 -> Quote(c)
           [] c = 92 -> Backslash(c)
           [] c \in Plain -> Stands(c)
           [] Lead(c) -> Begins(c)
           [] Refused(c) -> Fails(c)
    BY DEF ScanString
<1>2. WellFormed(lex) /\ lex.at = "string" /\ WellSpelled(lex.buffer) /\ lex.buffer \in Seq(Int)
    BY DEF Reading, LexOK, ScanString, Spelling, Spells, WellSpelled
<1>3. c = 34 \/ c = 92 \/ c \in Plain \/ Lead(c) \/ Refused(c)
    BY BytesAreRead DEF Bytes, Plain, Control, Eof
<1> DEFINE b == Append(lex.buffer, c)
           q == TailRanges(c)
           l1 == [lex EXCEPT !.at = "escape"]
           l2 == [lex EXCEPT !.buffer = Append(@, c)]
           l3 == [lex EXCEPT !.at = "tail", !.buffer = Append(@, c), !.left = q]
<1>4. Quote(c) \/ Backslash(c) \/ (c \in Plain /\ Stands(c)) \/ (Lead(c) /\ Begins(c)) \/ Fails(c)
    <2> HIDE DEF Quote, Backslash, Stands, Begins, Fails, Lead, Refused
    <2> QED
        BY <1>1, <1>3, Zenon
<1>5. c \in Plain => WellSpelled(b)
    <2> SUFFICES ASSUME c \in Plain PROVE WellSpelled(b)
        OBVIOUS
    <2>1. Within(c, 0, 127)
        BY DEF Plain, Within
    <2> QED
        BY <1>2, <2>1, AsciiIsSpelled
<1>6. Lead(c) => b \in Seq(Int) /\ Amid(Utf8State(b), q)
    <2> SUFFICES ASSUME Lead(c) PROVE b \in Seq(Int) /\ Amid(Utf8State(b), q)
        OBVIOUS
    <2>1. Within(c, 194, 244)
        BY BytesAreRead, RangeIsWithin DEF Bytes, Eof
    <2> QED
        BY <1>2, <2>1, TailIsBegun
<1> HIDE DEF q
<1>7. /\ WellFormed(l1) /\ l1.at = "escape" /\ l1.buffer = lex.buffer
      /\ WellFormed(l2) /\ l2.at = "string" /\ l2.buffer = b
      /\ WellFormed(l3) /\ l3.at = "tail" /\ l3.buffer = b /\ l3.left = q
    BY <1>2 DEF WellFormed
<1>8. \/ Return(c, "value_string") \/ Get(c, l1)
      \/ c \in Plain /\ Get(c, l2)
      \/ Lead(c) /\ Get(c, l3)
      \/ Return(c, "parse_error")
    <2> HIDE DEF Lead
    <2> QED
        BY <1>4, Zenon DEF q
<1> HIDE DEF b, l1, l2, l3, Lead
<1>9. /\ Spells(l1, token)
      /\ c \in Plain => Spells(l2, token)
      /\ Lead(c) => Spells(l3, token)
    BY <1>2, <1>5, <1>6, <1>7 DEF Spells
<1> QED
    BY <1>2, <1>7, <1>8, <1>9, GetSpells, ReturnSpells, RefusalSpells

LEMMA ScanTailSpells == ASSUME Reading, job \in DOMAIN Jobs, Spelling, ScanTail PROVE Spelling'
<1>1. PICK c \in Readable :
         IF c \in lex.left[1][1]..lex.left[1][2]
         THEN Get(c, [lex EXCEPT !.buffer = Append(@, c), !.left = Tail(@),
                                 !.at = IF Len(lex.left) = 1 THEN "string" ELSE @])
         ELSE Return(c, "parse_error")
    BY DEF ScanTail
<1>2. WellFormed(lex) /\ lex.at = "tail" /\ lex.buffer \in Seq(Int) /\ Amid(Utf8State(lex.buffer), lex.left)
    BY DEF Reading, LexOK, ScanTail, Spelling, Spells
<1>3. CASE c \in lex.left[1][1]..lex.left[1][2]
    <2> DEFINE b == Append(lex.buffer, c)
               q == Tail(lex.left)
               p == IF Len(lex.left) = 1 THEN "string" ELSE "tail"
               l == [lex EXCEPT !.buffer = b, !.left = q, !.at = p]
    <2>1. Get(c, l)
        BY <1>1, <1>2, <1>3
    <2>2. c \in Int
        BY BytesAreRead DEF Bytes, Eof
    <2>3. b \in Seq(Int) /\ Utf8State(b) = Decode(Utf8State(lex.buffer), c)
        BY <1>2, <2>2, OneByteMore
    <2>4. IF Len(lex.left) = 1 THEN Utf8State(b) = 0 ELSE Amid(Utf8State(b), q)
        <3>1. Within(c, lex.left[1][1], lex.left[1][2])
            BY <1>2, <1>3, BoundsAreNumbers, RangeIsWithin
        <3> DEFINE k == Utf8State(lex.buffer)
                   left == lex.left
        <3> HIDE DEF k, left
        <3>2. Amid(k, left) /\ Within(c, left[1][1], left[1][2])
            BY <1>2, <3>1 DEF k, left
        <3>3. IF Len(left) = 1 THEN Decode(k, c) = 0 ELSE Amid(Decode(k, c), Tail(left))
            BY <3>2, TailGoesOn
        <3> QED
            BY <2>3, <3>3 DEF k, left
    <2>5. p \in {"string", "tail"} /\ (p = "string" => WellSpelled(b)) /\ (p = "tail" => Amid(Utf8State(b), q))
        BY <2>3, <2>4 DEF WellSpelled
    <2> HIDE DEF b, q, p
    <2>6. WellFormed(l) /\ l.at = p /\ l.buffer = b /\ l.left = q
        BY <1>2, <2>5 DEF WellFormed
    <2> HIDE DEF l
    <2>7. Spells(l, token)
        BY <2>3, <2>5, <2>6 DEF Spells
    <2> QED
        BY <2>1, <2>6, <2>7, GetSpells
<1>4. CASE c \notin lex.left[1][1]..lex.left[1][2]
    BY <1>1, <1>2, <1>4, RefusalSpells
<1> QED
    BY <1>3, <1>4

LEMMA ScanEscapeSpells == ASSUME Reading, job \in DOMAIN Jobs, Spelling, ScanEscape PROVE Spelling'
<1>1. PICK c \in Readable :
         CASE c \in DOMAIN Escapes -> Get(c, [lex EXCEPT !.at = "string", !.buffer = Append(@, Escapes[c])])
           [] c = 117 -> Get(c, [lex EXCEPT !.at = "hex", !.left = <<>>, !.high = 0])
           [] OTHER -> Return(c, "parse_error")
    BY DEF ScanEscape
<1>2. WellFormed(lex) /\ WellSpelled(lex.buffer) /\ lex.buffer \in Seq(Int)
    BY DEF Reading, LexOK, ScanEscape, Spelling, Spells, WellSpelled
<1> DEFINE b == Append(lex.buffer, Escapes[c])
           l1 == [lex EXCEPT !.at = "string", !.buffer = b]
           l2 == [lex EXCEPT !.at = "hex", !.left = <<>>, !.high = 0]
<1>3. \/ c \in DOMAIN Escapes /\ Get(c, l1)
      \/ Get(c, l2)
      \/ Return(c, "parse_error")
    BY <1>1, Zenon
<1>4. c \in DOMAIN Escapes => WellSpelled(b)
    <2> SUFFICES ASSUME c \in DOMAIN Escapes PROVE WellSpelled(b)
        OBVIOUS
    <2>1. Within(Escapes[c], 0, 127)
        BY DEF Escapes, Within
    <2> QED
        BY <1>2, <2>1, AsciiIsSpelled
<1> HIDE DEF b
<1>5. /\ WellFormed(l1) /\ l1.at = "string" /\ l1.buffer = b
      /\ WellFormed(l2) /\ l2.at = "hex" /\ l2.buffer = lex.buffer /\ l2.left = <<>> /\ l2.high = 0
    BY <1>2 DEF WellFormed
<1>6. Nibbles(<<>>)
    BY DEF Nibbles
<1> HIDE DEF l1, l2
<1>7. (c \in DOMAIN Escapes => Spells(l1, token)) /\ Spells(l2, token)
    BY <1>2, <1>4, <1>5, <1>6 DEF Spells
<1> QED
    BY <1>2, <1>3, <1>5, <1>7, GetSpells, RefusalSpells

LEMMA ScanPairSpells == ASSUME Reading, job \in DOMAIN Jobs, Spelling, ScanPair PROVE Spelling'
<1>1. PICK c \in Readable :
         IF c = lex.left[1]
         THEN Get(c, [lex EXCEPT !.left = Tail(@), !.at = IF Len(lex.left) = 1 THEN "hex" ELSE @])
         ELSE Return(c, "parse_error")
    BY DEF ScanPair
<1>2. /\ WellFormed(lex) /\ lex.at = "pair" /\ lex.left \in Seq(Int) /\ Len(lex.left) \in 1..2
      /\ WellSpelled(lex.buffer) /\ (lex.high = 0 \/ Within(lex.high, 55296, 56319))
    BY DEF ScanPair, Reading, LexOK, WellFormed, Spelling, Spells
<1> DEFINE q == Tail(lex.left)
           p == IF Len(lex.left) = 1 THEN "hex" ELSE "pair"
           l == [lex EXCEPT !.left = q, !.at = p]
<1>3. q \in Seq(Int) /\ (p = "hex" => Len(q) = 0) /\ (p = "pair" => Len(q) = 1) /\ p \in {"hex", "pair"}
    BY <1>2, RestOfTwo
<1>4. Get(c, l) \/ Return(c, "parse_error")
    BY <1>1, <1>2
<1> HIDE DEF q, p
<1>5. p = "hex" => Nibbles(q)
    BY <1>3 DEF Nibbles
<1>6. WellFormed(l) /\ l.at = p /\ l.left = q /\ l.buffer = lex.buffer /\ l.high = lex.high
    BY <1>2, <1>3 DEF WellFormed
<1> HIDE DEF l
<1>7. Spells(l, token)
    BY <1>2, <1>3, <1>5, <1>6 DEF Spells
<1> QED
    BY <1>2, <1>4, <1>6, <1>7, GetSpells, RefusalSpells

LEMMA ScanHexSpells == ASSUME Reading, job \in DOMAIN Jobs, Spelling, ScanHex PROVE Spelling'
<1> DEFINE Digit(c) == Append(lex.left, HexDigit[c])
           Add(c, cp) == Get(c, [lex EXCEPT !.at = "string", !.left = <<>>, !.high = 0, !.buffer = @ \o Utf8(cp)])
           Half(c, cp) == Get(c, [lex EXCEPT !.at = "pair", !.left = <<92, 117>>, !.high = cp])
<1>1. PICK c \in Readable :
         IF c \notin DOMAIN HexDigit THEN Return(c, "parse_error")
         ELSE CASE Len(Digit(c)) < 4 -> Get(c, [lex EXCEPT !.left = Digit(c)])
                [] Len(Digit(c)) = 4 /\ lex.high # 0 ->
                     IF Codepoint(Digit(c)) \in LowSurrogate THEN Add(c, Paired(lex.high, Codepoint(Digit(c))))
                     ELSE Return(c, "parse_error")
                [] Len(Digit(c)) = 4 /\ lex.high = 0 ->
                     IF Codepoint(Digit(c)) \in HighSurrogate
                     THEN Half(c, Codepoint(Digit(c)))
                     ELSE IF Codepoint(Digit(c)) \in LowSurrogate THEN Return(c, "parse_error")
                     ELSE Add(c, Codepoint(Digit(c)))
    BY DEF ScanHex
<1>2. Return(c, "parse_error") => Spelling'
    BY RefusalSpells DEF Reading, LexOK
<1>3. /\ WellFormed(lex) /\ lex.at = "hex" /\ Nibbles(lex.left) /\ Len(lex.left) < 4
      /\ WellSpelled(lex.buffer) /\ (lex.high = 0 \/ Within(lex.high, 55296, 56319))
    BY DEF ScanHex, Reading, LexOK, WellFormed, Spelling, Spells
<1>4. ASSUME NEW cp, IsScalar(cp), Add(c, cp) PROVE Spelling'
    <2> DEFINE b == lex.buffer \o Utf8(cp)
               l == [lex EXCEPT !.at = "string", !.left = <<>>, !.high = 0, !.buffer = @ \o Utf8(cp)]
    <2>1. Get(c, l)
        BY <1>4
    <2>2. WellSpelled(b)
        BY <1>3, <1>4, Utf8IsWellFormed, CharacterIsSpelled
    <2>3. WellFormed(l) /\ l.at = "string" /\ l.buffer = b
        <3> DEFINE u == Utf8(cp)
        <3> HIDE DEF u
        <3> QED
            BY <1>3 DEF WellFormed, u
    <2> HIDE DEF b, l
    <2>4. Spells(l, token)
        BY <2>2, <2>3 DEF Spells
    <2> QED
        BY <2>1, <2>3, <2>4, GetSpells
<1>5. ASSUME NEW h, Within(h, 55296, 56319), Half(c, h) PROVE Spelling'
    <2> DEFINE l == [lex EXCEPT !.at = "pair", !.left = <<92, 117>>, !.high = h]
    <2>1. <<92, 117>> \in Seq(Int) /\ Len(<<92, 117>>) = 2
        OBVIOUS
    <2>2. WellFormed(l) /\ l.at = "pair" /\ l.buffer = lex.buffer /\ l.high = h
        BY <1>3, <2>1 DEF WellFormed
    <2>3. Get(c, l)
        BY <1>5
    <2> HIDE DEF l
    <2>4. Spells(l, token)
        BY <1>3, <1>5, <2>2 DEF Spells
    <2> QED
        BY <2>2, <2>3, <2>4, GetSpells
<1>6. CASE c \in DOMAIN HexDigit
    <2> DEFINE q == Digit(c)
               cp == Codepoint(q)
    <2>1. Nibbles(q) /\ Len(q) = Len(lex.left) + 1 /\ Len(lex.left) \in Nat
        BY <1>3, <1>6, DigitIsNibble, OneNibbleMore
    <2>2. Len(q) < 4 \/ Len(q) = 4
        <3> HIDE DEF q
        <3> QED
            BY <1>3, <2>1
    <2>3. CASE Len(q) < 4
        <3> DEFINE l == [lex EXCEPT !.left = q]
        <3>1. Get(c, l)
            <4>1. ~(Len(q) = 4)
                BY <2>3
            <4> HIDE DEF Add, Half, q, cp
            <4> QED
                BY <1>1, <1>6, <2>3, <4>1 DEF q
        <3>2. q \in Seq(Int)
            BY <2>1 DEF Nibbles
        <3> HIDE DEF q
        <3>3. WellFormed(l) /\ l.at = "hex" /\ l.left = q /\ l.buffer = lex.buffer /\ l.high = lex.high
            BY <1>3, <2>3, <3>2 DEF WellFormed
        <3> HIDE DEF l
        <3>4. Spells(l, token)
            BY <1>3, <2>1, <3>3 DEF Spells
        <3> QED
            BY <3>1, <3>3, <3>4, GetSpells
    <2>4. CASE Len(q) = 4
        <3>1. Within(cp, 0, 65535)
            <4> HIDE DEF q
            <4> QED
                BY <2>1, <2>4, CodepointRange
        <3>2. ~(Len(q) < 4)
            BY <2>4
        <3>3. CASE lex.high # 0
            <4>1. Return(c, "parse_error") \/ (cp \in LowSurrogate /\ Add(c, Paired(lex.high, cp)))
                <5>1. ~(lex.high = 0)
                    BY <3>3
                <5> HIDE DEF Add, Half, q, cp
                <5> QED
                    BY <1>1, <1>6, <2>4, <3>2, <5>1 DEF q, cp
            <4> HIDE DEF Add, Half, q, cp
            <4>2. cp \in LowSurrogate => IsScalar(Paired(lex.high, cp))
                BY <1>3, <3>1, <3>3, SurrogateOrScalar, PairIsScalar
            <4> QED
                BY <1>2, <1>4, <4>1, <4>2
        <3>4. CASE lex.high = 0
            <4>1. \/ Return(c, "parse_error")
                  \/ cp \notin HighSurrogate /\ cp \notin LowSurrogate /\ Add(c, cp)
                  \/ cp \in HighSurrogate /\ Half(c, cp)
                <5> HIDE DEF Add, Half, q, cp
                <5> QED
                    BY <1>1, <1>6, <2>4, <3>2, <3>4 DEF q, cp
            <4> HIDE DEF Add, Half, q, cp
            <4>2. /\ cp \notin HighSurrogate /\ cp \notin LowSurrogate => IsScalar(cp)
                  /\ cp \in HighSurrogate => Within(cp, 55296, 56319)
                BY <3>1, SurrogateOrScalar
            <4> QED
                BY <1>2, <1>4, <1>5, <4>1, <4>2
        <3> QED
            BY <3>3, <3>4
    <2> QED
        BY <2>2, <2>3, <2>4
<1> QED
    BY <1>1, <1>2, <1>6

LEMMA ScanNumberSpells == ASSUME WellFormed(lex), ScanNumber PROVE Spelling'
<1> DEFINE Where(c) == IF lex.at \in {"exponent", "sign", "any2"} THEN ExponentNext(lex.at, c) ELSE NumberNext(lex.at, c)
<1>1. PICK c \in Readable :
         CASE Where(c) = "error" -> Return(c, "parse_error")
           [] Where(c) = "done" -> Unget(c, [lex EXCEPT !.at = "returned"]) /\ token' = NumberDone
           [] OTHER -> Get(c, [lex EXCEPT !.at = Where(c), !.buffer = Append(@, c), !.type = NumberType(Where(c))])
    BY DEF ScanNumber
<1> DEFINE p == Where(c)
           t == NumberType(p)
           l == [lex EXCEPT !.at = "returned"]
           m == [lex EXCEPT !.at = p, !.buffer = Append(@, c), !.type = t]
<1>2. p \notin {"string", "escape", "tail", "hex", "pair", "literal", "returned"}
    BY DEF ExponentNext, NumberNext
<1>3. NumberDone # "value_string" /\ NumberDone \in Tokens
    BY NamedTokens DEF NumberDone
<1> HIDE DEF p
<1>4. t \in Tokens
    BY NamedTokens DEF NumberType, WellFormed
<1>5. \/ Return(c, "parse_error")
      \/ Unget(c, l) /\ token' = NumberDone
      \/ Get(c, m)
    BY <1>1 DEF p
<1> HIDE DEF t
<1>6. WellFormed(l) /\ l.at = "returned"
    BY DEF WellFormed
<1>7. WellFormed(m) /\ m.at = p
    <2> DEFINE b == Append(lex.buffer, c)
    <2> HIDE DEF b
    <2> QED
        BY <1>2, <1>4 DEF WellFormed, b
<1> HIDE DEF l, m
<1>8. Spells(m, token) /\ Spells(l, NumberDone)
    BY <1>2, <1>3, <1>6, <1>7 DEF Spells
<1> QED
    BY <1>5, <1>6, <1>7, <1>8, GetSpells, UngetSpells, RefusalSpells

LEMMA ParserSpells == ASSUME WellFormed(lex), Spelling, Parser PROVE Spelling'
<1>1. CASE UNCHANGED <<lex, token>>
    BY <1>1 DEF Spelling, Spells
<1>2. CASE GetToken
    <2>1. lex'.at = "space"
        BY <1>2 DEF GetToken, WellFormed
    <2> QED
        BY <2>1 DEF Spelling, Spells
<1> QED
    BY <1>1, <1>2 DEF Parser, BeginObject, EmptyObject, Key, FirstColon, NextColon, NextMember, EndObject,
       BeginArray, EmptyArray, FirstElement, NextElement, EndArray, Scalar, Accept, Unexpected, NumberOverflow

-----------------------------------------------------------------------------
(* What the builder has made of it                                         *)

\* A string and the keys of an object are spelled to their end.
CellSpelled(n) ==
    /\ n.kind = "string" => WellSpelled(n.value)
    /\ n.kind = "object" => \A k \in DOMAIN n.value : WellSpelled(k)

HeapSpelled(h) == \A a \in DOMAIN h : CellSpelled(h[a])

LEMMA EmptyCells == CellSpelled(Null) /\ CellSpelled(Gone)
BY DEF CellSpelled, Null, Gone, Node

LEMMA EmplaceSpells ==
    ASSUME Sound(heap), Back \in DOMAIN heap, heap[Back].kind = "array", HeapSpelled(heap),
           NEW v, CellSpelled(v)
    PROVE  HeapSpelled(EmplaceBack(v))
<1> DEFINE h == EmplaceBack(v)
           old == heap[Back].value
           n == Len(heap)
<1>1. PICK m : Emplaced(h, v, m)
    BY EmplaceBackEffect
<1> HIDE DEF h
<1>2. /\ n \in Nat /\ DOMAIN heap = 1..n /\ Len(old) \in Nat /\ DOMAIN old = 1..Len(old) /\ m \in {0, Len(old)}
      /\ DOMAIN h = 1..(n + m + 1) /\ h[n + m + 1] = v
    BY <1>1 DEF Sound, IsSequence, Emplaced
<1>3. ASSUME NEW a \in DOMAIN h PROVE CellSpelled(h[a])
    <2>1. CASE a = n + m + 1
        BY <1>2, <2>1
    <2>2. CASE a = Back
        BY <1>1, <2>2 DEF Emplaced, CellSpelled
    <2>3. CASE a \in 1..n /\ a # Back
        <3>1. h[a] = Gone \/ h[a] = heap[a]
            BY <1>1, <2>3 DEF Emplaced
        <3> QED
            BY <1>2, <2>3, <3>1, EmptyCells DEF HeapSpelled
    <2>4. CASE a \in (n + 1)..(n + m)
        <3> DEFINE k == a - n
        <3>1. k \in 1..m /\ a = n + k /\ k \in 1..Len(old)
            BY <1>2, <2>4
        <3>2. h[a] = heap[old[k]]
            BY <1>1, <3>1 DEF Emplaced
        <3>3. Holds(heap, Back, k)
            BY <1>2, <3>1 DEF Holds
        <3>4. old[k] \in DOMAIN heap
            BY <3>3 DEF Sound
        <3> QED
            BY <3>2, <3>4 DEF HeapSpelled
    <2> QED
        BY <1>2, <2>1, <2>2, <2>3, <2>4
<1> QED
    BY <1>3 DEF HeapSpelled, h

LEMMA AssignSpells ==
    ASSUME HeapSpelled(heap), NEW t, NEW v, CellSpelled(v)
    PROVE  HeapSpelled([heap EXCEPT ![t] = v])
BY DEF HeapSpelled

LEMMA HandleSpells ==
    ASSUME Builder, HeapSpelled(heap), NEW v, CellSpelled(v), HandleValue(v)
    PROVE  HeapSpelled(heap')
<1>1. CASE InArray
    <2>1. Sound(heap) /\ Back \in DOMAIN heap /\ heap[Back].kind = "array"
        BY <1>1 DEF InArray, Builder, Path, Back
    <2> QED
        BY <1>1, <2>1, EmplaceSpells DEF HandleValue
<1>2. CASE ~InArray
    BY <1>2, AssignSpells DEF HandleValue
<1> QED
    BY <1>1, <1>2

LEMMA KeySpells ==
    ASSUME Builder, Spelling, HeapSpelled(heap), Key
    PROVE  HeapSpelled(heap')
<1>1. WellSpelled(lex.buffer)
    BY DEF Key, Looking, Spelling, Spells
<1>2. Sound(heap) /\ Path /\ refStack # <<>> /\ heap[Back].kind = "object" /\ Back \in DOMAIN heap
    BY KeyIsInObject DEF Builder, Path, Kind, Back
<1>3. SetKey(lex.buffer)
    BY DEF Key
<1> DEFINE k == lex.buffer
           n == Len(heap)
           h == WithKey(k)
<1>4. CASE k \in DOMAIN heap[Back].value
    BY <1>3, <1>4 DEF SetKey
<1>5. CASE k \notin DOMAIN heap[Back].value
    <2>1. heap' = h
        BY <1>3, <1>5 DEF SetKey, WithKey
    <2>2. /\ IsSequence(h) /\ Len(h) = n + 1 /\ DOMAIN heap = 1..n /\ n \in Nat
          /\ h[n + 1] = Null /\ \A a \in 1..n : a # Back => h[a] = heap[a]
          /\ h[Back].kind = "object" /\ DOMAIN h[Back].value = DOMAIN heap[Back].value \cup {k}
        BY <1>2, <1>5, WithKeyEffect
    <2>3. CellSpelled(h[Back])
        BY <1>1, <1>2, <2>2 DEF HeapSpelled, CellSpelled
    <2> HIDE DEF h, k
    <2>4. ASSUME NEW a \in DOMAIN h PROVE CellSpelled(h[a])
        <3>1. a = n + 1 \/ a \in 1..n
            BY <2>2 DEF IsSequence
        <3> QED
            BY <2>2, <2>3, <3>1, EmptyCells DEF HeapSpelled
    <2> QED
        BY <2>1, <2>4 DEF HeapSpelled
<1> QED
    BY <1>4, <1>5

LEMMA ScalarSpells ==
    ASSUME Builder, Spelling, HeapSpelled(heap), Scalar
    PROVE  HeapSpelled(heap')
<1> DEFINE v == Node(ScalarKind[token], TokenValue)
<1>1. token \in DOMAIN ScalarKind /\ lex.at = "returned" /\ HandleValue(v)
    BY DEF Scalar
<1>2. v.kind = ScalarKind[token] /\ v.value = TokenValue
    BY DEF Node
<1>3. ScalarKind[token] # "object" /\ (ScalarKind[token] = "string" => token = "value_string")
    BY <1>1 DEF ScalarKind
<1>4. token = "value_string" => TokenValue = lex.buffer /\ WellSpelled(lex.buffer)
    BY <1>1 DEF TokenValue, Spelling, Spells
<1> HIDE DEF v
<1>5. CellSpelled(v)
    BY <1>2, <1>3, <1>4 DEF CellSpelled
<1> QED
    BY <1>1, <1>5, HandleSpells

LEMMA ParserSpellsHeap ==
    ASSUME Builder, Spelling, HeapSpelled(heap), Parser
    PROVE  HeapSpelled(heap')
<1>1. CASE BeginObject
    <2> DEFINE v == Node("object", [k \in {} |-> 0])
    <2>1. HandleValue(v)
        BY <1>1 DEF BeginObject, Start
    <2>2. CellSpelled(v)
        BY DEF CellSpelled, Node
    <2> HIDE DEF v
    <2> QED
        BY <2>1, <2>2, HandleSpells
<1>2. CASE BeginArray
    <2> DEFINE v == Node("array", <<>>)
    <2>1. HandleValue(v)
        BY <1>2 DEF BeginArray, Start
    <2>2. CellSpelled(v)
        BY DEF CellSpelled, Node
    <2> HIDE DEF v
    <2> QED
        BY <2>1, <2>2, HandleSpells
<1>3. CASE UNCHANGED heap
    BY <1>3
<1> QED
    BY <1>1, <1>2, <1>3, KeySpells, ScalarSpells DEF Parser, EmptyObject, FirstColon, NextColon, NextMember,
       EndObject, EmptyArray, FirstElement, NextElement, EndArray, Accept, Unexpected, NumberOverflow, End

-----------------------------------------------------------------------------
(* The invariant                                                           *)

SpellingIInv == JsonIInv /\ Spelling /\ HeapSpelled(heap)

LEMMA JsonInitSpells == JsonInit => SpellingIInv
<1> SUFFICES ASSUME JsonInit PROVE SpellingIInv
    OBVIOUS
<1>1. lex.at = "bom" /\ heap = <<Null>>
    BY DEF JsonInit
<1>2. HeapSpelled(heap)
    BY <1>1, EmptyCells DEF HeapSpelled
<1> QED
    BY <1>1, <1>2, JsonInitIInv DEF SpellingIInv, Spelling, Spells

LEMMA JsonNextSpells == SpellingIInv /\ [JsonNext]_jsonVars => SpellingIInv'
<1> SUFFICES ASSUME SpellingIInv, [JsonNext]_jsonVars PROVE SpellingIInv'
    OBVIOUS
<1>1. JsonIInv'
    BY JsonNextIInv DEF SpellingIInv
<1>2. Builder /\ Reading /\ WellFormed(lex) /\ job \in DOMAIN Jobs /\ Spelling /\ HeapSpelled(heap)
    BY DEF SpellingIInv, JsonIInv, Reading, LexOK
<1>3. ASSUME UNCHANGED jsonVars PROVE Spelling' /\ HeapSpelled(heap')
    BY <1>2, <1>3 DEF jsonVars, Spelling
<1>4. ASSUME Lexer PROVE Spelling' /\ HeapSpelled(heap')
    <2>1. Spelling'
        BY <1>2, <1>4, SkipBomSpells, ScanSpells, ScanLiteralSpells, ScanStringSpells, ScanTailSpells,
           ScanEscapeSpells, ScanHexSpells, ScanPairSpells, ScanNumberSpells DEF Lexer
    <2>2. UNCHANGED parserVars
        BY <1>4 DEF Lexer, SkipBom, Scan, ScanLiteral, ScanString, ScanTail, ScanEscape, ScanHex, ScanPair, ScanNumber
    <2> QED
        BY <1>2, <2>1, <2>2 DEF parserVars
<1>5. ASSUME Parser PROVE Spelling' /\ HeapSpelled(heap')
    BY <1>2, <1>5, ParserSpells, ParserSpellsHeap
<1> QED
    BY <1>1, <1>3, <1>4, <1>5 DEF JsonNext, SpellingIInv

LEMMA SpelledIsUtf8 == SpellingIInv => StringsAreUtf8
BY DEF SpellingIInv, HeapSpelled, CellSpelled, WellSpelled, Utf8State, IsUtf8, StringsAreUtf8

(* What the lexer lets into a string or a key, dump() can write: for every *)
(* text, the lexer's ranges of bytes and the characters it makes of \u     *)
(* are what the table of the decoder accepts.                              *)
THEOREM StringsStayUtf8 == JsonSpec => []StringsAreUtf8
BY JsonInitSpells, JsonNextSpells, SpelledIsUtf8, PTL DEF JsonSpec

-----------------------------------------------------------------------------
(* The scheduler of CppTimers.                                             *)
(*                                                                         *)
(* Neither of the last two theorems is inductive.  What carries them is    *)
(* that the coroutine looks in time: the age of a working session and the  *)
(* time its timer has left never add up to more than Timeout + Retry       *)
(* (LookedAt).  Time passes for both at once, so this needs the poller     *)
(* never to sleep beyond the earliest timer (SleepsShort); that no timer   *)
(* is lost needs that the number a session gives to remove_timer() is one  *)
(* of its own (OwnTimers), and that a destroyed session had been closed    *)
(* (GoneIsDown).                                                           *)

OwnTimers == \A s \in Sessions, t \in queue : t.id = timerOf[s] => t.session = s

GoneIsDown == \A s \in Sessions : place[s] = "gone" => ~up[s]

SleepsShort == at = "wait" => \A t \in queue : sleep <= t.left

LookedAt ==
    \A s \in Sessions : up[s] /\ state[s] = "Working" =>
        \E t \in queue : Watches(t, s) /\ age[s] + t.left <= Timeout + Retry

IInv == TypeOK /\ OwnTimers /\ GoneIsDown /\ SleepsShort /\ LookedAt

-----------------------------------------------------------------------------
(* Init, and the steps that leave the sessions and their timers alone.     *)

LEMMA InitOK == Init => IInv
<1> SUFFICES ASSUME Init PROVE IInv
    OBVIOUS
<1>1. TypeOK
    BY TimesAssumption DEF Init, TypeOK, AgeCap
<1>2. OwnTimers /\ GoneIsDown /\ SleepsShort /\ LookedAt
    BY DEF Init, OwnTimers, GoneIsDown, SleepsShort, LookedAt
<1> QED
    BY <1>1, <1>2 DEF IInv

LEMMA StutterOK == ASSUME IInv, UNCHANGED vars PROVE IInv'
<1> USE DEF vars, sessionVars, timerVars, workerVars
<1>1. TypeOK'
    BY DEF IInv, TypeOK
<1>2. OwnTimers' /\ GoneIsDown' /\ SleepsShort'
    BY DEF IInv, OwnTimers, GoneIsDown, SleepsShort
<1>3. LookedAt'
    BY DEF IInv, LookedAt, Watches
<1> QED
    BY <1>1, <1>2, <1>3 DEF IInv

LEMMA AdoptOK == ASSUME IInv, NEW s \in Sessions, Adopt(s) PROVE IInv'
<1> USE DEF Adopt, timerVars, workerVars
<1>1. TypeOK'
    BY DEF IInv, TypeOK
<1>2. OwnTimers' /\ GoneIsDown' /\ SleepsShort'
    BY DEF IInv, TypeOK, OwnTimers, GoneIsDown, SleepsShort
<1>3. LookedAt'
    BY DEF IInv, LookedAt, Watches
<1> QED
    BY <1>1, <1>2, <1>3 DEF IInv

LEMMA PollOK == ASSUME IInv, Poll PROVE IInv'
<1> USE DEF Poll, timerVars, sessionVars
<1>1. TypeOK'
    BY DEF IInv, TypeOK
<1>2. OwnTimers' /\ GoneIsDown'
    BY DEF IInv, OwnTimers, GoneIsDown
<1>3. SleepsShort'
  <2>1. PICK n \in 0..Idle : NextTimeout(n) /\ sleep' = n
      OBVIOUS
  <2>2. ASSUME NEW t \in queue PROVE n <= t.left
    <3>1. queue # {} /\ t.left \in Nat
        BY DEF IInv, TypeOK
    <3>2. PICK u \in Tops : n = IF u.left < Idle THEN u.left ELSE Idle
        BY <2>1, <3>1 DEF NextTimeout
    <3>3. u.left \in Nat /\ u.left <= t.left
        BY <3>2 DEF Tops, IInv, TypeOK
    <3> QED
        BY <3>1, <3>2, <3>3, TimesAssumption
  <2> QED
      BY <2>1, <2>2 DEF SleepsShort
<1>4. LookedAt'
    BY DEF IInv, LookedAt, Watches
<1> QED
    BY <1>1, <1>2, <1>3, <1>4 DEF IInv

LEMMA WaitOverOK ==
    ASSUME IInv, PollTimesOut \/ PollReports \/ EventsEnd \/ TickEnds \/ \E s \in Sessions : HandleEvent(s)
    PROVE  IInv'
<1> USE DEF PollTimesOut, PollReports, EventsEnd, TickEnds, HandleEvent, sessionVars, timerVars
<1>1. TypeOK'
    BY DEF IInv, TypeOK
<1>2. OwnTimers' /\ GoneIsDown' /\ SleepsShort'
    BY DEF IInv, OwnTimers, GoneIsDown, SleepsShort
<1>3. LookedAt'
    BY DEF IInv, LookedAt, Watches
<1> QED
    BY <1>1, <1>2, <1>3 DEF IInv

LEMMA TimePassesOK == ASSUME IInv, TimePasses PROVE IInv'
<1> DEFINE Later(t) == [t EXCEPT !.left = Less(@)]
<1> SUFFICES ASSUME TRUE PROVE IInv'
    OBVIOUS
<1>0. /\ at = "wait" /\ sleep > 0 /\ sleep \in 0..Idle /\ Idle \in Nat
      /\ queue' = {Later(t) : t \in queue}
    BY TimesAssumption DEF IInv, TypeOK, TimePasses
<1>1. ASSUME NEW t \in queue
      PROVE  /\ t \in [id : 1..(nextId - 1), session : Sessions, left : Nat, done : BOOLEAN]
             /\ Later(t) \in [id : 1..(nextId - 1), session : Sessions, left : Nat, done : BOOLEAN]
             /\ Later(t).id = t.id /\ Later(t).session = t.session /\ Later(t).done = t.done
             /\ t.left > 0 /\ Later(t).left = t.left - 1 /\ sleep <= t.left
    BY <1>0 DEF IInv, TypeOK, SleepsShort, Less
<1> HIDE DEF Later
<1>2. TypeOK'
  <2>1. age' \in [Sessions -> 0..AgeCap]
      BY TimesAssumption DEF IInv, TypeOK, TimePasses, AgeCap
  <2>2. /\ queue' \subseteq [id : 1..(nextId - 1), session : Sessions, left : Nat, done : BOOLEAN]
        /\ \A t, u \in queue' : t.id = u.id => t = u
      BY <1>0, <1>1 DEF IInv, TypeOK
  <2>3. sleep' \in 0..Idle
      BY <1>0 DEF TimePasses
  <2> QED
      BY <2>1, <2>2, <2>3 DEF IInv, TypeOK, TimePasses
<1>3. OwnTimers'
    BY <1>0, <1>1 DEF IInv, OwnTimers, TimePasses
<1>4. GoneIsDown'
    BY DEF IInv, GoneIsDown, TimePasses
<1>5. SleepsShort'
    BY <1>0, <1>1 DEF SleepsShort, TimePasses
<1>6. LookedAt'
  <2> SUFFICES ASSUME NEW s \in Sessions, up[s], state[s] = "Working"
               PROVE  \E t \in queue' : Watches(t, s)' /\ age'[s] + t.left <= Timeout + Retry
      BY DEF LookedAt, TimePasses
  <2>1. PICK t \in queue : Watches(t, s) /\ age[s] + t.left <= Timeout + Retry
      BY DEF IInv, LookedAt
  <2>2. age'[s] + Later(t).left <= Timeout + Retry
      BY <1>1, <2>1, TimesAssumption DEF IInv, TypeOK, TimePasses, AgeCap
  <2>3. Later(t) \in queue' /\ Watches(Later(t), s)'
      BY <1>0, <1>1, <2>1 DEF Watches, TimePasses
  <2> QED
      BY <2>2, <2>3
<1> QED
    BY <1>2, <1>3, <1>4, <1>5, <1>6 DEF IInv

-----------------------------------------------------------------------------
(* Packages.                                                               *)

\* Closing a session, or leaving it as it is, takes no timer from another one:
\* the sessions that still run have the watchers they had.
LEMMA SendKeeps ==
    ASSUME IInv, NEW s \in Sessions, Send(s)
    PROVE  /\ up' \in [Sessions -> BOOLEAN] /\ removed' \subseteq 1..(nextId - 1)
           /\ timerOf' \in [Sessions -> 0..(nextId - 1)]
           /\ \A r \in Sessions : /\ up'[r] => up[r]
                                  /\ timerOf'[r] \in {0, timerOf[r]}
                                  /\ r # s => up'[r] = up[r]
           /\ \A r \in Sessions, t \in queue : up'[r] /\ Watches(t, r) => Watches(t, r)'
<1>1. CASE UNCHANGED <<up, removed, timerOf>>
    BY <1>1 DEF IInv, TypeOK, Watches
<1>2. CASE CloseSession(s)
  <2>1. /\ up' \in [Sessions -> BOOLEAN] /\ removed' \subseteq 1..(nextId - 1)
        /\ timerOf' \in [Sessions -> 0..(nextId - 1)]
    <3>1. up' \in [Sessions -> BOOLEAN]
        BY <1>2 DEF CloseSession, IInv, TypeOK
    <3>2. timerOf[s] \in 0..(nextId - 1) /\ nextId \in Nat \ {0}
        BY DEF IInv, TypeOK
    <3>3. removed' \subseteq 1..(nextId - 1)
      <4>1. timerOf[s] # 0 => timerOf[s] \in 1..(nextId - 1)
          BY <3>2
      <4>2. removed' = removed \/ (timerOf[s] # 0 /\ removed' = removed \cup {timerOf[s]})
          BY <1>2 DEF CloseSession
      <4> QED
          BY <4>1, <4>2 DEF IInv, TypeOK
    <3>4. timerOf' = timerOf \/ timerOf' = [timerOf EXCEPT ![s] = 0]
        BY <1>2 DEF CloseSession
    <3>5. timerOf' \in [Sessions -> 0..(nextId - 1)]
        BY <3>2, <3>4 DEF IInv, TypeOK
    <3> QED
        BY <3>1, <3>3, <3>5
  <2>2. \A r \in Sessions : /\ up'[r] => up[r]
                            /\ timerOf'[r] \in {0, timerOf[r]}
                            /\ r # s => up'[r] = up[r]
      BY <1>2 DEF CloseSession, IInv, TypeOK
  <2>3. ASSUME NEW r \in Sessions, NEW t \in queue, up'[r], Watches(t, r)
        PROVE  Watches(t, r)'
    <3>1. r # s
        BY <1>2, <2>3 DEF CloseSession, IInv, TypeOK
    <3>2. t.id # timerOf[s]
        BY <2>3, <3>1 DEF Watches, IInv, OwnTimers
    <3> QED
        BY <1>2, <2>3, <3>2 DEF CloseSession, Watches
  <2> QED
      BY <2>1, <2>2, <2>3
<1> QED
    BY <1>1, <1>2 DEF Send

LEMMA ClosedStateType ==
    ASSUME IInv, NEW s \in Sessions, state' = ClosedState(s)
    PROVE  /\ state' \in [Sessions -> {"Inited", "WaitAck", "Working", "Closed"}]
           /\ \A r \in Sessions : state'[r] = "Working" => state[r] = "Working"
BY DEF IInv, TypeOK, ClosedState

LEMMA HandshakeOK == ASSUME IInv, NEW s \in Sessions, HandleHandshake(s) PROVE IInv'
<1> USE DEF HandleHandshake, Package, workerVars
<1>0. Send(s)
    OBVIOUS
<1>1. TypeOK'
    BY <1>0, SendKeeps DEF IInv, TypeOK
<1>2. OwnTimers' /\ GoneIsDown' /\ SleepsShort'
    BY <1>0, SendKeeps DEF IInv, TypeOK, OwnTimers, GoneIsDown, SleepsShort
<1>3. LookedAt'
    BY <1>0, SendKeeps DEF IInv, TypeOK, LookedAt
<1> QED
    BY <1>1, <1>2, <1>3 DEF IInv

LEMMA AnswerOK ==
    ASSUME IInv, NEW s \in Sessions, HandleAndAnswer(s) \/ HandleKick(s)
    PROVE  IInv'
<1> USE DEF HandleAndAnswer, HandleKick, Package, workerVars
<1>0. Send(s) /\ state' = ClosedState(s) /\ age' \in {age, [age EXCEPT ![s] = 0]}
    BY DEF Send
<1>1. TypeOK'
    BY <1>0, SendKeeps, ClosedStateType, TimesAssumption DEF IInv, TypeOK, AgeCap
<1>2. OwnTimers' /\ GoneIsDown' /\ SleepsShort'
    BY <1>0, SendKeeps DEF IInv, TypeOK, OwnTimers, GoneIsDown, SleepsShort
<1>3. LookedAt'
  <2> SUFFICES ASSUME NEW r \in Sessions, up'[r], state'[r] = "Working"
               PROVE  \E t \in queue' : Watches(t, r)' /\ age'[r] + t.left <= Timeout + Retry
      BY DEF LookedAt
  <2>1. up[r] /\ state[r] = "Working"
      BY <1>0, SendKeeps, ClosedStateType
  <2>2. PICK t \in queue : Watches(t, r) /\ age[r] + t.left <= Timeout + Retry
      BY <2>1 DEF IInv, LookedAt
  <2>3. age'[r] + t.left <= Timeout + Retry
      BY <1>0, <2>2, TimesAssumption DEF IInv, TypeOK, AgeCap
  <2> QED
      BY <1>0, <2>2, <2>3, SendKeeps
<1> QED
    BY <1>1, <1>2, <1>3 DEF IInv

LEMMA AckOK == ASSUME IInv, NEW s \in Sessions, HandleHandshakeAck(s) PROVE IInv'
<1> DEFINE new == Timer(nextId, s, 0, ~up[s])
<1> USE DEF HandleHandshakeAck, AddTimerTask, Package, workerVars
<1>0. /\ nextId \in Nat \ {0} /\ nextId' = nextId + 1 /\ queue' = queue \cup {new}
      /\ removed' = removed /\ up' = up /\ new.id = nextId /\ new.session = s /\ new.left = 0
      /\ new.done = ~up[s]
    BY DEF IInv, TypeOK, Timer
<1>1. TypeOK'
  <2>1. age' \in [Sessions -> 0..AgeCap] /\ timerOf' \in [Sessions -> 0..(nextId' - 1)]
        /\ removed' \subseteq 1..(nextId' - 1)
        /\ state' \in [Sessions -> {"Inited", "WaitAck", "Working", "Closed"}]
      BY <1>0, TimesAssumption DEF IInv, TypeOK, AgeCap
  <2>2. queue' \subseteq [id : 1..(nextId' - 1), session : Sessions, left : Nat, done : BOOLEAN]
    <3>1. new \in [id : 1..(nextId' - 1), session : Sessions, left : Nat, done : BOOLEAN]
        BY <1>0 DEF Timer
    <3>2. queue \subseteq [id : 1..(nextId' - 1), session : Sessions, left : Nat, done : BOOLEAN]
        BY <1>0 DEF IInv, TypeOK
    <3> QED
        BY <1>0, <3>1, <3>2
  <2>3. \A t, u \in queue' : t.id = u.id => t = u
      BY <1>0 DEF IInv, TypeOK
  <2> QED
      BY <1>0, <2>1, <2>2, <2>3 DEF IInv, TypeOK
<1>2. OwnTimers'
  <2>1. \A t \in queue : t.id # nextId
      BY <1>0 DEF IInv, TypeOK
  <2>2. \A r \in Sessions : timerOf[r] # nextId
      BY <1>0 DEF IInv, TypeOK
  <2>3. \A r \in Sessions : timerOf'[r] = IF r = s THEN nextId ELSE timerOf[r]
      BY DEF IInv, TypeOK
  <2> QED
      BY <1>0, <2>1, <2>2, <2>3 DEF IInv, OwnTimers
<1>3. GoneIsDown' /\ SleepsShort'
    BY DEF IInv, GoneIsDown, SleepsShort
<1>4. LookedAt'
  <2> SUFFICES ASSUME NEW r \in Sessions, up[r], state'[r] = "Working"
               PROVE  \E t \in queue' : Watches(t, r)' /\ age'[r] + t.left <= Timeout + Retry
      BY <1>0 DEF LookedAt
  <2>1. CASE r = s
    <3>1. age'[r] = 0 /\ nextId \notin removed
        BY <1>0, <2>1 DEF IInv, TypeOK
    <3>2. PICK t : t = new
        OBVIOUS
    <3>3. t \in queue' /\ t.id = nextId /\ t.session = s /\ t.left = 0
        BY <1>0, <3>2
    <3>4. ~t.done
        BY <1>0, <2>1, <3>2
    <3>5. Watches(t, r)'
        BY <1>0, <2>1, <3>1, <3>3, <3>4 DEF Watches
    <3>6. age'[r] + t.left <= Timeout + Retry
        BY <3>1, <3>3, TimesAssumption
    <3> QED
        BY <3>3, <3>5, <3>6
  <2>2. CASE r # s
    <3>1. state[r] = "Working" /\ age'[r] = age[r]
        BY <2>2 DEF IInv, TypeOK
    <3> QED
        BY <1>0, <3>1 DEF IInv, LookedAt, Watches
  <2> QED
      BY <2>1, <2>2
<1> QED
    BY <1>1, <1>2, <1>3, <1>4 DEF IInv

LEMMA ReadReturnsOK == ASSUME IInv, NEW s \in Sessions, ReadReturns(s) PROVE IInv'
<1> USE DEF ReadReturns, sessionVars
<1>1. CASE up[s] /\ UNCHANGED sessionVars /\ UNCHANGED removed
  <2>1. TypeOK'
      BY <1>1 DEF IInv, TypeOK
  <2>2. OwnTimers' /\ GoneIsDown' /\ SleepsShort'
      BY <1>1 DEF IInv, OwnTimers, GoneIsDown, SleepsShort
  <2>3. LookedAt'
      BY <1>1 DEF IInv, LookedAt, Watches
  <2> QED
      BY <2>1, <2>2, <2>3 DEF IInv
<1>2. CASE CloseSession(s) /\ state' = ClosedState(s) /\ place' = [place EXCEPT ![s] = "gone"] /\ UNCHANGED age
  <2>0. Send(s)
      BY <1>2 DEF Send
  <2>1. TypeOK'
      BY <1>2, <2>0, SendKeeps, ClosedStateType DEF IInv, TypeOK
  <2>2. OwnTimers' /\ SleepsShort'
      BY <2>0, SendKeeps DEF IInv, TypeOK, OwnTimers, SleepsShort
  <2>3. GoneIsDown'
      BY <1>2, <2>0, SendKeeps DEF IInv, TypeOK, GoneIsDown, CloseSession
  <2>4. LookedAt'
      BY <1>2, <2>0, SendKeeps, ClosedStateType DEF IInv, LookedAt
  <2> QED
      BY <2>1, <2>2, <2>3, <2>4 DEF IInv
<1> QED
    BY <1>1, <1>2

-----------------------------------------------------------------------------
(* Timers.                                                                 *)

LEMMA TimerType ==
    ASSUME IInv, NEW t \in queue
    PROVE  /\ t.id \in 1..(nextId - 1) /\ t.session \in Sessions /\ t.left \in Nat /\ t.done \in BOOLEAN
           /\ \A u \in queue : u.id = t.id => u = t
BY DEF IInv, TypeOK

\* A timer that watches nobody may go.
LEMMA UselessGoes ==
    ASSUME IInv, NEW t \in queue, queue' = queue \ {t}, removed' \in {removed, removed \ {t.id}},
           UNCHANGED <<nextId, sessionVars, workerVars, twice>>,
           \A s \in Sessions : up[s] /\ state[s] = "Working" => ~Watches(t, s)
    PROVE  IInv'
<1> USE DEF sessionVars, workerVars
<1>1. TypeOK'
    BY DEF IInv, TypeOK
<1>2. OwnTimers' /\ GoneIsDown' /\ SleepsShort'
    BY DEF IInv, OwnTimers, GoneIsDown, SleepsShort
<1>3. LookedAt'
  <2> SUFFICES ASSUME NEW s \in Sessions, up[s], state[s] = "Working"
               PROVE  \E u \in queue' : Watches(u, s)' /\ age[s] + u.left <= Timeout + Retry
      BY DEF LookedAt
  <2>1. PICK u \in queue : Watches(u, s) /\ age[s] + u.left <= Timeout + Retry
      BY DEF IInv, LookedAt
  <2>2. u # t
      BY <2>1
  <2>3. Watches(u, s)'
      BY <2>1 DEF Watches
  <2> QED
      BY <2>1, <2>2, <2>3
<1> QED
    BY <1>1, <1>2, <1>3 DEF IInv

LEMMA DropOK == ASSUME IInv, NEW t \in queue, DropRemoved(t) \/ DropDone(t) PROVE IInv'
BY UselessGoes DEF DropRemoved, DropDone, Due, Watches

LEMMA BeatReturnsOK == ASSUME IInv, NEW t \in queue, BeatReturns(t) PROVE IInv'
BY UselessGoes DEF BeatReturns, Resume, Watches, sessionVars

\* A timer that is put back for Retry, as it was, watches whom it has watched.
LEMMA PutBack ==
    ASSUME IInv, NEW t \in queue, t.done = FALSE,
           queue' = (queue \ {t}) \cup {Timer(t.id, t.session, Retry, FALSE)}
    PROVE  /\ queue' \subseteq [id : 1..(nextId - 1), session : Sessions, left : Nat, done : BOOLEAN]
           /\ \A u, v \in queue' : u.id = v.id => u = v
           /\ \A u \in queue' : \E v \in queue : u.id = v.id /\ u.session = v.session
           /\ Timer(t.id, t.session, Retry, FALSE) \in queue'
<1>1. PICK new : new = Timer(t.id, t.session, Retry, FALSE)
    OBVIOUS
<1>2. /\ new \in [id : 1..(nextId - 1), session : Sessions, left : Nat, done : BOOLEAN]
      /\ new.id = t.id /\ new.session = t.session
    BY <1>1, TimerType, TimesAssumption DEF Timer
<1>3. queue' = (queue \ {t}) \cup {new}
    BY <1>1
<1>4. queue' \subseteq [id : 1..(nextId - 1), session : Sessions, left : Nat, done : BOOLEAN]
    BY <1>2, <1>3 DEF IInv, TypeOK
<1>5. \A u, v \in queue' : u.id = v.id => u = v
    BY <1>2, <1>3, TimerType
<1>6. \A u \in queue' : \E v \in queue : u.id = v.id /\ u.session = v.session
    BY <1>2, <1>3
<1> QED
    BY <1>1, <1>3, <1>4, <1>5, <1>6

LEMMA BeatDanglesOK == ASSUME IInv, NEW t \in queue, BeatDangles(t) PROVE IInv'
<1> USE DEF BeatDangles, Due, Pop, sessionVars, workerVars
<1>1. ~up[t.session]
    BY TimerType DEF IInv, GoneIsDown
<1>2. CASE queue' = queue \ {t}
    BY <1>1, <1>2, UselessGoes DEF Watches
<1>3. CASE queue' = (queue \ {t}) \cup {[t EXCEPT !.left = Retry]}
  <2>0. t.done = FALSE /\ [t EXCEPT !.left = Retry] = Timer(t.id, t.session, Retry, FALSE)
    <3>1. t.done = FALSE
        BY TimerType
    <3>2. t \in [id : 1..(nextId - 1), session : Sessions, left : Nat, done : BOOLEAN]
        BY DEF IInv, TypeOK
    <3>3. [t EXCEPT !.left = Retry] = Timer(t.id, t.session, Retry, t.done)
        BY <3>2 DEF Timer
    <3> QED
        BY <3>1, <3>3
  <2>1. TypeOK'
      BY <1>3, <2>0, PutBack DEF IInv, TypeOK
  <2>2. OwnTimers'
    <3>1. \A u \in queue' : \E v \in queue : u.id = v.id /\ u.session = v.session
        BY <1>3, <2>0, PutBack
    <3> QED
        BY <3>1 DEF IInv, OwnTimers
  <2>3. GoneIsDown' /\ SleepsShort'
      BY DEF IInv, GoneIsDown, SleepsShort
  <2>4. LookedAt'
    <3> SUFFICES ASSUME NEW s \in Sessions, up[s], state[s] = "Working"
                 PROVE  \E u \in queue' : Watches(u, s)' /\ age[s] + u.left <= Timeout + Retry
        BY DEF LookedAt
    <3>1. PICK u \in queue : Watches(u, s) /\ age[s] + u.left <= Timeout + Retry
        BY DEF IInv, LookedAt
    <3>2. u # t
        BY <1>1, <3>1 DEF Watches
    <3> QED
        BY <1>3, <3>1, <3>2 DEF Watches
  <2> QED
      BY <2>1, <2>2, <2>3, <2>4 DEF IInv
<1> QED
    BY <1>2, <1>3

\* The coroutine of session s has looked at it and the others keep theirs.
LEMMA OthersKeep ==
    ASSUME IInv, NEW t \in queue, Resume(t), Send(t.session), state' = ClosedState(t.session),
           queue \ {t} \subseteq queue',
           NEW r \in Sessions, r # t.session, up'[r], state'[r] = "Working"
    PROVE  \E u \in queue' : Watches(u, r)' /\ age'[r] + u.left <= Timeout + Retry
<1>1. up[r] /\ state[r] = "Working" /\ age' = age /\ t.session \in Sessions
    BY SendKeeps, ClosedStateType, TimerType DEF Resume
<1>2. PICK u \in queue : Watches(u, r) /\ age[r] + u.left <= Timeout + Retry
    BY <1>1 DEF IInv, LookedAt
<1>3. u # t
    BY <1>2 DEF Watches
<1> QED
    BY <1>1, <1>2, <1>3, SendKeeps

LEMMA BeatTimeoutOK == ASSUME IInv, NEW t \in queue, BeatTimeout(t) PROVE IInv'
<1> USE DEF BeatTimeout
<1>0. /\ Send(t.session) /\ state' = ClosedState(t.session) /\ t.session \in Sessions
      /\ queue' = queue \ {t} /\ Resume(t) /\ ~up'[t.session]
    BY TimerType DEF Send, CloseSession, IInv, TypeOK
<1>1. TypeOK'
    BY <1>0, SendKeeps, ClosedStateType DEF IInv, TypeOK, Resume, workerVars
<1>2. OwnTimers' /\ GoneIsDown' /\ SleepsShort'
    BY <1>0, SendKeeps DEF IInv, TypeOK, OwnTimers, GoneIsDown, SleepsShort, Resume, workerVars
<1>3. LookedAt'
    BY <1>0, OthersKeep DEF LookedAt
<1> QED
    BY <1>1, <1>2, <1>3 DEF IInv

LEMMA BeatSendsOK == ASSUME IInv, NEW t \in queue, BeatSends(t) PROVE IInv'
<1>0. /\ Send(t.session) /\ state' = ClosedState(t.session) /\ t.session \in Sessions
      /\ Resume(t) /\ ~t.done /\ t.id \notin removed /\ age[t.session] <= Timeout
      /\ age' = age /\ place' = place /\ nextId' = nextId /\ twice' = twice
      /\ UNCHANGED workerVars /\ at = "tick" /\ t.done = FALSE
    BY TimerType DEF BeatSends, Resume, Due, Pop
<1>1. CASE ~up'[t.session]
  <2>0. queue' = queue \ {t}
      BY <1>1 DEF BeatSends
  <2>1. TypeOK'
      BY <1>0, <2>0, SendKeeps, ClosedStateType DEF IInv, TypeOK, workerVars
  <2>2. OwnTimers' /\ GoneIsDown' /\ SleepsShort'
      BY <1>0, <2>0, SendKeeps DEF IInv, TypeOK, OwnTimers, GoneIsDown, SleepsShort, workerVars
  <2>3. LookedAt'
      BY <1>0, <1>1, <2>0, OthersKeep DEF LookedAt
  <2> QED
      BY <2>1, <2>2, <2>3 DEF IInv
<1>2. CASE up'[t.session]
  <2>1. PICK new : new = Timer(t.id, t.session, Retry, FALSE)
      OBVIOUS
  <2>2. new.id = t.id /\ new.session = t.session /\ new.left = Retry /\ ~new.done
      BY <2>1 DEF Timer
  <2>3. queue' = (queue \ {t}) \cup {new}
      BY <1>2, <2>1 DEF BeatSends
  <2>4. TypeOK'
      BY <1>0, <2>1, <2>3, PutBack, SendKeeps, ClosedStateType DEF IInv, TypeOK, workerVars
  <2>5. OwnTimers'
    <3>1. \A u \in queue' : \E v \in queue : u.id = v.id /\ u.session = v.session
        BY <1>0, <2>1, <2>3, PutBack
    <3>2. \A r \in Sessions, v \in queue : v.id = timerOf'[r] => v.session = r
      <4>1. \A v \in queue : v.id # 0
          BY TimerType
      <4> QED
          BY <1>0, <4>1, SendKeeps DEF IInv, OwnTimers
    <3> QED
        BY <3>1, <3>2 DEF OwnTimers
  <2>6. GoneIsDown' /\ SleepsShort'
      BY <1>0, SendKeeps DEF IInv, GoneIsDown, SleepsShort, workerVars
  <2>7. LookedAt'
    <3> SUFFICES ASSUME NEW r \in Sessions, up'[r], state'[r] = "Working"
                 PROVE  \E u \in queue' : Watches(u, r)' /\ age'[r] + u.left <= Timeout + Retry
        BY DEF LookedAt
    <3>1. CASE r = t.session
      <4>1. removed' = removed
          BY <1>0, <1>2 DEF Send, CloseSession, IInv, TypeOK
      <4>2. Watches(new, r)'
          BY <1>0, <2>2, <3>1, <4>1 DEF Watches
      <4>3. age'[r] + new.left <= Timeout + Retry
          BY <1>0, <2>2, <3>1, TimesAssumption DEF IInv, TypeOK, AgeCap
      <4> QED
          BY <2>3, <4>2, <4>3
    <3>2. CASE r # t.session
        BY <1>0, <2>3, <3>2, OthersKeep
    <3> QED
        BY <3>1, <3>2
  <2> QED
      BY <2>4, <2>5, <2>6, <2>7 DEF IInv
<1> QED
    BY <1>1, <1>2

-----------------------------------------------------------------------------
(* Results.                                                                *)

LEMMA NextOK == ASSUME IInv, [Next]_vars PROVE IInv'
<1>1. ASSUME NEW s \in Sessions, Adopt(s) PROVE IInv'
    BY <1>1, AdoptOK
<1>2. ASSUME Poll \/ TimePasses \/ PollTimesOut \/ PollReports \/ EventsEnd PROVE IInv'
    BY <1>2, PollOK, TimePassesOK, WaitOverOK
<1>3. ASSUME Read PROVE IInv'
    BY <1>3, WaitOverOK, HandshakeOK, AckOK, AnswerOK, ReadReturnsOK DEF Read
<1>4. ASSUME Tick PROVE IInv'
    BY <1>4, WaitOverOK, DropOK, BeatReturnsOK, BeatTimeoutOK, BeatSendsOK, BeatDanglesOK DEF Tick
<1> QED
    BY <1>1, <1>2, <1>3, <1>4, StutterOK DEF Next

THEOREM Invariance == Spec => []IInv
<1>1. Init => IInv
    BY InitOK
<1>2. IInv /\ [Next]_vars => IInv'
    BY NextOK
<1> QED
    BY <1>1, <1>2, PTL DEF Spec

(* No two timers of the scheduler have one id and none has an id that is   *)
(* yet to be given; the other variables have their types.                  *)
THEOREM TypeCorrect == Spec => []TypeOK
<1>1. IInv => TypeOK
    BY DEF IInv
<1> QED
    BY <1>1, Invariance, PTL

(* While a session works, a coroutine of its own waits to look at it.      *)
THEOREM WorkingSessionsAreWatched == Spec => []WorkingIsWatched
<1>1. IInv => WorkingIsWatched
    BY DEF IInv, LookedAt, WorkingIsWatched
<1> QED
    BY <1>1, Invariance, PTL

(* A session whose client has been silent for longer than the timeout and  *)
(* one look of its coroutine is closed.                                    *)
THEOREM LateSessionsAreClosed == Spec => []LateIsClosed
<1>1. ASSUME IInv PROVE LateIsClosed
  <2> SUFFICES ASSUME NEW s \in Sessions, up[s], state[s] = "Working"
               PROVE  age[s] <= Timeout + Retry
      BY DEF LateIsClosed
  <2>1. PICK t \in queue : age[s] + t.left <= Timeout + Retry
      BY <1>1 DEF IInv, LookedAt
  <2> QED
      BY <1>1, <2>1, TimerType, TimesAssumption DEF IInv, TypeOK, AgeCap
<1> QED
    BY <1>1, Invariance, PTL
=============================================================================
