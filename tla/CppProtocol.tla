----------------------------- MODULE CppProtocol -----------------------------
(***************************************************************************)
(* The codecs of the C++ echo server, protocol.hpp and protocol.cpp: how a *)
(* package and a message are laid out in bytes.  A byte is a number below  *)
(* 256, std::nullopt is a record whose ok is FALSE.                        *)
(***************************************************************************)
EXTENDS Integers, Sequences

Byte == 0..255

Request == 0
Notify == 1
Response == 2
Push == 3

Data == 4

NullOpt == [ok |-> FALSE]

-----------------------------------------------------------------------------
(* Packages: the type, the length of the body in three bytes, the body.    *)

PackageEncode(type, body) ==
    <<type, (Len(body) \div 65536) % 256, (Len(body) \div 256) % 256, Len(body) % 256>> \o body

PackageLength(data) == 65536 * data[2] + 256 * data[3] + data[4]

PackageDecode(data) ==
    IF Len(data) < 4 \/ Len(data) < 4 + PackageLength(data) THEN NullOpt
    ELSE [ok |-> TRUE, type |-> data[1], body |-> SubSeq(data, 5, 4 + PackageLength(data))]

-----------------------------------------------------------------------------
(* The id of a request or a response: seven bits a byte, the lowest first, *)
(* all bytes but the last from 128 up.                                     *)

Power == <<1, 128, 16384, 2097152, 268435456>>

\* Bound: the fields that are decoded have at most this many bytes, which a
\* 32-bit id fills; a sixth would be shifted by more than int's width.
MaxIdBytes == Len(Power)

\* id divided by 128 k times, as C++ divides: towards zero.
Shifted(id, k) ==
    IF id >= 0 THEN id \div Power[k + 1] ELSE (id + (Power[k + 1] - 1)) \div Power[k + 1]

IdBytes(id) == CHOOSE n \in 1..5 :
    /\ n = 5 \/ Shifted(id, n) = 0
    /\ \A m \in 1..(n - 1) : Shifted(id, m) # 0

\* tmp before it is cut down to a byte: negative for a negative id.
IdRest(id, k) == Shifted(id, k) - 128 * (IF k = 4 THEN 0 ELSE Shifted(id, k + 1))

EncodeId(id) ==
    [i \in 1..IdBytes(id) |-> (IdRest(id, i - 1) + IF i < IdBytes(id) THEN 128 ELSE 0) % 256]

\* The terminating byte of the field that starts after offset.
IdEnd(data, offset) == CHOOSE e \in (offset + 1)..Len(data) :
    data[e] < 128 /\ \A i \in (offset + 1)..(e - 1) : data[i] >= 128

HasIdEnd(data, offset) == \E e \in (offset + 1)..Len(data) : data[e] < 128

\* The fifth group shifts three of its seven bits out of the int and a fourth
\* into its sign.
Group(data, offset, i) ==
    LET m == data[offset + i] % 128
    IN IF i < 5 THEN m * Power[i] ELSE ((m % 8) - (IF m % 16 >= 8 THEN 8 ELSE 0)) * Power[i]

DecodeId(data, offset) ==
    LET n == IdEnd(data, offset) - offset
        Bits(i) == IF i <= n THEN Group(data, offset, i) ELSE 0
    IN Bits(5) + (Bits(1) + Bits(2) + Bits(3) + Bits(4))

-----------------------------------------------------------------------------
(* Messages: a flag, the id, the route, the rest is the body.              *)

HasId(type) == type \in {Request, Response}
HasRoute(type) == type \in {Request, Notify, Push}

\* The length of the route is cut down to a byte.
EncodeRoute(compress, route) ==
    IF compress THEN <<0, 0>> ELSE <<Len(route) % 256>> \o route

MessageEncode(id, type, compress, route, body) ==
    <<2 * type + IF compress THEN 1 ELSE 0>>
        \o (IF HasId(type) THEN EncodeId(id) ELSE <<>>)
        \o (IF HasRoute(type) THEN EncodeRoute(compress, route) ELSE <<>>)
        \o body

MessageDecode(data) ==
    IF data = <<>> THEN NullOpt ELSE
    LET type == (data[1] \div 2) % 8
        compress == data[1] % 2 = 1
        idEnd == IF HasId(type) THEN IdEnd(data, 1) ELSE 1
        id == IF HasId(type) THEN DecodeId(data, 1) ELSE 0
        \* The offset behind the route, beyond the data if it is cut short.
        routeEnd == CASE ~HasRoute(type) -> idEnd
                      [] HasRoute(type) /\ compress -> idEnd + 2
                      [] OTHER -> IF idEnd < Len(data) THEN idEnd + 1 + data[idEnd + 1] ELSE idEnd + 1
    IN IF (HasId(type) /\ ~HasIdEnd(data, 1)) \/ routeEnd > Len(data) THEN NullOpt
       ELSE [ok |-> TRUE, type |-> type, compress |-> compress, id |-> id,
             gzip |-> (data[1] \div 16) % 2 = 1,
             route |-> IF HasRoute(type) /\ ~compress THEN SubSeq(data, idEnd + 2, routeEnd) ELSE <<>>,
             body |-> SubSeq(data, routeEnd + 1, Len(data))]
=============================================================================
