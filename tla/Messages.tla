------------------------------ MODULE Messages ------------------------------
(***************************************************************************)
(* How the generated classes write a message and read it back.  A message    *)
(* is a function from the fields that are set to their values, the members    *)
(* of a repeated field in a sequence; bytes it has no field for are kept      *)
(* under "unknown".  A string is the sequence of its bytes.  Numbers are       *)
(* small; negative ones take ten bytes, as they do on the wire.              *)
(***************************************************************************)
EXTENDS WorldMessages, AmazonMessages, SequencesExt

Kinds == WorldKinds @@ AmazonKinds
Reads == WorldReads @@ AmazonReads
Writes == WorldWrites @@ AmazonWrites

Scalars == {"int32", "int64", "uint32", "bool", "string"}

\* A message after Clear().
NoFields == [f \in {} |-> <<>>]

Get(m, f) == IF f \in DOMAIN m THEN m[f] ELSE <<>>
-----------------------------------------------------------------------------
(* Varints                                                                  *)

RECURSIVE Varint(_), Negative(_, _)

\* Groups of seven bits, the lowest first.
Varint(n) ==
    IF n < 0 THEN Negative(n, 1)
    ELSE IF n < 128 THEN <<n>> ELSE <<128 + (n % 128)>> \o Varint(n \div 128)

\* Nine groups of a 64-bit number and its sign.
Negative(n, byte) ==
    IF byte = 10 THEN <<1>> ELSE <<128 + (n % 128)>> \o Negative(n \div 128, byte + 1)

\* Mutant of VarintSize: a negative int32 takes five bytes.
VarintSizeOf32(n) == CASE n < 0 -> 5 [] n < 128 -> 1 [] n < 16384 -> 2 [] OTHER -> 3

\* Int32Size, Int64Size and UInt32Size
VarintSize(n) == CASE n < 0 -> 10 [] n < 128 -> 1 [] n < 16384 -> 2 [] OTHER -> 3

\* The bytes of the varint that begins here, 0 when it does not end.
VarintLength(bytes) == SelectInSeq(bytes, LAMBDA byte : byte < 128)

VarintValue(bytes) ==
    LET n == VarintLength(bytes)
        Groups(k, high) == FoldRight(LAMBDA byte, rest : (byte % 128) + 128 * rest, SubSeq(bytes, 1, k), high)
    IN  IF n = 10 THEN Groups(9, -1) ELSE Groups(n, 0)

After(bytes, n) == SubSeq(bytes, n + 1, Len(bytes))
-----------------------------------------------------------------------------
(* Writing                                                                  *)

WireType(kind) == IF kind \in Scalars \ {"string"} THEN 0 ELSE 2

RECURSIVE Serialize(_, _), ByteSize(_, _)

\* Mutant of Payload: a number in a single byte.
PayloadOfOneByte(kind, v) ==
    CASE kind = "bool" -> <<IF v THEN 1 ELSE 0>>
      [] kind = "string" -> Varint(Len(v)) \o v
      [] kind \in {"int32", "int64", "uint32"} -> <<v>>
      [] OTHER -> Varint(ByteSize(kind, v)) \o Serialize(kind, v)

\* A value behind its tag; the size of a message is the one ByteSize has cached.
Payload(kind, v) ==
    CASE kind = "bool" -> <<IF v THEN 1 ELSE 0>>
      [] kind = "string" -> Varint(Len(v)) \o v
      [] kind \in {"int32", "int64", "uint32"} -> Varint(v)
      [] OTHER -> Varint(ByteSize(kind, v)) \o Serialize(kind, v)

PayloadSize(kind, v) ==
    CASE kind = "bool" -> 1
      [] kind = "string" -> VarintSize(Len(v)) + Len(v)
      [] kind \in {"int32", "int64", "uint32"} -> VarintSize(v)
      [] OTHER -> VarintSize(ByteSize(kind, v)) + ByteSize(kind, v)

\* The values a field adds to the message: none, one, or the members.
Values(m, w) == IF w.rule = "repeated" THEN Get(m, w.name) ELSE IF w.name \in DOMAIN m THEN <<m[w.name]>> ELSE <<>>

\* SerializeWithCachedSizesToArray; a field the message lacks is left out, a
\* required one too.
Serialize(type, m) ==
    LET One(w, v) == <<8 * w.number + WireType(Kinds[type][w.name])>> \o Payload(Kinds[type][w.name], v)
        All(w) == FlattenSeq([i \in DOMAIN Values(m, w) |-> One(w, Values(m, w)[i])])
    IN  FlattenSeq([i \in DOMAIN Writes[type] |-> All(Writes[type][i])]) \o Get(m, "unknown")

ByteSize(type, m) ==
    LET Sizes(w) == FoldLeft(LAMBDA sum, v : sum + 1 + PayloadSize(Kinds[type][w.name], v), 0, Values(m, w))
    IN  FoldLeft(LAMBDA sum, w : sum + Sizes(w), 0, Writes[type]) + Len(Get(m, "unknown"))
-----------------------------------------------------------------------------
(* Reading                                                                  *)

RECURSIVE Parse(_, _, _), IsInitialized(_, _)

IsRepeated(type, f) == \E w \in ToSet(Writes[type]) : w.name = f /\ w.rule = "repeated"

\* A member of a repeated field comes after those there are, another value
\* takes the place of the one there is.
Keep(type, m, f, v) == (f :> IF IsRepeated(type, f) THEN Append(Get(m, f), v) ELSE v) @@ m

\* A value of a kind from the bytes it has.
Read(kind, bytes) ==
    CASE kind = "bool" -> [ok |-> TRUE, value |-> VarintValue(bytes) # 0]
      [] kind = "string" -> [ok |-> TRUE, value |-> bytes]
      [] kind \in {"int32", "int64", "uint32"} -> [ok |-> TRUE, value |-> VarintValue(bytes)]
      [] OTHER -> LET sub == Parse(kind, bytes, NoFields) IN [ok |-> sub.ok, value |-> sub.message]

\* PackedInt64Parser: numbers one after the other.
RECURSIVE Packed(_)
Packed(bytes) ==
    IF bytes = <<>> THEN <<>>
    ELSE <<VarintValue(bytes)>> \o Packed(After(bytes, VarintLength(bytes)))

\* _InternalParse into a message that may have fields already.  Failure leaves what
\* has been read.  Groups and fixed widths are in no version of the .proto files.
Parse(type, bytes, m) ==
    IF bytes = <<>> THEN [ok |-> TRUE, message |-> m]
    ELSE
    LET tag == bytes[1]
        body == Tail(bytes)
        head == VarintLength(body)
        size == head + (IF tag % 8 = 2 THEN VarintValue(body) ELSE 0)
        value == SubSeq(body, IF tag % 8 = 2 THEN head + 1 ELSE 1, size)
    IN  IF tag = 0 \/ tag % 8 \notin {0, 2} \/ head = 0 \/ size > Len(body)
        THEN [ok |-> FALSE, message |-> m]
        ELSE IF tag \notin DOMAIN Reads[type]
        THEN Parse(type, After(body, size),
                   ("unknown" :> Get(m, "unknown") \o <<tag>> \o SubSeq(body, 1, size)) @@ m)
        ELSE
        LET f == Reads[type][tag]
            kind == Kinds[type][f]
        IN  IF tag % 8 = 2 /\ WireType(kind) = 0
            THEN Parse(type, After(body, size), (f :> Get(m, f) \o Packed(value)) @@ m)
            ELSE LET read == Read(kind, value) IN
                 IF read.ok THEN Parse(type, After(body, size), Keep(type, m, f, read.value))
                 ELSE [ok |-> FALSE, message |-> Keep(type, m, f, read.value)]

\* The required fields are set, here and in the messages within.
IsInitialized(type, m) ==
    \A w \in ToSet(Writes[type]) :
        /\ w.rule = "required" => w.name \in DOMAIN m
        /\ Kinds[type][w.name] \notin Scalars =>
               \A v \in ToSet(Values(m, w)) : IsInitialized(Kinds[type][w.name], v)
=============================================================================
