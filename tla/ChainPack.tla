----------------------------- MODULE ChainPack -----------------------------
(***************************************************************************)
(* The binary form of values, src/shv/chainpack.py with the bytes handling *)
(* of src/shv/commonpack.py.  Values are those of RpcTypes, only that a    *)
(* [str], a [blob] and a [double] are the bytes they consist of (a string  *)
(* in UTF-8, a double in eight bytes), and a [time] is <<ms, quarters>>:   *)
(* milliseconds since the epoch of SHV and quarters of an hour east of     *)
(* UTC.  A value with metas has a field `meta` as well, a function from    *)
(* integers.                                                               *)
(* A reader gives a set of results [val, rest]: one, or none where the     *)
(* code raises ValueError.                                                 *)
(***************************************************************************)
EXTENDS RpcTypes

CP == [Null |-> 128, UInt |-> 129, Int |-> 130, Double |-> 131, Blob |-> 133,
       String |-> 134, List |-> 136, Map |-> 137, IMap |-> 138, MetaMap |-> 139,
       Decimal |-> 140, DateTime |-> 141, CString |-> 142, False |-> 253,
       True |-> 254, TERM |-> 255]

(* ------------------------------- writer -------------------------------- *)

\* Byte k of a number, from its low end.
ByteOf(num, k) == IF k > 3 THEN 0 ELSE (num \div 256^k) % 256
\* _bytes_needed
BytesNeeded(bits) ==
  IF bits = 0 THEN 1 ELSE IF bits <= 28 THEN (bits - 1) \div 7 + 1
  ELSE (bits - 1) \div 8 + 2

\* _write_uint_data_helper: as many ones as there are bytes to follow come
\* first, and from 29 bits on a byte with their number; then the sign, then
\* the number.
UIntHelper(num, negative, bits) ==
  LET cnt == BytesNeeded(bits)
      low == IF bits <= 28 THEN cnt ELSE cnt - 1
      sign == IF ~negative THEN 0 ELSE IF bits <= 28 THEN 2^(7 - cnt) ELSE 128
      raw == [i \in 1..low |-> ByteOf(num, low - i) + (IF i = 1 THEN sign ELSE 0)]
  IN IF bits > 28 THEN <<240 + cnt - 5>> \o raw
     ELSE <<256 - 2^(9 - cnt) + (raw[1] % 2^(8 - cnt))>> \o Tail(raw)
WriteUIntData(n) == UIntHelper(n, FALSE, BitLength(n))
\* A mistake: no room for the sign.
WriteIntTight(n) == UIntHelper(Abs(n), n < 0, BitLength(n))
WriteIntData(n) == UIntHelper(Abs(n), n < 0, BitLength(n) + 1)

WriteUInt(n) == IF n < 64 THEN <<n>> ELSE <<CP.UInt>> \o WriteUIntData(n)
WriteInt(n) == IF n \in 0..63 THEN <<n + 64>> ELSE <<CP.Int>> \o WriteIntData(n)
WriteBytes(schema, bytes) == <<schema>> \o WriteUIntData(Len(bytes)) \o bytes
WriteDecimal(d) == <<CP.Decimal>> \o WriteIntData(d[1]) \o WriteIntData(d[2])
\* Whole seconds are written as seconds.  The offset is in seven bits.
WriteDateTime(t) ==
  LET whole == t[1] % 1000 = 0
      n == IF whole THEN t[1] \div 1000 ELSE t[1]
      m == IF t[2] = 0 THEN n ELSE n * 128 + (t[2] % 128)
  IN <<CP.DateTime>>
     \o WriteIntData(4 * m + (IF t[2] = 0 THEN 0 ELSE 1) + (IF whole THEN 2 ELSE 0))

RECURSIVE Pack(_)
PackAll(values) == FoldLeft(LAMBDA acc, v : acc \o Pack(v), <<>>, values)
\* The order of the keys is the one they were put in: any order will do.
PackDict(schema, f) ==
  LET Key(k) == IF schema = CP.Map THEN WriteBytes(CP.String, k) ELSE WriteInt(k)
  IN <<schema>>
     \o FoldSet(LAMBDA k, acc : acc \o Key(k) \o Pack(f[k]), <<>>, DOMAIN f)
     \o <<CP.TERM>>
\* write: an empty dictionary, which is a Map as well, is written as an IMap.
Pack(v) ==
  (IF "meta" \in DOMAIN v THEN PackDict(CP.MetaMap, v.meta) ELSE <<>>)
  \o (CASE Is("null", v) -> <<CP.Null>>
        [] Is("bool", v) -> <<IF v.bool THEN CP.True ELSE CP.False>>
        [] Is("uint", v) -> WriteUInt(v.uint)
        [] Is("int", v) -> WriteInt(v.int)
        [] Is("double", v) -> <<CP.Double>> \o v.double
        [] Is("dec", v) -> WriteDecimal(v.dec)
        [] Is("blob", v) -> WriteBytes(CP.Blob, v.blob)
        [] Is("str", v) -> WriteBytes(CP.String, v.str)
        [] Is("time", v) -> WriteDateTime(v.time)
        [] Is("list", v) -> <<CP.List>> \o PackAll(v.list) \o <<CP.TERM>>
        [] Is("imap", v) -> PackDict(CP.IMap, v.imap)
        [] OTHER -> PackDict(CP.Map, v.map))

(* ------------------------------- reader -------------------------------- *)

Result(val, rest) == [val |-> val, rest |-> rest]
Made(results, F(_)) == {Result(F(r.val), r.rest) : r \in results}
\* _read: n bytes, unless there are less.
Read(n, s) ==
  IF n <= Len(s) THEN {Result(SubSeq(s, 1, n), SubSeq(s, n + 1, Len(s)))} ELSE {}
Shifted(bytes) == FoldLeft(LAMBDA acc, b : acc * 256 + b, 0, bytes)

\* _read_uint_data_helper: the bits that belong to the number, and how many.
\* The highest one is apart, for it is the sign of an Int.
NumberBytes(s) ==
  UNION {LET head == h.val[1]
             ones == Max({k \in 0..4 : head >= 256 - 2^(8 - k)})
             more == IF ones = 4 THEN (head % 16) + 4 ELSE ones
             lead == IF ones = 4 THEN <<>> ELSE <<head % 2^(7 - ones)>>
             top(bytes) == IF ones = 4 THEN 128 ELSE 2^(6 - ones)
             Number0(tail) ==
               LET bytes == lead \o tail
                   high == bytes[1] >= top(bytes)
               IN [high |-> high, bits |-> 8 * Len(tail) + (IF ones = 4 THEN 0 ELSE 7 - ones),
                   low |-> Shifted(<<bytes[1] - (IF high THEN top(bytes) ELSE 0)>>
                                   \o Tail(bytes))]
         IN Made(Read(more, h.rest), Number0) : h \in Read(1, s)}
ReadUIntData(s) ==
  Made(NumberBytes(s), LAMBDA n : IF n.high THEN n.low + 2^(n.bits - 1) ELSE n.low)
ReadIntData(s) == Made(NumberBytes(s), LAMBDA n : IF n.high THEN -n.low ELSE n.low)
ReadBytes(s) == UNION {Read(r.val, r.rest) : r \in ReadUIntData(s)}
ReadDecimal(s) ==
  UNION {Made(ReadIntData(m.rest), LAMBDA e : [dec |-> <<m.val, e>>]) : m \in ReadIntData(s)}

\* _read_datetime: the seven bits of the offset are taken as they are, since no
\* number of seven bits is 128 or more; a time zone of a day or more is refused.
ReadDateTime(s) ==
  LET Parts(d) ==
        LET e == d \div 4
            zoned == d % 2 = 1
            n == IF zoned THEN e \div 128 ELSE e
        IN <<IF (d \div 2) % 2 = 1 THEN n * 1000 ELSE n, IF zoned THEN e % 128 ELSE 0>>
  IN {r \in Made(ReadIntData(s), LAMBDA d : [time |-> Parts(d)]) : r.val.time[2] < 24 * 4}

RECURSIVE ReadValue(_), ReadItems(_, _), ReadPairs(_, _)
ReadItems(s, acc) ==
  IF s # <<>> /\ s[1] = CP.TERM THEN {Result(acc, Tail(s))}
  ELSE UNION {ReadItems(r.rest, Append(acc, r.val)) : r \in ReadValue(s)}
\* A key is a string or an integer, and no UInt.
IsKey(v) == Is("str", v) \/ Is("int", v) \/ Is("bool", v)
RawKey(v) == IF Is("str", v) THEN v.str ELSE Number(v)
ReadPairs(s, acc) ==
  IF s # <<>> /\ s[1] = CP.TERM THEN {Result(acc, Tail(s))}
  ELSE UNION {UNION {ReadPairs(r.rest, (RawKey(k.val) :> r.val) @@ acc) :
                       r \in ReadValue(k.rest)} :
                k \in {x \in ReadValue(s) : IsKey(x.val)}}

\* read
ReadValue(s) ==
  UNION {LET b == h.val[1]
             rest == h.rest
             Whole(v) == {Result(v, rest)}
         IN CASE b < 64 -> Whole([uint |-> b])
              [] b \in 64..127 -> Whole([int |-> b - 64])
              [] b = CP.Null -> Whole(Null)
              [] b \in {CP.True, CP.False} -> Whole([bool |-> b = CP.True])
              [] b = CP.Int -> Made(ReadIntData(rest), LAMBDA n : [int |-> n])
              [] b = CP.UInt -> Made(ReadUIntData(rest), LAMBDA n : [uint |-> n])
              [] b = CP.Double -> Made(Read(8, rest), LAMBDA x : [double |-> x])
              [] b = CP.Decimal -> ReadDecimal(rest)
              [] b = CP.DateTime -> ReadDateTime(rest)
              [] b = CP.Map -> Made(ReadPairs(rest, <<>>), LAMBDA f : [map |-> f])
              [] b = CP.IMap -> Made(ReadPairs(rest, <<>>), LAMBDA f : [imap |-> f])
              [] b = CP.List -> Made(ReadItems(rest, <<>>), LAMBDA l : [list |-> l])
              [] b = CP.Blob -> Made(ReadBytes(rest), LAMBDA x : [blob |-> x])
              [] b = CP.String -> Made(ReadBytes(rest), LAMBDA x : [str |-> x])
              [] b = CP.MetaMap ->
                   UNION {Made(ReadValue(m.rest),
                               LAMBDA v : v @@ "meta" :> m.val) : m \in ReadPairs(rest, <<>>)}
              [] OTHER -> {} : h \in Read(1, s)}
=============================================================================
