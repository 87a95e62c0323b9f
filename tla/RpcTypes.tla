------------------------------ MODULE RpcTypes ------------------------------
(***************************************************************************)
(* The SHV types of src/shv/rpctypes: how a type is constructed, which     *)
(* values it accepts (`validate`), and how a value is made readable        *)
(* (`inflate`) and compact again (`deflate`).                              *)
(*                                                                         *)
(* A value is a record whose only field names its kind, so that no two     *)
(* kinds are ever compared: [int |-> 5], [str |-> "a"], [map |-> f].  An   *)
(* empty dictionary is at once a Map and an IMap, as in the code           *)
(* (value.py:263-278).  SHV metas are left out.                            *)
(* An optional limit is a set of at most one number.  A constructor gives  *)
(* a set: the type, or nothing when the code raises ValueError.            *)
(***************************************************************************)
EXTENDS Integers, Sequences, FiniteSets, TLC, FiniteSetsExt, SequencesExt

(* ------------------------------ values -------------------------------- *)

Is(kind, v) == kind \in DOMAIN v
Null == [null |-> TRUE]
EmptyDict == [map |-> <<>>, imap |-> <<>>]
MapOf(f) == IF DOMAIN f = {} THEN EmptyDict ELSE [map |-> f]
IMapOf(f) == IF DOMAIN f = {} THEN EmptyDict ELSE [imap |-> f]

\* Python's bool and SHVUInt are subclasses of int.
IsInt(v) == Is("int", v) \/ Is("uint", v) \/ Is("bool", v)
Number(v) == IF Is("int", v) THEN v.int
             ELSE IF Is("uint", v) THEN v.uint
             ELSE IF v.bool THEN 1 ELSE 0

Within(n, min, max) == (\A m \in min : n >= m) /\ (\A m \in max : n <= m)
Ordered(min, max) == \A a \in min, b \in max : a <= b
Given(ok, type) == IF ok THEN {type} ELSE {}
Get(f, k) == IF k \in DOMAIN f THEN f[k] ELSE Null
Keys(items) == {items[i].key : i \in DOMAIN items}
NoRepeat(items) == Cardinality(Keys(items)) = Len(items)

\* What a call returns, or the exception it raises.
Value(v) == [ok |-> v]
ValueError == [raise |-> "ValueError"]
Returns(r) == "ok" \in DOMAIN r
\* The results of the items of a container, made into one by F; the first
\* item that raises ends the loop.
Gather(rs, F(_)) ==
  IF \A i \in DOMAIN rs : Returns(rs[i])
  THEN Value(F([i \in DOMAIN rs |-> rs[i].ok]))
  ELSE rs[Min({i \in DOMAIN rs : ~Returns(rs[i])})]

(* --------------------------- constructors ----------------------------- *)

RpcTypeAny(alias) == [t |-> "any", alias |-> alias]
RpcTypeNull == [t |-> "null"]
RpcTypeBool == [t |-> "bool"]
RpcTypeDateTime == [t |-> "datetime"]
RpcTypeDouble(unit) == [t |-> "double", unit |-> unit]
RpcTypeInteger(min, max, unit) ==
  Given(Ordered(min, max),
        [t |-> "integer", min |-> min, max |-> max, unit |-> unit])
RpcTypeUnsigned(min, max, unit) ==
  Given(Ordered({min}, max) /\ min >= 0,
        [t |-> "unsigned", min |-> {min}, max |-> max, unit |-> unit])
\* A decimal is <<mantissa, exponent>>.
DecimalLeq(a, b) ==
  LET e == Min({a[2], b[2]}) IN a[1] * 10^(a[2] - e) <= b[1] * 10^(b[2] - e)
RpcTypeDecimal(min, max, precision, unit) ==
  Given(\A a \in min, b \in max : DecimalLeq(a, b),
        [t |-> "decimal", min |-> min, max |-> max,
         precision |-> precision, unit |-> unit])
Sized(kind, min, max) ==
  Given(Ordered({min}, max) /\ min >= 0,
        [t |-> kind, min |-> {min}, max |-> max])
RpcTypeString(min, max) == Sized("string", min, max)
RpcTypeBlob(min, max) == Sized("blob", min, max)
RpcTypeList(of, min, max) ==
  Given(Ordered({min}, max) /\ min >= 0,
        [t |-> "list", of |-> of, min |-> {min}, max |-> max])
RpcTypeMap(of) == [t |-> "map", of |-> of]
RpcTypeIMap(of) == [t |-> "imap", of |-> of]
\* Items are [tp, key], those of a Struct have their integer in `at` as well.
\* Keys of a Tuple may repeat.
RpcTypeTuple(items) == Given(items # <<>>, [t |-> "tuple", items |-> items])
RpcTypeStruct(items) ==
  Given(items # <<>> /\ NoRepeat(items), [t |-> "struct", items |-> items])
RpcTypeKeyStruct(items) ==
  Given(items # <<>>, [t |-> "keystruct", items |-> items])
RpcTypeEnum(items) == Given(NoRepeat(items), [t |-> "enum", items |-> items])
RpcTypeStandard(name, tp) == [t |-> "standard", name |-> name, of |-> tp]

\* Types of a nested OneOf are taken over, and the first of equal ones stays.
RpcTypeOneOf(types) ==
  LET Spread(acc, tp) == acc \o (IF tp.t = "oneof" THEN tp.types ELSE <<tp>>)
      Once(acc, tp) == IF Contains(acc, tp) THEN acc ELSE Append(acc, tp)
  IN [t |-> "oneof",
      types |-> FoldLeft(Once, <<>>, FoldLeft(Spread, <<>>, types))]
RpcTypeOptional(types) == RpcTypeOneOf(Append(types, RpcTypeNull))

(* ----------------------------- bit fields ------------------------------ *)

Abs(n) == IF n < 0 THEN -n ELSE n
BitLength(n) == IF Abs(n) >= 2^30 THEN 31 ELSE Min({k \in 0..30 : Abs(n) < 2^k})
Field(n, start, size) == (n \div 2^start) % 2^size

\* Bits an item takes, or nothing for a type no bit field can hold.
Bitsize(tp) ==
  CASE tp.t = "bool" -> {1}
    [] tp.t = "unsigned" -> {BitLength(m - n) : n \in tp.min, m \in tp.max \ tp.min}
    [] tp.t = "enum" /\ tp.items # <<>> ->
         {BitLength(Max({tp.items[i].at : i \in DOMAIN tp.items}))}
    [] OTHER -> {}
BitsOf(item) == UNION {item.at .. item.at + size - 1 : size \in Bitsize(item.tp)}
Mask(items) == UNION {BitsOf(items[i]) : i \in DOMAIN items}

RpcTypeBitfield(items) ==
  LET s == SortSeq(items, LAMBDA a, b : a.at < b.at)
      Apart(i) == /\ Bitsize(s[i].tp) # {} /\ s[i].at >= 0
                  /\ i > 1 => \A size \in Bitsize(s[i - 1].tp) :
                                 s[i].at >= s[i - 1].at + size
  IN Given(\A i \in DOMAIN s : Apart(i), [t |-> "bitfield", items |-> s])

\* No bit of the number is outside of the mask; a negative number has bits
\* without end.
OnlyMasked(n, items) ==
  n >= 0 /\ \A b \in 0..BitLength(n) : Field(n, b, 1) = 1 => b \in Mask(items)

(* ----------------------------- validation ------------------------------ *)

RECURSIVE Valid(_, _, _)

\* The exponent after normalize(), which drops the zeros at the end.
NormalExponent(d) ==
  IF d[1] = 0 THEN 0 ELSE d[2] + Max({k \in 0..8 : d[1] % 10^k = 0})

NullValid(v) == Is("null", v)
BoolValid(v) == Is("bool", v)
DateTimeValid(v) == Is("time", v)
DoubleValid(v) == Is("double", v)
IntegerValid(t, v) == IsInt(v) /\ Within(Number(v), t.min, t.max)
UnsignedValid(t, v) == Is("uint", v) /\ Within(v.uint, t.min, t.max)
\* <<>> stands for the decimals that are not finite.
DecimalValid(t, v) ==
  /\ Is("dec", v) /\ v.dec # <<>>
  /\ \A m \in t.min : DecimalLeq(m, v.dec)
  /\ \A m \in t.max : DecimalLeq(v.dec, m)
  /\ \A p \in t.precision : NormalExponent(v.dec) >= -p
StringValid(t, v) == Is("str", v) /\ Within(Len(v.str), t.min, t.max)
BlobValid(t, v) == Is("blob", v) /\ Within(Len(v.blob), t.min, t.max)
ListValid(t, v, updatable) ==
  /\ Is("list", v) /\ Within(Len(v.list), t.min, t.max)
  /\ \A i \in DOMAIN v.list : Valid(t.of, v.list[i], updatable)
MapValid(t, v, updatable) ==
  Is("map", v) /\ \A k \in DOMAIN v.map : Valid(t.of, v.map[k], updatable)
IMapValid(t, v, updatable) ==
  Is("imap", v) /\ \A k \in DOMAIN v.imap : Valid(t.of, v.imap[k], updatable)
\* An update may leave any item of a Tuple, Struct or KeyStruct out.
ItemValid(tp, v, updatable) == (updatable /\ v = Null) \/ Valid(tp, v, updatable)
TupleValid(t, v, updatable) ==
  /\ Is("list", v) /\ Len(v.list) <= Len(t.items)
  /\ \A i \in DOMAIN t.items : ItemValid(t.items[i].tp, Get(v.list, i), updatable)
StructValid(t, v, updatable) ==
  /\ Is("imap", v) /\ DOMAIN v.imap \subseteq {t.items[i].at : i \in DOMAIN t.items}
  /\ \A i \in DOMAIN t.items :
        ItemValid(t.items[i].tp, Get(v.imap, t.items[i].at), updatable)
KeyStructValid(t, v, updatable) ==
  /\ Is("map", v) /\ DOMAIN v.map \subseteq Keys(t.items)
  /\ \A i \in DOMAIN t.items :
        ItemValid(t.items[i].tp, Get(v.map, t.items[i].key), updatable)
EnumValid(t, v) ==
  IsInt(v) /\ \E i \in DOMAIN t.items : t.items[i].at = Number(v)
\* extract: what the bits of an item stand for.
Extract(n, item) ==
  LET size == CHOOSE k \in Bitsize(item.tp) : TRUE
      raw == Field(n, item.at, size)
  IN CASE item.tp.t = "bool" -> [bool |-> Field(n, item.at, 1) = 1]
       [] item.tp.t = "unsigned" -> [uint |-> raw + Min(item.tp.min)]
       [] item.tp.t = "enum" -> [int |-> raw]
BitfieldValid(t, v) ==
  /\ IsInt(v) /\ OnlyMasked(Number(v), t.items)
  /\ \A i \in DOMAIN t.items :
        Valid(t.items[i].tp, Extract(Number(v), t.items[i]), FALSE)
OneOfValid(t, v, updatable) ==
  \E i \in DOMAIN t.types : Valid(t.types[i], v, updatable)

Valid(t, v, updatable) ==
  CASE t.t = "any" -> TRUE
    [] t.t = "null" -> NullValid(v)
    [] t.t = "bool" -> BoolValid(v)
    [] t.t = "datetime" -> DateTimeValid(v)
    [] t.t = "double" -> DoubleValid(v)
    [] t.t = "integer" -> IntegerValid(t, v)
    [] t.t = "unsigned" -> UnsignedValid(t, v)
    [] t.t = "decimal" -> DecimalValid(t, v)
    [] t.t = "string" -> StringValid(t, v)
    [] t.t = "blob" -> BlobValid(t, v)
    [] t.t = "list" -> ListValid(t, v, updatable)
    [] t.t = "map" -> MapValid(t, v, updatable)
    [] t.t = "imap" -> IMapValid(t, v, updatable)
    [] t.t = "tuple" -> TupleValid(t, v, updatable)
    [] t.t = "struct" -> StructValid(t, v, updatable)
    [] t.t = "keystruct" -> KeyStructValid(t, v, updatable)
    [] t.t = "enum" -> EnumValid(t, v)
    [] t.t = "bitfield" -> BitfieldValid(t, v)
    [] t.t = "oneof" -> OneOfValid(t, v, updatable)
    [] t.t = "standard" -> Valid(t.of, v, updatable)

(* ------------------------- inflate and deflate ------------------------- *)

RECURSIVE Inflate(_, _), Deflate(_, _)

\* What both do alike is defined once.
Either(t, v, inflating) == IF inflating THEN Inflate(t, v) ELSE Deflate(t, v)

\* The other types, OneOf and Standard among them, only check the value and
\* never look inside.
Checked(t, v) == IF Valid(t, v, FALSE) THEN Value(v) ELSE ValueError

\* The length limits of a List are not looked at.
OverList(t, v, inflating) ==
  IF ~Is("list", v) THEN ValueError
  ELSE Gather([i \in DOMAIN v.list |-> Either(t.of, v.list[i], inflating)],
              LAMBDA s : [list |-> s])
\* Items of a dictionary fail alike, so that their order does not matter.
OverDict(t, f, inflating, Make(_)) ==
  LET r == [k \in DOMAIN f |-> Either(t.of, f[k], inflating)]
  IN IF \A k \in DOMAIN f : Returns(r[k])
     THEN Value(Make([k \in DOMAIN f |-> r[k].ok]))
     ELSE r[CHOOSE k \in DOMAIN f : ~Returns(r[k])]
OverMap(t, v, inflating) ==
  IF Is("map", v) THEN OverDict(t, v.map, inflating, MapOf) ELSE ValueError
OverIMap(t, v, inflating) ==
  IF Is("imap", v) THEN OverDict(t, v.imap, inflating, IMapOf) ELSE ValueError

\* The dictionary with the value of item i under Name(i), the last one under
\* a name that repeats, without those Keep refuses.
ByName(Name(_), s, Keep(_)) ==
  LET kept == {i \in DOMAIN s : Keep(s[i])}
  IN [n \in {Name(i) : i \in kept} |-> s[Max({i \in kept : Name(i) = n})]]
Always(v) == TRUE
NotNull(v) == v # Null

TupleInflate(t, v) ==
  IF ~Is("list", v) THEN ValueError
  ELSE Gather([i \in DOMAIN t.items |-> Inflate(t.items[i].tp, Get(v.list, i))],
              LAMBDA s : MapOf(ByName(LAMBDA i : t.items[i].key, s, Always)))
StructInflate(t, v) ==
  IF ~Is("imap", v) \/ ~(DOMAIN v.imap \subseteq {t.items[i].at : i \in DOMAIN t.items})
  THEN ValueError
  ELSE Gather([i \in DOMAIN t.items |->
                 Inflate(t.items[i].tp, Get(v.imap, t.items[i].at))],
              LAMBDA s : MapOf(ByName(LAMBDA i : t.items[i].key, s, NotNull)))
OverKeyStruct(t, v, inflating) ==
  IF ~Is("map", v) \/ ~(DOMAIN v.map \subseteq Keys(t.items))
  THEN ValueError
  ELSE Gather([i \in DOMAIN t.items |->
                 Either(t.items[i].tp, Get(v.map, t.items[i].key), inflating)],
              LAMBDA s : MapOf(ByName(LAMBDA i : t.items[i].key, s, NotNull)))
EnumInflate(t, v) ==
  IF ~EnumValid(t, v) THEN ValueError
  ELSE Value([str |-> (CHOOSE x \in Range(t.items) : x.at = Number(v)).key])
BitfieldInflate(t, v) ==
  IF ~IsInt(v) \/ ~OnlyMasked(Number(v), t.items) THEN ValueError
  ELSE LET Item(i) == LET x == Extract(Number(v), t.items[i])
                      IN IF Valid(t.items[i].tp, x, FALSE)
                         THEN Inflate(t.items[i].tp, x) ELSE ValueError
       IN Gather([i \in DOMAIN t.items |-> Item(i)],
                 LAMBDA s : MapOf(ByName(LAMBDA i : t.items[i].key, s, Always)))

Inflate(t, v) ==
  CASE t.t = "list" -> OverList(t, v, TRUE)
    [] t.t = "map" -> OverMap(t, v, TRUE)
    [] t.t = "imap" -> OverIMap(t, v, TRUE)
    [] t.t = "tuple" -> TupleInflate(t, v)
    [] t.t = "struct" -> StructInflate(t, v)
    [] t.t = "keystruct" -> OverKeyStruct(t, v, TRUE)
    [] t.t = "enum" -> EnumInflate(t, v)
    [] t.t = "bitfield" -> BitfieldInflate(t, v)
    [] OTHER -> Checked(t, v)

\* The shortest List the Tuple takes: items at the end may be left out as long
\* as they may be Null.
MinLen(t) ==
  Max({0} \cup {i \in DOMAIN t.items : ~Valid(t.items[i].tp, Null, FALSE)})
\* Keys are crossed out one by one: a key that is missing, or met twice, is a
\* KeyError.  The loop ends early once all of them were met and more items
\* than MinLen were made; Nulls at the end are dropped, and dropping the last
\* one is an IndexError.
TupleDeflate(t, v) ==
  LET Before(i) == {t.items[j].key : j \in 1..(i - 1)}
      Item(i) == LET r == Deflate(t.items[i].tp, Get(v.map, t.items[i].key))
                 IN IF Returns(r) /\ t.items[i].key \notin DOMAIN v.map \ Before(i)
                    THEN [raise |-> "KeyError"] ELSE r
      last == Min({Len(t.items)} \cup
                  {i \in DOMAIN t.items :
                     DOMAIN v.map \subseteq Before(i + 1) /\ i > MinLen(t)})
      Trim(s) == SubSeq(s, 1, Max({0} \cup {i \in DOMAIN s : s[i] # Null}))
      made == Gather([i \in 1..last |-> Item(i)], Trim)
  IN IF ~Is("map", v) THEN ValueError
     ELSE IF ~(DOMAIN v.map \subseteq Keys(t.items)) THEN ValueError
     ELSE IF ~Returns(made) THEN made
     ELSE IF made.ok = <<>> THEN [raise |-> "IndexError"]
     ELSE Value([list |-> made.ok])
StructDeflate(t, v) ==
  IF ~Is("map", v) THEN ValueError
  ELSE IF ~(DOMAIN v.map \subseteq Keys(t.items)) THEN ValueError
  ELSE Gather([i \in DOMAIN t.items |->
                 Deflate(t.items[i].tp, Get(v.map, t.items[i].key))],
              LAMBDA s : IMapOf(ByName(LAMBDA i : t.items[i].at, s, NotNull)))
EnumDeflate(t, v) ==
  LET named == IF Is("str", v)
               THEN {x \in Range(t.items) : x.key = v.str} ELSE {}
  IN IF named = {} THEN ValueError ELSE Value([int |-> (CHOOSE x \in named : TRUE).at])
\* A mistake: the minimum is not taken off.
DepositRaw(v, item, update) ==
  LET size == CHOOSE k \in Bitsize(item.tp) : TRUE
  IN IF Number(v) \notin 0..(2^size - 1) THEN [raise |-> "RuntimeError"]
     ELSE Value(update + Number(v) * 2^item.at)
\* deposit: the item's bits set to the number that stands for the value.
Deposit(v, item, update) ==
  LET size == CHOOSE k \in Bitsize(item.tp) : TRUE
      raw == Number(v) - (IF item.tp.t = "unsigned" THEN Min(item.tp.min) ELSE 0)
  IN IF ~Valid(item.tp, v, FALSE) THEN ValueError
     ELSE IF raw \notin 0..(2^size - 1) THEN [raise |-> "RuntimeError"]
     ELSE Value(update + (raw - Field(update, item.at, size)) * 2^item.at)
BitfieldDeflate(t, v) ==
  LET Put(acc, item) ==
        IF ~Returns(acc) THEN acc
        ELSE IF item.key \notin DOMAIN v.map THEN ValueError
        ELSE LET r == Deflate(item.tp, v.map[item.key])
             IN IF Returns(r) THEN Deposit(r.ok, item, acc.ok) ELSE r
      r == FoldLeft(Put, Value(0), t.items)
  IN IF ~Is("map", v) THEN ValueError
     ELSE IF ~(DOMAIN v.map \subseteq Keys(t.items)) THEN ValueError
     ELSE IF Returns(r) THEN Value([int |-> r.ok]) ELSE r

Deflate(t, v) ==
  CASE t.t = "list" -> OverList(t, v, FALSE)
    [] t.t = "map" -> OverMap(t, v, FALSE)
    [] t.t = "imap" -> OverIMap(t, v, FALSE)
    [] t.t = "tuple" -> TupleDeflate(t, v)
    [] t.t = "struct" -> StructDeflate(t, v)
    [] t.t = "keystruct" -> OverKeyStruct(t, v, FALSE)
    [] t.t = "enum" -> EnumDeflate(t, v)
    [] t.t = "bitfield" -> BitfieldDeflate(t, v)
    [] OTHER -> Checked(t, v)
=============================================================================
