---------------------------- MODULE RpcTypeText ----------------------------
(***************************************************************************)
(* The text of a type: `str` of the classes of src/shv/rpctypes and        *)
(* `rpctype_parse`.  A text is a sequence of tokens: [c |-> string] for a  *)
(* character the parser looks for or for a name, [n |-> number] for a run  *)
(* of digits and [d |-> decimal] for a decimal number.  Names hold none of *)
(* the Special characters.                                                 *)
(* A parser gives a set of results [val, rest]: one, or none where the     *)
(* code raises RpcTypeParseError.                                          *)
(***************************************************************************)
EXTENDS RpcTypesStandard

C(c) == [c |-> c]
Text(c) == IF c = "" THEN <<>> ELSE <<C(c)>>
Commas(ss) ==
  FoldLeft(LAMBDA acc, s : IF acc = <<>> THEN s ELSE acc \o <<C(",")>> \o s, <<>>, ss)

(* ------------------------------- str ----------------------------------- *)

Plain(n) == IF n < 0 THEN <<C("-"), [n |-> -n]>> ELSE <<[n |-> n]>>
\* A mistake: the power of the number of bits.
StrNumOff(n) ==
  IF Abs(n) >= 100 /\ Abs(n) = 2^(BitLength(n) - 1) THEN <<C("^"), [n |-> BitLength(n)]>>
  ELSE Plain(n)
\* Large numbers with a round binary form are shortened to ^ or > and a power;
\* the sign of a negative one is written after the ^ or >.
StrNum(n) ==
  LET len == BitLength(n)
      sign == IF n < 0 THEN <<C("-")>> ELSE <<>>
  IN IF Abs(n) < 100 THEN Plain(n)
     ELSE IF Abs(n) = 2^len - 1 THEN <<C(">")>> \o sign \o <<[n |-> len]>>
     ELSE IF Abs(n) = 2^(len - 1) THEN <<C("^")>> \o sign \o <<[n |-> len - 1]>>
     ELSE Plain(n)
Option(F(_), limit) == IF limit = {} THEN <<>> ELSE F(CHOOSE n \in limit : TRUE)
Number0(limit) == IF limit = {0} THEN <<>> ELSE Option(Plain, limit)
\* A decimal of a positive exponent is written with an E.
StrDec(d) == IF d[2] > 0 THEN <<[d |-> <<d[1], 0>>], C("E+")>> ELSE <<[d |-> d]>>
Round(s) == <<C("(")>> \o s \o <<C(")")>>

StrInteger(t) ==
  <<C("i")>>
  \o (IF t.min = {} /\ t.max = {} THEN <<>>
      ELSE Round(Option(StrNum, t.min) \o <<C(",")>> \o Option(StrNum, t.max)))
  \o Text(t.unit)
StrUnsigned(t) ==
  <<C("u")>>
  \o (IF t.min = {0} /\ t.max = {} THEN <<>>
      ELSE Round((IF t.min = {0} THEN <<>> ELSE Option(StrNum, t.min) \o <<C(",")>>)
                 \o Option(StrNum, t.max)))
  \o Text(t.unit)
StrDecimal(t) ==
  <<C("d")>>
  \o (IF t.min = {} /\ t.max = {} /\ t.precision = {} THEN <<>>
      ELSE Round(Option(StrDec, t.min) \o <<C(",")>> \o Option(StrDec, t.max)
                 \o (IF t.precision = {} THEN <<>>
                     ELSE <<C(",")>> \o Option(StrNum, t.precision))))
  \o Text(t.unit)
\* A limit of 0 is written as no limit, except when both are 0.
StrSize(t) ==
  IF t.min = {0} /\ t.max = {} THEN <<>>
  ELSE IF t.min = t.max THEN Round(Option(Plain, t.max))
  ELSE Round(Number0(t.min) \o <<C(",")>> \o Number0(t.max))

Following(item) == item.at + 1
AfterBits(item) == item.at + (CHOOSE size \in Bitsize(item.tp) : TRUE)

RECURSIVE Str(_)
StrItem(item) == Str(item.tp) \o <<C(":")>>
\* The items of an Enum, Struct or Bitfield: the integer of an item is written
\* only when it does not follow the one before it.
StrIndexed(t) ==
  LET After(item) == IF t.t = "bitfield" THEN AfterBits(item) ELSE Following(item)
      Item(i) ==
        LET item == t.items[i]
            expected == IF i = 1 THEN 0 ELSE After(t.items[i - 1])
        IN (IF t.t = "enum" THEN <<>> ELSE StrItem(item)) \o Text(item.key)
           \o (IF item.at = expected THEN <<>> ELSE <<C(":")>> \o Plain(item.at))
  IN Commas([i \in DOMAIN t.items |-> Item(i)])
StrEnum(t) == <<C("i"), C("[")>> \o StrIndexed(t) \o <<C("]")>>
StrItems(items) ==
  Commas([i \in DOMAIN items |-> StrItem(items[i]) \o Text(items[i].key)])
Str(t) ==
  CASE t.t = "any" -> <<C("?")>> \o (IF t.alias = "" THEN <<>> ELSE Round(Text(t.alias)))
    [] t.t = "null" -> <<C("n")>>
    [] t.t = "bool" -> <<C("b")>>
    [] t.t = "datetime" -> <<C("t")>>
    [] t.t = "double" -> <<C("f")>> \o Text(t.unit)
    [] t.t = "integer" -> StrInteger(t)
    [] t.t = "unsigned" -> StrUnsigned(t)
    [] t.t = "decimal" -> StrDecimal(t)
    [] t.t = "string" -> <<C("s")>> \o StrSize(t)
    [] t.t = "blob" -> <<C("x")>> \o StrSize(t)
    [] t.t = "list" -> <<C("[")>> \o Str(t.of) \o <<C("]")>> \o StrSize(t)
    [] t.t = "map" -> <<C("{")>> \o Str(t.of) \o <<C("}")>>
    [] t.t = "imap" -> <<C("i"), C("{")>> \o Str(t.of) \o <<C("}")>>
    [] t.t = "tuple" -> <<C("[")>> \o StrItems(t.items) \o <<C("]")>>
    [] t.t = "struct" -> <<C("i"), C("{")>> \o StrIndexed(t) \o <<C("}")>>
    [] t.t = "keystruct" -> <<C("{")>> \o StrItems(t.items) \o <<C("}")>>
    [] t.t = "enum" -> StrEnum(t)
    [] t.t = "bitfield" -> <<C("u"), C("[")>> \o StrIndexed(t) \o <<C("]")>>
    [] t.t = "oneof" ->
         FoldLeft(LAMBDA acc, x : IF acc = <<>> THEN Str(x)
                                  ELSE acc \o <<C("|")>> \o Str(x), <<>>, t.types)
    [] t.t = "standard" -> <<C("!"), C(t.name)>>

(* ------------------------------ parse ---------------------------------- *)

Special == {"[", "]", "{", "}", "(", ")", ":", ",", "|"}
Has(c, s) == s # <<>> /\ s[1] = C(c)
Rest(s) == SubSeq(s, 2, Len(s))
Result(val, rest) == [val |-> val, rest |-> rest]
Results(vals, rest) == {Result(v, rest) : v \in vals}

\* parse_number: an optional number; the sign is looked for first, then ^ or >.
ParseNumber(s, positive) ==
  LET negative == ~positive /\ Has("-", s)
      s1 == IF negative THEN Rest(s) ELSE s
      power == Has("^", s1)
      ones == Has(">", s1)
      s2 == IF power \/ ones THEN Rest(s1) ELSE s1
      value == IF power THEN 2^s2[1].n ELSE IF ones THEN 2^s2[1].n - 1 ELSE s2[1].n
  IN IF s # <<>> /\ s[1] = [n |-> 0] THEN Result({0}, Rest(s))
     ELSE IF s2 # <<>> /\ "n" \in DOMAIN s2[1] /\ s2[1] # [n |-> 0]
     THEN Result({IF negative THEN -value ELSE value}, Rest(s2))
     ELSE Result({}, s2)
ParseDecimalNumber(s) ==
  IF s # <<>> /\ "d" \in DOMAIN s[1] THEN Result({s[1].d}, Rest(s)) ELSE Result({}, s)
\* parse_text: everything up to a special character.
ParseText(s) ==
  LET IsText(x) == "c" \in DOMAIN x /\ x.c \notin Special
      n == Max({k \in 0..Len(s) : \A i \in 1..k : IsText(s[i])})
  IN Result(FoldLeft(LAMBDA acc, x : acc \o x.c, "", SubSeq(s, 1, n)),
            SubSeq(s, n + 1, Len(s)))

ParseInteger(s) ==
  LET lo == ParseNumber(Rest(s), FALSE)
      hi == ParseNumber(Rest(lo.rest), FALSE)
      limits == Has("(", s)
      unit == ParseText(IF limits THEN Rest(hi.rest) ELSE s)
  IN IF limits /\ ~(Has(",", lo.rest) /\ Has(")", hi.rest)) THEN {}
     ELSE Results(RpcTypeInteger(IF limits THEN lo.val ELSE {},
                                 IF limits THEN hi.val ELSE {}, unit.val), unit.rest)
\* A single number is the maximum.
ParseUnsigned(s) ==
  LET a == ParseNumber(Rest(s), TRUE)
      b == ParseNumber(Rest(a.rest), TRUE)
      two == Has(",", a.rest)
      end == IF two THEN b.rest ELSE a.rest
      limits == Has("(", s)
      min == IF limits /\ two /\ a.val # {} THEN CHOOSE n \in a.val : TRUE ELSE 0
      max == IF ~limits THEN {} ELSE IF two THEN b.val ELSE a.val
      unit == ParseText(IF limits THEN Rest(end) ELSE s)
  IN IF limits /\ ~Has(")", end) THEN {}
     ELSE Results(RpcTypeUnsigned(min, max, unit.val), unit.rest)
ParseDecimal(s) ==
  LET lo == ParseDecimalNumber(Rest(s))
      hi == ParseDecimalNumber(Rest(lo.rest))
      precise == Has(",", hi.rest)
      p == ParseNumber(Rest(hi.rest), FALSE)
      end == IF precise THEN p.rest ELSE hi.rest
      limits == Has("(", s)
      unit == ParseText(IF limits THEN Rest(end) ELSE s)
  IN IF limits /\ ~(Has(",", lo.rest) /\ Has(")", end)) THEN {}
     ELSE Results(IF limits
                  THEN RpcTypeDecimal(lo.val, hi.val, IF precise THEN p.val ELSE {},
                                      unit.val)
                  ELSE RpcTypeDecimal({}, {}, {}, unit.val), unit.rest)
\* parse_size: a single number is both limits.
ParseSize(s) ==
  LET a == ParseNumber(Rest(s), TRUE)
      b == IF Has(",", a.rest) THEN ParseNumber(Rest(a.rest), TRUE) ELSE a
      min == IF a.val = {} THEN 0 ELSE CHOOSE n \in a.val : TRUE
  IN IF ~Has("(", s) THEN {[min |-> 0, max |-> {}, rest |-> s]}
     ELSE IF Has(")", b.rest) THEN {[min |-> min, max |-> b.val, rest |-> Rest(b.rest)]}
     ELSE {}
ParseStandard(s) ==
  LET name == ParseText(s)
  IN Results({t \in StandardTypes : t.name = name.val}, name.rest)
ParseAny(s) ==
  LET name == ParseText(Rest(s))
  IN IF ~Has("(", s) THEN Results({RpcTypeAny("")}, s)
     ELSE IF Has(")", name.rest) THEN Results({RpcTypeAny(name.val)}, Rest(name.rest))
     ELSE {}

RECURSIVE ParseEnumItems(_, _, _), ParseItems(_, _, _, _, _), ParseType(_)

\* The name, then possibly its integer, at the front of s.  Each integer can
\* be used once.
Numbered(s, index) ==
  LET name == ParseText(s)
      number == ParseNumber(Rest(name.rest), FALSE)
      given == Has(":", name.rest)
  IN {[key |-> name.val, at |-> n,
       rest |-> IF given THEN number.rest ELSE name.rest] :
        n \in IF name.val = "" THEN {} ELSE IF given THEN number.val ELSE {index}}
Unused(x, acc) == \A i \in DOMAIN acc : acc[i].at # x.at

ParseEnumItems(s, index, acc) ==
  UNION {LET items == Append(acc, [at |-> x.at, key |-> x.key])
         IN IF ~Unused(x, acc) THEN {}
            ELSE IF Has("]", x.rest) THEN Results(RpcTypeEnum(items), Rest(x.rest))
            ELSE IF Has(",", x.rest)
            THEN ParseEnumItems(Rest(x.rest), x.at + 1, items) ELSE {} :
           x \in Numbered(s, index)}

\* The loop of a Tuple, Struct, KeyStruct or Bitfield, at the `:` after the
\* type tp of an item.
ParseItems(kind, tp, s, index, acc) ==
  LET name == ParseText(Rest(s))
      found == IF ~Has(":", s) THEN {}
               ELSE IF kind \in {"struct", "bitfield"} THEN Numbered(Rest(s), index)
               ELSE {[key |-> k, rest |-> name.rest] : k \in {name.val} \ {""}}
      Item(x) == IF kind \in {"struct", "bitfield"}
                 THEN [at |-> x.at, tp |-> tp, key |-> x.key]
                 ELSE [tp |-> tp, key |-> x.key]
      Fresh(x) == CASE kind = "struct" -> Unused(x, acc)
                    [] kind = "keystruct" -> x.key \notin Keys(acc)
                    [] OTHER -> TRUE
      NextIndex(x) == CASE kind = "struct" -> Following(Item(x))
                        [] kind = "bitfield" -> AfterBits(Item(x))
                        [] OTHER -> index
      Made(items) == CASE kind = "tuple" -> RpcTypeTuple(items)
                       [] kind = "struct" -> RpcTypeStruct(items)
                       [] kind = "keystruct" -> RpcTypeKeyStruct(items)
                       [] kind = "bitfield" -> RpcTypeBitfield(items)
      close == IF kind \in {"tuple", "bitfield"} THEN "]" ELSE "}"
      More(x) == UNION {ParseItems(kind, r.val, r.rest, NextIndex(x),
                                   Append(acc, Item(x))) : r \in ParseType(Rest(x.rest))}
  IN IF kind = "bitfield" /\ Bitsize(tp) = {} THEN {}
     ELSE UNION {IF ~Fresh(x) THEN {}
                 ELSE IF Has(close, x.rest)
                 THEN Results(Made(Append(acc, Item(x))), Rest(x.rest))
                 ELSE IF Has(",", x.rest) THEN More(x) ELSE {} : x \in found}
ParseListTuple(s) ==
  UNION {IF Has("]", r.rest)
         THEN UNION {Results(RpcTypeList(r.val, z.min, z.max), z.rest) : z \in ParseSize(Rest(r.rest))}
         ELSE ParseItems("tuple", r.val, r.rest, 0, <<>>) : r \in ParseType(s)}
ParseIMapStruct(s) ==
  UNION {IF Has("}", r.rest) THEN Results({RpcTypeIMap(r.val)}, Rest(r.rest))
         ELSE ParseItems("struct", r.val, r.rest, 0, <<>>) : r \in ParseType(s)}
ParseMapKeyStruct(s) ==
  UNION {IF Has("}", r.rest) THEN Results({RpcTypeMap(r.val)}, Rest(r.rest))
         ELSE ParseItems("keystruct", r.val, r.rest, 0, <<>>) : r \in ParseType(s)}
ParseBitfield(s) ==
  UNION {ParseItems("bitfield", r.val, r.rest, 0, <<>>) : r \in ParseType(s)}

\* parse: one type, and whatever is joined to it by |.
ParseType(s) ==
  LET s1 == Rest(s)
      first ==
        CASE Has("n", s) -> Results({RpcTypeNull}, s1)
          [] Has("b", s) -> Results({RpcTypeBool}, s1)
          [] Has("t", s) -> Results({RpcTypeDateTime}, s1)
          [] Has("f", s) -> {Result(RpcTypeDouble(ParseText(s1).val), ParseText(s1).rest)}
          [] Has("d", s) -> ParseDecimal(s1)
          [] Has("s", s) -> UNION {Results(RpcTypeString(z.min, z.max), z.rest) : z \in ParseSize(s1)}
          [] Has("x", s) -> UNION {Results(RpcTypeBlob(z.min, z.max), z.rest) : z \in ParseSize(s1)}
          [] Has("i", s) -> IF Has("[", s1) THEN ParseEnumItems(Rest(s1), 0, <<>>)
                            ELSE IF Has("{", s1) THEN ParseIMapStruct(Rest(s1))
                            ELSE ParseInteger(s1)
          [] Has("u", s) -> IF Has("[", s1) THEN ParseBitfield(Rest(s1))
                            ELSE ParseUnsigned(s1)
          [] Has("[", s) -> ParseListTuple(s1)
          [] Has("{", s) -> ParseMapKeyStruct(s1)
          [] Has("!", s) -> ParseStandard(s1)
          [] Has("?", s) -> ParseAny(s1)
          [] OTHER -> {}
      Joined(r) == {Result(RpcTypeOneOf(<<r.val, q.val>>), q.rest) :
                      q \in ParseType(Rest(r.rest))}
  IN UNION {IF Has("|", r.rest) THEN Joined(r) ELSE {r} : r \in first}

rpctype_parse(s) == {r.val : r \in {x \in ParseType(s) : x.rest = <<>>}}
=============================================================================
