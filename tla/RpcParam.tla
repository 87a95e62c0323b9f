------------------------------ MODULE RpcParam ------------------------------
(***************************************************************************)
(* Reading what is in a value: shvget of src/shv/rpcparam.py, and what is  *)
(* read with it, the description of a method (RpcDir,                      *)
(* src/shv/rpcdef/dir.py).  Values are those of RpcTypes.                  *)
(***************************************************************************)
EXTENDS RpcTypesStandard

InvalidParam == [raise |-> "RpcInvalidParamError"]

\* A key as SHVGetKey has it: an optional string and an optional integer.
SKey(s) == [skey |-> {s}, ikey |-> {}]
IKey(n) == [skey |-> {}, ikey |-> {n}]
EitherKey(s, n) == [skey |-> {s}, ikey |-> {n}]

IsDict(v) == Is("map", v) \/ Is("imap", v)
\* The integer key is looked for first.
Under(v, key) ==
  LET ints == IF Is("imap", v) THEN key.ikey \cap DOMAIN v.imap ELSE {}
      strs == IF Is("map", v) THEN key.skey \cap DOMAIN v.map ELSE {}
  IN IF ints # {} THEN {v.imap[n] : n \in ints} ELSE {v.map[s] : s \in strs}

RECURSIVE shvget(_, _, _)
\* Keys are followed as long as there are dictionaries; what is reached where
\* they end is the answer, even before the keys end.  Null counts as missing.
shvget(v, keys, default) ==
  LET Whole == IF v = Null /\ default # {} THEN Value(One(default)) ELSE Value(v)
      Missing == IF default = {} THEN InvalidParam ELSE Value(One(default))
  IN IF keys = <<>> \/ ~IsDict(v) THEN Whole
     ELSE IF Under(v, keys[1]) = {} THEN Missing
     ELSE shvget(One(Under(v, keys[1])), Tail(keys), default)

HasType(kind, v) == IF kind = "int" THEN IsInt(v) ELSE Is(kind, v)
shvt(r, kind) ==
  IF Returns(r) /\ ~HasType(kind, r.ok) THEN InvalidParam ELSE r
shvgett(v, keys, kind, default) == shvt(shvget(v, keys, default), kind)

(* ------------------------------ RpcDir --------------------------------- *)

Access == [bws |-> 1, rd |-> 8, wr |-> 16, cmd |-> 24, cfg |-> 32, srv |-> 40,
           ssrv |-> 48, dev |-> 56, su |-> 63]
Levels == {Access[a] : a \in DOMAIN Access}
\* fromstr: names nobody knows are the lowest level.
AccessFromStr(s) == IF s \in DOMAIN Access THEN Access[s] ELSE Access.bws

\* A description is a record of name, flags (a number), param and result
\* (texts of types), access, signals and extra (functions from strings).
Described(description) ==
  IF description = "" THEN <<>> ELSE "description" :> [str |-> description]
RpcDir(name, flags, param, result, access, signals, extra) ==
  [name |-> name, flags |-> flags, param |-> param, result |-> result,
   access |-> access, signals |-> signals, extra |-> extra]
GETTER == 2
getter(result, signal, description) ==
  RpcDir("get", GETTER, "!get", result, Access.rd,
         IF signal = "" THEN <<>> ELSE signal :> result, Described(description))
setter(param, description) ==
  RpcDir("set", 0, param, "n", Access.wr, <<>>, Described(description))
stddir == RpcDir("dir", 0, "n|b|s", "[!dir]|b", Access.bws, <<>>, <<>>)
stdls == RpcDir("ls", 0, "s|n", "[s]|b", Access.bws, "lsmod" :> "{b}", <<>>)

\* A mistake: no signal says its type.
SignalUntyped(type, result) == Null
\* A signal with the type of the result is sent as Null, and fields that say
\* nothing are left out.
SignalToShv(type, result) == IF type = result THEN Null ELSE [str |-> type]
DirToShv(d) ==
  LET Some(k, given, v) == IF given THEN k :> v ELSE <<>>
  IN [imap |-> 1 :> [str |-> d.name] @@ 2 :> [int |-> d.flags]
        @@ Some(3, d.param # "n", [str |-> d.param])
        @@ Some(4, d.result # "n", [str |-> d.result])
        @@ 5 :> [int |-> d.access]
        @@ Some(6, DOMAIN d.signals # {},
                MapOf([s \in DOMAIN d.signals |-> SignalToShv(d.signals[s], d.result)]))
        @@ Some(63, DOMAIN d.extra # {}, MapOf(d.extra))]

\* The keys of SHV2 are tried after the integers.
DirFromShv(v) ==
  LET Field2(s, n, kind, default) == shvgett(v, <<EitherKey(s, n)>>, kind, {default})
      Text(n) == shvgett(v, <<IKey(n)>>, "str", {[str |-> "n"]})
      Dict(key) == LET r == shvget(v, <<key>>, {EmptyDict}).ok
                   IN IF Is("map", r) THEN r.map ELSE <<>>
      level == shvget(v, <<EitherKey("access", 5)>>, {[int |-> Access.bws]}).ok
      access == IF IsInt(level)
                THEN IF Number(level) \in Levels THEN Value(Number(level)) ELSE ValueError
                ELSE Value(IF Is("str", level) THEN AccessFromStr(level.str)
                           ELSE Access.bws)
      signals == Dict(EitherKey("source", 6))
      named == {s \in DOMAIN signals : Is("null", signals[s]) \/ Is("str", signals[s])}
      Made(f) ==
        [name |-> f[2].str, flags |-> Number(f[3]), param |-> f[4].str,
         result |-> f[1].str, access |-> f[5], extra |-> Dict(IKey(63)),
         signals |-> [s \in named |-> IF Is("null", signals[s]) THEN f[1].str
                                      ELSE signals[s].str]]
  IN IF ~IsDict(v) THEN ValueError
     ELSE Gather(<<Text(4), Field2("name", 1, "str", [str |-> "UNSPECIFIED"]),
                   Field2("flags", 2, "int", [int |-> 0]), Text(3), access>>, Made)
=============================================================================
