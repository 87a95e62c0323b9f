-------------------------- MODULE RpcTypesStandard --------------------------
(***************************************************************************)
(* The types that have a name of their own, src/shv/rpctypes/standard.py.  *)
(***************************************************************************)
EXTENDS RpcTypes

One(S) == CHOOSE x \in S : TRUE
Integer == One(RpcTypeInteger({}, {}, ""))
IntegerOf(min, max) == One(RpcTypeInteger(min, max, ""))
Unsigned == One(RpcTypeUnsigned(0, {}, ""))
String == One(RpcTypeString(0, {}))
Blob == One(RpcTypeBlob(0, {}))
AnyType == RpcTypeAny("")
Opt(tp) == RpcTypeOptional(<<tp>>)
Slot(at, tp, key) == [at |-> at, tp |-> tp, key |-> key]
Struct(name, items) == RpcTypeStandard(name, One(RpcTypeStruct(items)))

rpctype_dir == Struct("dir",
  <<Slot(1, String, "name"),
    Slot(2, Opt(One(RpcTypeBitfield(
        <<Slot(1, RpcTypeBool, "isGetter"), Slot(2, RpcTypeBool, "isSetter"),
          Slot(3, RpcTypeBool, "largeResult"), Slot(4, RpcTypeBool, "notIndempotent"),
          Slot(5, RpcTypeBool, "userIDRequired"), Slot(6, RpcTypeBool, "isUpdatable")>>))),
       "flags"),
    Slot(3, Opt(String), "paramType"), Slot(4, Opt(String), "resultType"),
    Slot(5, IntegerOf({0}, {63}), "accessLevel"),
    Slot(6, RpcTypeMap(Opt(String)), "signals"),
    Slot(63, RpcTypeMap(AnyType), "extra")>>)
rpctype_get == RpcTypeStandard("get", Opt(IntegerOf({0}, {})))
rpctype_alert == Struct("alert",
  <<Slot(0, RpcTypeDateTime, "date"), Slot(1, IntegerOf({0}, {63}), "level"),
    Slot(2, String, "id"), Slot(3, AnyType, "info")>>)
rpctype_clientinfo == Struct("clientInfo",
  <<Slot(1, Integer, "clientId"), Slot(2, Opt(String), "userName"),
    Slot(3, Opt(String), "mountPoint"),
    Slot(4, Opt(RpcTypeMap(Opt(Integer))), "subscriptions"),
    Slot(63, RpcTypeMap(AnyType), "extra")>>)
rpctype_stat == Struct("stat",
  <<Slot(0, Integer, "type"), Slot(1, Integer, "size"), Slot(2, Integer, "pageSize"),
    Slot(3, Opt(RpcTypeDateTime), "accessTime"), Slot(4, Opt(RpcTypeDateTime), "modTime"),
    Slot(5, Opt(Integer), "maxWrite")>>)
rpctype_exchange_p == Struct("exchangeP",
  <<Slot(0, Unsigned, "counter"), Slot(1, Opt(Unsigned), "readyToReceive"),
    Slot(3, Opt(Blob), "data")>>)
rpctype_exchange_r == Struct("exchangeR",
  <<Slot(1, Opt(Unsigned), "readyToReceive"), Slot(2, Opt(Unsigned), "readyToSend"),
    Slot(3, Opt(Blob), "data")>>)
rpctype_exchange_v == Struct("exchangeV",
  <<Slot(1, Opt(Unsigned), "readyToReceive"), Slot(2, Opt(Unsigned), "readyToSend")>>)
rpctype_getlog_p == Struct("getLogP",
  <<Slot(1, Opt(RpcTypeDateTime), "since"), Slot(2, Opt(RpcTypeDateTime), "until"),
    Slot(3, Opt(IntegerOf({0}, {})), "count"), Slot(4, Opt(String), "ri")>>)
ListOf(name, items) ==
  RpcTypeStandard(name, One(RpcTypeList(One(RpcTypeStruct(items)), 0, {})))
rpctype_getlog_r == ListOf("getLogR",
  <<Slot(1, Opt(RpcTypeDateTime), "timestamp"), Slot(2, Opt(IntegerOf({0}, {})), "ref"),
    Slot(3, Opt(String), "path"), Slot(4, Opt(String), "signal"),
    Slot(5, Opt(String), "source"), Slot(6, AnyType, "value"), Slot(7, Opt(String), "userId"),
    Slot(8, Opt(RpcTypeBool), "repeat")>>)
Kinds == One(RpcTypeEnum(
  <<[at |-> 1, key |-> "normal"], [at |-> 2, key |-> "keep"],
    [at |-> 3, key |-> "timeJump"], [at |-> 4, key |-> "timeAbig"]>>))
rpctype_history_records == ListOf("historyRecords",
  <<Slot(0, Kinds, "type"), Slot(1, RpcTypeDateTime, "timestamp"),
    Slot(2, Opt(String), "path"), Slot(3, Opt(String), "signal"),
    Slot(4, Opt(String), "source"), Slot(5, AnyType, "value"),
    Slot(6, IntegerOf({0}, {63}), "accessLevel"), Slot(7, Opt(String), "userId"),
    Slot(8, Opt(RpcTypeBool), "repeat"), Slot(60, Opt(Integer), "timeJump")>>)

StandardTypes ==
  {rpctype_dir, rpctype_get, rpctype_alert, rpctype_clientinfo, rpctype_stat,
   rpctype_exchange_p, rpctype_exchange_r, rpctype_exchange_v, rpctype_getlog_p,
   rpctype_getlog_r, rpctype_history_records}

=============================================================================
