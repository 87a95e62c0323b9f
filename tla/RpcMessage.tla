----------------------------- MODULE RpcMessage -----------------------------
(***************************************************************************)
(* RPC messages, src/shv/rpcmessage.py, with the errors they carry         *)
(* (src/shv/rpcdef/errors.py) and what a broker writes into the ones that  *)
(* pass through it.  A message is its meta, under the names of Tag (SIGNAL *)
(* is METHOD), and its content, under those of Key.  Paths, the names of   *)
(* access and the user ID, which are texts of several parts, are sequences *)
(* of these parts.  An optional argument is a set of at most one.          *)
(***************************************************************************)
EXTENDS RpcParam

NewMessage == [meta |-> <<>>, content |-> <<>>]
Put(f, k, given, v) ==
  IF given THEN k :> v @@ f ELSE [x \in DOMAIN f \ {k} |-> f[x]]
SetMeta(m, tag, given, v) == [m EXCEPT !.meta = Put(@, tag, given, v)]
SetContent(m, key, given, v) == [m EXCEPT !.content = Put(@, key, given, v)]
GetOr(f, k, default) == IF k \in DOMAIN f THEN f[k] ELSE default
As(kind, v) == IF Is(kind, v) THEN Value(v[kind]) ELSE ValueError

\* RpcMessage.type
Type(m) ==
  LET has(key) == key \in DOMAIN m.content
      only(key) == DOMAIN m.content = {} \/ has(key)
  IN IF "REQUEST_ID" \notin DOMAIN m.meta
     THEN IF only("PARAM") THEN "SIGNAL" ELSE "none"
     ELSE IF "METHOD" \in DOMAIN m.meta
     THEN IF has("ABORT") THEN "REQUEST_ABORT" ELSE IF only("PARAM") THEN "REQUEST" ELSE "none"
     ELSE IF has("ERROR") THEN "RESPONSE_ERROR"
     ELSE IF has("DELAY") THEN "RESPONSE_DELAY"
     ELSE IF only("RESULT") THEN "RESPONSE" ELSE "none"

request_id(m) ==
  LET v == Get(m.meta, "REQUEST_ID") IN IF IsInt(v) THEN Value(Number(v)) ELSE ValueError
path(m) == As("str", GetOr(m.meta, "SHV_PATH", [str |-> <<>>]))
method(m) == As("str", Get(m.meta, "METHOD"))
signal_name(m) == As("str", GetOr(m.meta, "METHOD", [str |-> "chng"]))
source(m) == As("str", GetOr(m.meta, "SOURCE", [str |-> "get"]))
user_id(m) ==
  IF "USER_ID" \notin DOMAIN m.meta THEN Value({})
  ELSE IF Is("str", m.meta["USER_ID"]) THEN Value({m.meta["USER_ID"].str}) ELSE ValueError
SetParts(m, tag, parts) == SetMeta(m, tag, Len(parts) > 0, [str |-> parts])
SetName(m, tag, name) == SetMeta(m, tag, name # "", [str |-> name])
SetSource(m, name) == SetMeta(m, "SOURCE", name \notin {"", "get"}, [str |-> name])

\* One ID is written without the list.
caller_ids(m) ==
  LET v == Get(m.meta, "CALLER_IDS")
  IN IF v = Null THEN Value(<<>>)
     ELSE IF IsInt(v) THEN Value(<<Number(v)>>)
     ELSE IF Is("list", v) /\ \A k \in DOMAIN v.list : IsInt(v.list[k])
     THEN Value([k \in DOMAIN v.list |-> Number(v.list[k])])
     ELSE ValueError
SetCallerIds(m, cids) ==
  SetMeta(m, "CALLER_IDS", Len(cids) > 0,
          IF Len(cids) = 1 THEN [int |-> cids[1]]
          ELSE [list |-> [k \in DOMAIN cids |-> [int |-> cids[k]]]])

\* The number counts; of the names, the first one that is a level.
rpc_access(m) ==
  LET level == Get(m.meta, "ACCESS_LEVEL")
      names == SelectSeq(GetOr(m.meta, "ACCESS", [str |-> <<>>]).str,
                         LAMBDA a : a \in DOMAIN Access)
  IN IF level # Null
     THEN IF IsInt(level) /\ Number(level) \in Levels THEN Value({Number(level)}) ELSE ValueError
     ELSE Value(IF names = <<>> THEN {} ELSE {Access[names[1]]})
LevelName(level) == CHOOSE a \in DOMAIN Access : Access[a] = level
\* A mistake: the number stays what an earlier broker wrote.
SetAccess_NameOnly(m, level) == SetParts(m, "ACCESS", <<LevelName(level)>>)
SetAccess(m, level) ==
  SetMeta(SetParts(m, "ACCESS", <<LevelName(level)>>), "ACCESS_LEVEL", TRUE, [int |-> level])

IsValid(m) ==
  LET is(kinds, v) == \E k \in kinds : Is(k, v)
      ints == {"null", "int", "uint", "bool"}
      tag(name, default) == GetOr(m.meta, name, default)
  IN /\ Cardinality(DOMAIN m.content) <= 1
     /\ Type(m) # "none"
     /\ is(ints, tag("REQUEST_ID", Null)) /\ is(ints, tag("ACCESS_LEVEL", Null))
     /\ \A t \in {"SHV_PATH", "METHOD", "ACCESS", "SOURCE"} : is({"str"}, tag(t, [str |-> ""]))
     /\ is({"str", "null"}, tag("USER_ID", Null))
     /\ Returns(caller_ids(m))
     /\ is({"bool"}, tag("REPEAT", [bool |-> FALSE]))

(* ------------------------------ errors --------------------------------- *)

NO_ERROR == 0
UNKNOWN == 9
RpcErrorCode == {NO_ERROR, 2, 3, 8, UNKNOWN, 10, 11, 12, 13, 14, 32}
RpcError(msg, code) == [message |-> msg, code |-> code]
ErrorToShv(e) ==
  [imap |-> Put(1 :> [int |-> e.code], 2, e.message # {}, [str |-> One(e.message)])]
\* A code nobody knows becomes UNKNOWN.
ErrorFromShv(v) ==
  LET msg == Get(v.imap, 2)
      code == Get(v.imap, 1)
  IN IF ~Is("imap", v) THEN ValueError
     ELSE IF ~(IsInt(code) /\ (Is("str", msg) \/ msg = Null)) THEN ValueError
     ELSE Value(RpcError(IF msg = Null THEN {} ELSE {msg.str},
                         IF Number(code) \in RpcErrorCode THEN Number(code) ELSE UNKNOWN))

(* ------------------------ requests and answers -------------------------- *)

param(m) == Get(m.content, "PARAM")
result(m) == Get(m.content, "RESULT")
delay(m) == As("double", Get(m.content, "DELAY"))
abort(m) == As("bool", Get(m.content, "ABORT"))
error(m) == ErrorFromShv(Get(m.content, "ERROR"))
SetError(m, e) == SetContent(m, "ERROR", e.code # NO_ERROR, ErrorToShv(e))

request(nodes, name, value, rid, cids, user) ==
  LET m == SetMeta(NewMessage, "REQUEST_ID", TRUE, [int |-> rid])
      addressed == SetParts(SetName(SetCallerIds(m, cids), "METHOD", name), "SHV_PATH", nodes)
  IN SetMeta(SetContent(addressed, "PARAM", value # Null, value),
             "USER_ID", user # {}, [str |-> One(user)])
signal(nodes, name, from, value, access, user) ==
  LET m == SetMeta(NewMessage, "METHOD", TRUE, [str |-> name])
      addressed == SetParts(SetSource(m, from), "SHV_PATH", nodes)
  IN SetMeta(SetAccess(SetContent(addressed, "PARAM", value # Null, value), access),
             "USER_ID", user # {}, [str |-> One(user)])
lsmod(nodes, changed) == signal(nodes, "lsmod", "ls", changed, Access.bws, {})

\* What every answer takes over from the request.
Answering(m) ==
  SetCallerIds(SetMeta(NewMessage, "REQUEST_ID", TRUE, [int |-> request_id(m).ok]),
               caller_ids(m).ok)
IsRequest(m) == Type(m) \in {"REQUEST", "REQUEST_ABORT"}
make_response(m, value) ==
  IF IsRequest(m) THEN Value(SetContent(Answering(m), "RESULT", value # Null, value))
  ELSE ValueError
make_response_error(m, e) ==
  IF IsRequest(m) THEN Value(SetError(Answering(m), e)) ELSE ValueError
make_response_delay(m, progress) ==
  IF IsRequest(m) THEN Value(SetContent(Answering(m), "DELAY", TRUE, [double |-> progress]))
  ELSE ValueError
make_abort(m, really) ==
  IF Type(m) # "REQUEST" THEN ValueError
  ELSE LET named == SetName(Answering(m), "METHOD", method(m).ok)
       IN Value(SetContent(SetParts(named, "SHV_PATH", path(m).ok),
                           "ABORT", TRUE, [bool |-> really]))

(* ---------------------- on the way through a broker --------------------- *)

\* A request goes on to the peer mounted "depth" nodes deep: the level is
\* limited to what the broker grants, and the broker adds its user and the ID
\* the asker has.
Forwarded(m, broker) ==
  LET level == rpc_access(m)
      limit == IF Returns(level) THEN Min(level.ok \cup {broker.grants}) ELSE 0
      named == SetMeta(m, "USER_ID", user_id(m).ok # {},
                       [str |-> Append(One(user_id(m).ok), broker.user)])
      told == SetCallerIds(SetAccess(named, limit), Append(caller_ids(m).ok, broker.cid))
  IN IF Returns(level)
     THEN Value(SetParts(told, "SHV_PATH", SubSeq(path(m).ok, broker.depth + 1, Len(path(m).ok))))
     ELSE level
\* A signal of the peer mounted there goes up, to subscribers who may see it.
SignalFrom(m, mount) == SetParts(m, "SHV_PATH", mount \o path(m).ok)
Hears(m, level) == level >= IF rpc_access(m).ok = {} THEN Access.rd ELSE One(rpc_access(m).ok)
\* A response goes back to the client with the last of its IDs: the message and
\* that ID, or none for the broker itself.
Returned(m) ==
  LET cids == caller_ids(m).ok
  IN IF cids = <<>> THEN [msg |-> m, to |-> {}]
     ELSE [msg |-> SetCallerIds(m, Front(cids)), to |-> {Last(cids)}]
=============================================================================
