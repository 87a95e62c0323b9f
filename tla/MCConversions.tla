--------------------------- MODULE MCConversions ---------------------------
(* The inputs Conversions is checked on. *)
EXTENDS Conversions

U(min, max) == One(RpcTypeUnsigned(min, max, ""))
MCEnum == One(RpcTypeEnum(<<[at |-> 0, key |-> "x"], [at |-> 2, key |-> "y"]>>))
MCBits == One(RpcTypeBitfield(
  <<Slot(4, MCEnum, "c"), Slot(0, RpcTypeBool, "a"), Slot(1, U(2, {6}), "b")>>))
Part(tp, key) == [tp |-> tp, key |-> key]
Tup(items) == One(RpcTypeTuple(items))
MayStr == Opt(String)
Simple ==
  {AnyType, RpcTypeAny("alias"), RpcTypeNull, RpcTypeBool, RpcTypeDateTime,
   RpcTypeDouble("V"), Integer, String, Unsigned, U(0, {5}), U(3, {}), U(255, {256}),
   IntegerOf({-5}, {2}), IntegerOf({}, {128}), IntegerOf({-128}, {127}),
   One(RpcTypeInteger({}, {}, "kg")), One(RpcTypeString(0, {0})),
   One(RpcTypeString(1, {2})), One(RpcTypeString(2, {})), One(RpcTypeBlob(0, {1})),
   One(RpcTypeDecimal({<<-5, -1>>}, {<<8, 0>>}, {1}, "")),
   One(RpcTypeDecimal({}, {<<1, 2>>}, {}, "")), One(RpcTypeDecimal({}, {}, {-1}, "m")),
   MCEnum, One(RpcTypeEnum(<<[at |-> -1, key |-> "x"], [at |-> 0, key |-> "y"]>>)), MCBits}
Composed ==
  {One(RpcTypeList(Integer, 0, {})), One(RpcTypeList(AnyType, 1, {1})),
   One(RpcTypeList(MayStr, 0, {1})), RpcTypeMap(MCEnum), RpcTypeIMap(Integer),
   Tup(<<Part(Integer, "a"), Part(MayStr, "b"), Part(MayStr, "c")>>),
   Tup(<<Part(MayStr, "a"), Part(Integer, "b")>>), Tup(<<Part(MayStr, "a")>>),
   Tup(<<Part(MayStr, "a"), Part(MayStr, "a")>>),
   One(RpcTypeStruct(<<Slot(1, Integer, "a"), Slot(2, MayStr, "b"), Slot(0, MCEnum, "c")>>)),
   One(RpcTypeStruct(<<Slot(0, MayStr, "b")>>)),
   One(RpcTypeKeyStruct(<<Part(Integer, "a"), Part(MayStr, "b")>>)),
   Opt(Tup(<<Part(MCBits, "a")>>)), RpcTypeOneOf(<<String>>),
   RpcTypeOneOf(<<Opt(Integer), MayStr>>),
   One(RpcTypeList(Tup(<<Part(MCBits, "a"), Part(MCEnum, "b")>>), 0, {}))}
MCTypes == Simple \cup Composed \cup StandardTypes

s(x) == [str |-> x]
i(n) == [int |-> n]
l(x) == [list |-> x]
MCValues ==
  {Null, [bool |-> TRUE], i(0), i(1), i(2), i(-1), i(-128), i(5), i(200), [uint |-> 0],
   [uint |-> 4], [uint |-> 255], i(37), i(32), i(64), i(16), i(15), [dec |-> <<5, -1>>],
   [dec |-> <<50, -2>>], [dec |-> <<55, -2>>], [dec |-> <<10, 0>>], [dec |-> <<>>],
   [double |-> 1], s(""), s("x"), s("abc"), [blob |-> <<>>], [blob |-> <<1, 2>>],
   [time |-> 1], EmptyDict, l(<<>>), l(<<Null>>), l(<<i(1)>>), l(<<i(1), i(2)>>),
   l(<<i(1), s("x")>>), l(<<i(1), Null, s("x")>>), l(<<s("x")>>), l(<<Null, i(1)>>),
   l(<<s("a"), s("b")>>), l(<<l(<<i(37), i(2)>>), l(<<i(0), i(0)>>)>>),
   [map |-> "a" :> i(1)], [map |-> "a" :> i(0)], [map |-> "b" :> i(1)],
   [map |-> "a" :> i(1) @@ "b" :> s("x")], [map |-> "z" :> i(1)],
   [map |-> "a" :> i(1) @@ "b" :> Null], [imap |-> 1 :> i(1)], [imap |-> 0 :> i(2)],
   [imap |-> 1 :> i(1) @@ 2 :> Null @@ 0 :> i(2)], [imap |-> 7 :> i(1)],
   [imap |-> 1 :> i(1) @@ 2 :> s("q") @@ 0 :> i(0)], [imap |-> 0 :> s("q")],
   [imap |-> 1 :> s("n") @@ 2 :> i(2) @@ 5 :> i(1) @@ 6 :> EmptyDict @@ 63 :> EmptyDict],
   [imap |-> 1 :> s("n") @@ 2 :> i(128) @@ 5 :> i(1)]}

MCDescriptions ==
  {stddir, stdls} \cup {getter(r, g, d) : r \in {"?", "i"}, g \in {"", "chng"}, d \in {"", "text"}}
  \cup {setter("i", d) : d \in {"", "text"}}
  \cup {[getter("i", "chng", "text") EXCEPT !.flags = f, !.access = a] :
          f \in {0, 1, 130, 126}, a \in Levels}
  \cup {[getter("i", "chng", "text") EXCEPT !.signals = @ @@ "mod" :> t, !.param = "n"] :
          t \in {"n", "b"}}

Known == {Txt("p"), Txt("r"), sha1(<<Txt("p")>>)}
MCLogins ==
  {[login |-> SetIdleTimeout(SetDevice(
       [user |-> Txt("u"), password |-> p, token |-> Txt("t"), type |-> t, options |-> <<>>],
       field, s("d")), n),
    nonce |-> Txt("n"), secure |-> secure, expected |-> e, format |-> f, current |-> c] :
     p \in Known, t \in {"PLAIN", "SHA1", "TOKEN"}, n \in {Null, i(30)},
     field \in {"deviceId", "mountPoint"}, secure \in BOOLEAN, e \in Known,
     f \in {"PLAIN", "SHA1"}, c \in {Txt("n"), Txt("m")}}

MCMe == "me"
MCLower(h) == IF h = "Host" THEN "host" ELSE h
MCForty == {"forty"}
MCHosts == {[Url!NewUrl(p, "host", n) EXCEPT !.user = u] :
              p \in Url!Protocols, n \in {-1, 80, 3755, 200}, u \in {"me", "joe", ""}}
           \cup {Url!NewUrl(p, "Host", 80) : p \in {"tcp", "ws", "can"}}
           \cup {Url!NewUrl(p, "/path", -1) : p \in {"unix", "tty", "ws"}}
Secrets(u) == {[u EXCEPT !.password = p, !.token = t, !.type = k] :
                 p \in {"", "pass", "forty"}, t \in {"", "token"},
                 k \in {"PLAIN", "SHA1", "TOKEN"}}
Options(u) ==
  {[u EXCEPT !.devid = "dev", !.devmount = "test/dev"], [u EXCEPT !.baudrate = 9600],
   [u EXCEPT !.caddr = {5}], [u EXCEPT !.caddr = {200}], [u EXCEPT !.verify = {FALSE}],
   [u EXCEPT !.files = "ca" :> [file |-> "f"] @@ "crl" :> [pem |-> "text"]]}
MCUrls == UNION {Secrets(u) \cup Options(u) : u \in MCHosts}

SeqsOf(S, min, max) == UNION {[1..n -> S] : n \in min..max}
MCPatterns == SeqsOf({"a", "b", "*", "**"}, 1, 3) \cup {<<"**", "a", "b", "**">>}
MCPaths == SeqsOf({"a", "b"}, 0, 2)

\* Lengths around every change of the number of bytes.
Edges == {n \in {2^k + d : k \in {0, 5, 6, 7, 12, 13, 14, 19, 20, 21, 26, 27, 28, 30},
                           d \in {-1, 0, 1}} : n >= 0}
MCPackable ==
  {[uint |-> n] : n \in Edges} \cup {[int |-> n] : n \in Edges} \cup {[int |-> -n] : n \in Edges}
  \cup {[time |-> <<ms, q>>] : ms \in {0, 1, 1000, -1, -1000, 123456, -123456, 3600000},
                               q \in {0, 1, 22, 56, -1, -20, -36, -48}}
  \cup {[dec |-> d] : d \in {<<0, 0>>, <<125, -2>>, <<-7, 3>>, <<100000, -10>>}}
  \cup {[blob |-> [k \in 1..n |-> 255]] : n \in {0, 1, 63, 64, 127, 128}}
  \cup {Null, [bool |-> TRUE], [bool |-> FALSE], EmptyDict, [map |-> <<>>], [imap |-> <<>>],
        [double |-> <<0, 0, 0, 0, 0, 0, 248, 63>>], [str |-> <<>>], [str |-> <<97, 98>>],
        l(<<>>), l(<<i(3), Null, l(<<[uint |-> 3]>>)>>), l(<<EmptyDict, [map |-> <<>>]>>),
        [imap |-> 5 :> i(1) @@ -70 :> Null], [map |-> <<97>> :> i(1) @@ <<98>> :> l(<<i(2)>>)],
        [int |-> 7, meta |-> 1 :> i(1) @@ 8 :> [str |-> <<120>>]],
        [list |-> <<i(255)>>, meta |-> 9 :> [imap |-> 1 :> Null]]}

Broker(grants, user, cid, depth) == [grants |-> grants, user |-> user, cid |-> cid, depth |-> depth]
MCBrokers ==
  {<<Broker(g, "x", 3, 1)>> : g \in Levels}
  \cup {<<Broker(g, "x", 3, 1), Broker(h, "y", 5, 2)>> : g, h \in {1, 24, 63}}
  \cup {<<Broker(48, "x", 0, 1), Broker(g, "y", 7, 0), Broker(56, "z", 0, 1)>> : g \in {8, 56, 63}}
MCAccess == {<<>>, "ACCESS" :> [str |-> <<"grp", "wr", "su">>], "ACCESS" :> [str |-> <<"grp">>],
             "ACCESS" :> [str |-> <<"rd">>] @@ "ACCESS_LEVEL" :> i(32), "ACCESS_LEVEL" :> i(5)}
MCRequests ==
  {[Msg!request(<<"a", "b", "c">>, "get", p, 9, c, u) EXCEPT !.meta = a @@ @] :
     p \in {Null, i(1)}, c \in {<<>>, <<7>>, <<7, 8>>}, u \in {{}, {<<>>}, {<<"joe">>}}, a \in MCAccess}
MCAnswers ==
  {[type |-> "RESPONSE", with |-> v] : v \in {Null, i(0), l(<<>>)}}
  \cup {[type |-> "RESPONSE_ERROR", with |-> Msg!RpcError({"text"}, c)] :
           c \in Msg!RpcErrorCode \ {Msg!NO_ERROR}}
  \cup {[type |-> "RESPONSE_ERROR", with |-> Msg!RpcError({}, 8)]}
  \cup {[type |-> "RESPONSE_DELAY", with |-> 0]}
\* Every request with an answer of each kind, and every answer to one request.
MCJourneys ==
  [request : MCRequests, abort : {{}, {TRUE}, {FALSE}}, brokers : MCBrokers,
   answer : {[type |-> "RESPONSE", with |-> i(0)], [type |-> "RESPONSE_DELAY", with |-> 0],
             [type |-> "RESPONSE_ERROR", with |-> Msg!RpcError({"text"}, 8)]}]
  \cup [request : {Msg!request(<<"a", "b", "c">>, "get", i(1), 9, <<7, 8>>, {<<>>})},
        abort : {{}}, brokers : MCBrokers, answer : MCAnswers]
MCMounts == {<<>>, <<<<"b">>>>, <<<<"b">>, <<"a", "x">>>>}
MCSignals ==
  {[signal |-> Msg!signal(n, name, from, i(1), a, u), mounts |-> m, means |-> <<name, from, u>>] :
     n \in {<<>>, <<"c">>}, name \in {"chng", "mod"}, from \in {"get", "log"},
     a \in Levels, u \in {{}, {<<"joe">>}}, m \in MCMounts}
  \cup {[signal |-> Msg!lsmod(n, MapOf("c" :> [bool |-> TRUE])), mounts |-> m,
         means |-> <<"lsmod", "ls", {}>>] : n \in {<<>>, <<"c">>}, m \in MCMounts}

\* The configuration of the broker's tests, with one more format.
Setup(devices, roles, format, subs) ==
  [device_id |-> devices, roles |-> roles, mount_point |-> format, subscriptions |-> subs]
Configured(format) ==
  [users |-> [n \in {"admin", "test", "nobody"} |->
                [password |-> Txt("p"), login_type |-> "PLAIN",
                 roles |-> IF n = "test" THEN <<"test", "browse">> ELSE <<n>>]],
   roles |-> [n \in {"admin", "test", "browse", "nobody"} |->
     [mount_points |-> CASE n = "admin" -> {<<"*", "*">>} [] n = "test" -> {<<"t", "/", "*">>}
                         [] OTHER -> {},
      access |-> CASE n = "admin" -> Access.dev :> {<<<<"**">>, "*">>}
                   [] n = "test" -> Access.cmd :> {<<<<"a", "**">>, "*">>}
                                    @@ Access.rd :> {<<<<"**">>, "get">>}
                   [] n = "browse" -> Access.bws :> {<<<<"**">>, "ls">>, <<<<"*">>, "dir">>}
                   [] OTHER -> <<>>]],
   autosetups |-> <<Setup({<<"h">>}, {"admin"}, <<".", "h">>, {"a/**:*:*"}),
                    Setup({<<"?", "*">>}, {"admin", "test"}, format, {})>>]
Formats ==
  {<<>>, <<"t", "/", "%", "d", "%", "i">>, <<"%", "I", "f", "%", "i">>,
   <<"%", "%", "/", "%", "f">>, <<"%", "r", "/", "%", "u">>, <<"t", "/", "%">>,
   <<"t", "%", "i", "/", "%", "d">>}
MountTexts ==
  {<<".", "h">>, <<"t">>, <<"t", "/", "x">>, <<"t", "/", "x", "1">>,
   <<"t", "/", "x", "1", "/", "z">>, <<"0", "f">>, <<"1", "f", "1">>, <<"t", "1">>,
   <<"%", "/", "%", "f">>}
MCEntries ==
  {[config |-> Configured(f), nonce |-> Txt("n"), existing |-> mounts,
    login |-> SetDevice(SetDevice([user |-> Txt(u), password |-> Txt("p"), token |-> Txt(""),
                                   type |-> "PLAIN", options |-> <<>>], "deviceId", d),
                        "mountPoint", m)] :
     f \in Formats, mounts \in {x \in SUBSET MountTexts : Cardinality(x) <= 3},
     u \in {"admin", "test", "nobody", "who"}, d \in {Null, s(<<"x">>), s(<<"h">>)},
     m \in {Null, s(<<"t", "/", "q">>), s(<<"q">>)}}
MCRights ==
  {[config |-> Configured(<<>>), roles |-> r, path |-> p, method |-> m] :
     r \in SeqsOf({"admin", "test", "browse", "nobody"}, 1, 2) \cup {<<"test", "none">>},
     p \in MCPaths, m \in {"ls", "dir", "get", "set"}}

MCNodes == {".app", ".broker", ".device", "client", "currentClient", "alerts", "0",
            "a", "b", "ab"}
MCPeers ==
  [kind : {"base", "device"}, alerts : BOOLEAN, mounts : {{}}, ids : {{}}]
  \cup [kind : {"broker"}, alerts : {FALSE}, ids : {{}, {"0"}, {"0", "1", "None"}},
        mounts : {x \in SUBSET {<<"a">>, <<"b", "a", "ab">>, <<"ab", "a">>, <<"ab", "b">>} :
                    Cardinality(x) <= 3}]
MCVisited ==
  SeqsOf(MCNodes, 0, 2)
  \cup {<<x, y, z>> : x \in {".broker", "b", "ab"}, y \in {"client", "a", "b"},
                      z \in {"None", "0", "1", "a", "ab"}}
MCVisits ==
  [peer : MCPeers, access : {1, 8, 24, 48, 63}, ask : {"a"}, path : MCVisited]
  \cup [peer : MCPeers, access : {63}, ask : {"name"}, path : MCVisited]
=============================================================================
