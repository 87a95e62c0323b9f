---------------------------- MODULE Conversions ----------------------------
(***************************************************************************)
(* The conversions of pyshv, each made once on each of the given inputs:   *)
(* a type to its text and back, a value to its readable form and back, a   *)
(* description, a login and a URL to what is sent and back, a value to its *)
(* bytes and back, and a path against a pattern.  The properties compare   *)
(* what comes out with what was meant.                                     *)
(***************************************************************************)
EXTENDS RpcTypeText, RpcLogin, ResourceId

CONSTANTS
  Types, Values,   \* types, and values given to them
  Descriptions,    \* of methods: records as RpcDir gives
  Logins,          \* [login, nonce, secure, expected, format, current]
  Urls,            \* URLs as records
  Patterns, Paths, \* sequences of nodes
  Packable,        \* values, with strings as bytes
  Journeys,        \* requests, the brokers they pass and how they are answered
  Signals,         \* signals and the mount points they pass
  Entries,         \* [config, login, nonce, existing], existing mount points
  Rights,          \* [config, roles, path, method]
  Visits,          \* [peer, path, access, ask], what is asked for by name
  Me, Lower(_), Forty

VARIABLES
  job,             \* the input: [kind |-> ..., ...]
  out              \* what came of it: a set of one record once it is done

vars == <<job, out>>

Url == INSTANCE RpcUrl
Bin == INSTANCE ChainPack
Msg == INSTANCE RpcMessage
Cfg == INSTANCE BrokerConfig
Tree == INSTANCE NodeTree

Jobs ==
  [kind : {"type"}, type : Types] \cup [kind : {"value"}, type : Types, value : Values]
  \cup [kind : {"dir"}, dir : Descriptions] \cup [kind : {"login"}, with : Logins]
  \cup [kind : {"url"}, url : Urls, public : BOOLEAN]
  \cup [kind : {"path"}, pattern : Patterns, root : Paths, below : Paths]
  \cup [kind : {"pack"}, value : Packable]
  \cup [kind : {"message"}, way : Journeys] \cup [kind : {"signal"}, way : Signals]
  \cup [kind : {"enter"}, with : Entries] \cup [kind : {"access"}, with : Rights]
  \cup [kind : {"visit"}, with : Visits]

Init == job \in Jobs /\ out = {}

Does(kind) == job.kind = kind /\ out = {} /\ UNCHANGED job
WriteType ==
  /\ Does("type")
  /\ out' = {[text |-> Str(job.type), parsed |-> rpctype_parse(Str(job.type))]}
\* The next conversion is only made when the one before it returned.
Deflated(type, long) == IF Returns(long) THEN Deflate(type, long.ok) ELSE long
Inflated(type, short) == IF Returns(short) THEN Inflate(type, short.ok) ELSE short
RoundTrip(type, long, short) ==
  [long |-> long, short |-> short, again |-> Inflated(type, short)]
ThereAndBack(type, long) == RoundTrip(type, long, Deflated(type, long))
InflateValue ==
  /\ Does("value")
  /\ out' = {ThereAndBack(job.type, Inflate(job.type, job.value))
             @@ [valid |-> Valid(job.type, job.value, FALSE)]}
SendDescription ==
  /\ Does("dir")
  /\ out' = {[valid |-> Valid(rpctype_dir, DirToShv(job.dir), FALSE),
              back |-> DirFromShv(DirToShv(job.dir))]}
\* The broker checks the login with the nonce that is current.
SendLogin ==
  /\ Does("login")
  /\ LET w == job.with
         got == LoginFromShv(LoginToShv(w.login, w.nonce, <<>>, w.secure)).ok
     IN out' = {[got |-> got,
                 accepted |-> ValidatePassword(got, w.expected, w.current, w.format)]}
WriteUrl ==
  /\ Does("url")
  /\ out' = {[back |-> UNION {Url!Parse(t) : t \in Url!ToUrl(job.url, job.public)}]}
Matched(ri, path) == rpcri_match(ri, path, "get", {"chng"})
MatchPath ==
  /\ Does("path")
  /\ out' = {[matches |-> Matched(<<job.pattern, "get", "*">>, joinpath(job.root, job.below)),
              tail |-> rpcri_relative_to(<<job.pattern, "get", "*">>, job.root)]}
PackValue ==
  /\ Does("pack")
  /\ out' = {[bytes |-> Bin!Pack(job.value)]}

Asked(w) == IF w.abort = {} THEN w.request ELSE Msg!make_abort(w.request, One(w.abort)).ok
\* What the device gets when the request went through the brokers, and what
\* the asker gets when the answer came back through them.
Arrived(w) ==
  LET Hop(r, broker) == IF Returns(r) THEN Msg!Forwarded(r.ok, broker) ELSE r
  IN FoldLeft(Hop, Value(Asked(w)), w.brokers)
Answer(m, a) ==
  CASE a.type = "RESPONSE" -> Msg!make_response(m, a.with)
    [] a.type = "RESPONSE_ERROR" -> Msg!make_response_error(m, a.with)
    [] a.type = "RESPONSE_DELAY" -> Msg!make_response_delay(m, a.with)
CameBack(m, brokers) ==
  LET Hop(sofar, broker) == LET r == Msg!Returned(sofar.msg)
                            IN [msg |-> r.msg, to |-> <<r.to>> \o sofar.to]
  IN FoldLeft(Hop, [msg |-> m, to |-> <<>>], brokers)
SendMessage ==
  /\ Does("message")
  /\ LET asked == Arrived(job.way)
     IN out' = {[asked |-> asked,
                 back |-> IF Returns(asked)
                          THEN {CameBack(Answer(asked.ok, job.way.answer).ok, job.way.brokers)}
                          ELSE {}]}
SendSignal ==
  /\ Does("signal")
  /\ out' = {[heard |-> FoldLeft(Msg!SignalFrom, job.way.signal, job.way.mounts)]}
\* The configuration admits a login and the broker asks the role it gave.
Enter ==
  /\ Does("enter")
  /\ LET e == job.with
         role == Cfg!login(e.config, e.login, e.nonce)
         given == IF Returns(role) THEN role.ok ELSE {}
     IN out' = {[role |-> role,
                 mounts |-> {Cfg!mount_point(e.config, r, e.existing) : r \in given},
                 subs |-> UNION {Cfg!initial_subscriptions(e.config, r) : r \in given}]}
AskAccess ==
  /\ Does("access")
  /\ LET a == job.with
     IN out' = {[level |-> Cfg!access_level(a.config, a.roles, a.path, a.method)]}
\* What a peer says of a path, if the request is not for another one.
Visit ==
  /\ Does("visit")
  /\ LET v == job.with
     IN /\ ~Tree!client_on_path(v.peer, v.path)
        /\ out' = {[ls |-> Tree!LsCall(v.peer, v.path, Null),
                    dir |-> Tree!DirCall(v.peer, v.path, Null),
                    child |-> Tree!LsCall(v.peer, v.path, [str |-> v.ask]),
                    method |-> Tree!DirCall(v.peer, v.path, [str |-> v.ask]),
                    served |-> Tree!Served(v.peer, v.path, v.access)]}

Next == \/ WriteType \/ InflateValue \/ SendDescription \/ SendLogin
        \/ WriteUrl \/ MatchPath \/ PackValue
        \/ SendMessage \/ SendSignal \/ Enter \/ AskAccess \/ Visit
Spec == Init /\ [][Next]_vars

Done(kind) == job.kind = kind /\ out # {}
Out == CHOOSE o \in out : TRUE

(* ------------------------------- types -------------------------------- *)

RECURSIVE Writable(_), BadLength(_, _)
Inside(t) == IF t.t \in {"list", "map", "imap"} THEN {t.of}
             ELSE IF t.t \in {"tuple", "struct", "keystruct", "bitfield"}
             THEN {t.items[i].tp : i \in DOMAIN t.items}
             ELSE IF t.t = "oneof" THEN Range(t.types) ELSE {}
Limits(t) == IF t.t \in {"integer", "decimal"} THEN t.min \cup t.max ELSE {}
RoundNegative(n) == n <= -100 /\ \E k \in 0..30 : n \in {-(2^k), -(2^k - 1)}
\* The text of these types says what they are.
Writable(t) ==
  /\ t.t = "integer" => \A n \in Limits(t) : ~RoundNegative(n)
  /\ t.t = "decimal" => \A d \in Limits(t) : d[2] <= 0
  /\ t.t = "oneof" => Len(t.types) > 1
  /\ \A s \in Inside(t) : Writable(s)
\* The text of a type is read as that type, and only of that.  Three kinds of
\* types are lost: an integer limit of -100 or less that is written as a power
\* (_tools.py:13, where parse.py:79 wants the sign first), a decimal limit
\* written with an E, and a OneOf of one type.
TypeTextSurvives ==
  Done("type") => (Out.parsed = {job.type} <=> Writable(job.type))

\* Somewhere in v is a List of a length the type does not allow: of a List
\* with limits, or with more items than a Tuple has.
BadLength(t, v) ==
  CASE t.t = "list" /\ Is("list", v) ->
         \/ ~Within(Len(v.list), t.min, t.max)
         \/ \E k \in DOMAIN v.list : BadLength(t.of, v.list[k])
    [] t.t = "tuple" /\ Is("list", v) ->
         \/ Len(v.list) > Len(t.items)
         \/ \E k \in DOMAIN t.items : BadLength(t.items[k].tp, Get(v.list, k))
    [] t.t = "struct" /\ Is("imap", v) ->
         \E k \in DOMAIN t.items : BadLength(t.items[k].tp, Get(v.imap, t.items[k].at))
    [] t.t = "keystruct" /\ Is("map", v) ->
         \E k \in DOMAIN t.items : BadLength(t.items[k].tp, Get(v.map, t.items[k].key))
    [] t.t = "map" /\ Is("map", v) -> \E k \in DOMAIN v.map : BadLength(t.of, v.map[k])
    [] t.t = "imap" /\ Is("imap", v) -> \E k \in DOMAIN v.imap : BadLength(t.of, v.imap[k])
    [] OTHER -> FALSE
RECURSIVE Reversible(_)
\* A Tuple may end in a name met twice, or consist of Nulls alone.
Reversible(t) ==
  /\ t.t = "tuple" => /\ NoRepeat(t.items)
                      /\ \E i \in DOMAIN t.items : ~Valid(t.items[i].tp, Null, FALSE)
  /\ t.t \notin {"oneof", "standard"} => \A s \in Inside(t) : Reversible(s)
\* inflate takes a valid value and refuses one that is not, as base.py:44
\* promises; only the length of a List is not looked at (list.py:91,
\* tuple.py:79).  deflate is its reverse (base.py:50): what it gives means the
\* same.  Tuples of which every item may be Null, or with a name that repeats,
\* are excluded: there deflate raises IndexError or KeyError (tuple.py:92).
InflationIsSound ==
  Done("value") =>
    /\ Out.valid => Returns(Out.long)
    /\ Returns(Out.long) => Out.valid \/ BadLength(job.type, job.value)
    /\ Returns(Out.long) /\ Reversible(job.type) =>
         Returns(Out.short) /\ Out.again = Out.long

(* ---------------------- descriptions and logins ------------------------ *)

Bit(n, b) == Field(n, b, 1) = 1
\* A description arrives as it was sent.  It is a `!dir`, the type stddir
\* announces for it (dir.py:183), only when it has a signal and something extra
\* and no flag that type leaves out.
DescriptionSurvives ==
  Done("dir") =>
    /\ Out.back = Value(job.dir)
    /\ Out.valid <=> /\ DOMAIN job.dir.signals # {} /\ DOMAIN job.dir.extra # {}
                     /\ ~Bit(job.dir.flags, 0) /\ ~Bit(job.dir.flags, 7)

Secret(password, format) == IF format = "PLAIN" THEN sha1(<<password>>) ELSE password
\* Whatever way the password is known and sent, a login is accepted for the
\* right one only, and never for one that was hashed with another nonce; user
\* and options arrive.
LoginIsExact ==
  Done("login") =>
    LET w == job.with
        sentPlain == w.secure /\ w.login.type = "PLAIN"
    IN /\ Out.accepted <=>
            /\ w.login.type # "TOKEN"
            /\ Secret(w.login.password, w.login.type) = Secret(w.expected, w.format)
            /\ w.nonce = w.current \/ sentPlain
       /\ Out.got.options = w.login.options
       /\ DeviceMountPoint(Out.got) \cup DeviceId(Out.got) # {}
       /\ w.login.type # "TOKEN" => Out.got.user = w.login.user

(* -------------------------------- URLs --------------------------------- *)

Stripped(u) == [u EXCEPT !.password = "", !.token = "", !.type = "PLAIN"]
\* What a URL can say.
Expressible(u) ==
  /\ u.user # "" /\ Lower(u.location) = u.location
  /\ u.port = Url!NoPort => u.protocol \notin Url!Hosted \cup {"can"}
  /\ u.protocol \in Url!Local => u.port = Url!NoPort
  /\ u.protocol = "can" => u.port \in 0..127
  /\ CASE u.type = "TOKEN" -> /\ u.token # "" /\ u.password = ""
                              /\ Url!UserNamed(u) => Url!UserInHost(u)
       [] u.type = "SHA1" -> u.token = "" /\ u.password \in Forty
       [] u.type = "PLAIN" -> u.token = ""
  /\ u.baudrate # 115200 => u.protocol = "tty"
  /\ u.caddr # {} => u.protocol = "can" /\ u.caddr \subseteq 0..127
  /\ DOMAIN u.files # {} \/ u.verify # {} => u.protocol \in Url!Secured
\* A URL is read as it was written, and a public one as the same without the
\* credentials, exactly if it says nothing that URLs cannot say.
UrlSurvives ==
  Done("url") => LET u == IF job.public THEN Stripped(job.url) ELSE job.url
                 IN Out.back = {u} <=> Expressible(u)

(* -------------------------------- paths -------------------------------- *)

RECURSIVE Covers(_, _)
\* What a pattern means: ** stands for any number of nodes.
Covers(pattern, path) ==
  IF pattern = <<>> THEN path = <<>>
  ELSE IF Head(pattern) = "**"
  THEN Covers(Tail(pattern), path) \/ (path # <<>> /\ Covers(pattern, Tail(path)))
  ELSE path # <<>> /\ FnMatch(Head(path), Head(pattern)) /\ Covers(Tail(pattern), Tail(path))
Stars(pattern) == {i \in DOMAIN pattern : pattern[i] = "**"}
Path == joinpath(job.root, job.below)
\* Only what the pattern covers is matched, so that nobody is sent what was not
\* asked for; all of it is, if ** is only at the end.
MatchIsSound ==
  Done("path") =>
    LET covered == Covers(job.pattern, Path) \/ Covers(job.pattern, Split(Path))
    IN /\ Out.matches => covered
       /\ Stars(job.pattern) \subseteq {Len(job.pattern)} /\ covered => Out.matches
\* What a broker subscribes for at a broker mounted under root is what its own
\* subscription matches there: the tail matches a path below exactly if the
\* pattern matches the whole.  It does not hold for a ** in the middle: "a/**/b"
\* is left as "b" under "a" (rpcri.py:100), and misses "a/x/b".
TailCoversSubtree ==
  Done("path") /\ job.below # <<>>
      /\ Stars(job.pattern) \subseteq {1, Len(job.pattern)} =>
    /\ relative_to(Path, job.root) = {job.below}
    /\ Out.matches <=> \E t \in Out.tail : Matched(t, job.below)

\* A pattern is matched, by the broker and below it, for what it covers.
PatternsAreSound == MatchIsSound /\ TailCoversSubtree

(* -------------------------------- bytes -------------------------------- *)

RECURSIVE West(_), Typed(_)
Items(v) == IF Is("list", v) THEN Range(v.list)
            ELSE IF Is("imap", v) THEN Range(v.imap)
            ELSE IF Is("map", v) THEN Range(v.map) ELSE {}
West(v) == (Is("time", v) /\ v.time[2] < 0) \/ \E x \in Items(v) : West(x)
\* An empty dictionary comes back as an IMap that is no Map.
Typed(v) == IF v = EmptyDict THEN [imap |-> <<>>]
            ELSE IF Is("list", v) THEN [v EXCEPT !.list = [k \in DOMAIN @ |-> Typed(@[k])]]
            ELSE v
Junk == <<CHOOSE b \in 0..127 : TRUE>>
\* Bytes are read as the value they were made of, nothing after them is
\* touched, and no part of them is a value: a stream of messages falls in
\* pieces in one way only.  DateTimes west of UTC are not: their
\* offsets are read as 65 to 127 quarters of an hour (chainpack.py:209-210).
PackIsExact ==
  Done("pack") /\ ~West(job.value) =>
    /\ Bin!ReadValue(Out.bytes \o Junk) = {[val |-> Typed(job.value), rest |-> Junk]}
    /\ \A n \in 0..(Len(Out.bytes) - 1) : Bin!ReadValue(SubSeq(Out.bytes, 1, n)) = {}

(* ------------------------------ messages -------------------------------- *)

Depth(brokers) == FoldLeft(LAMBDA n, b : n + b.depth, 0, brokers)
Meant(m, answer) ==
  CASE answer.type = "RESPONSE" -> Msg!result(m) = answer.with
    [] answer.type = "RESPONSE_ERROR" -> Msg!error(m) = Value(answer.with)
    [] answer.type = "RESPONSE_DELAY" -> Msg!delay(m) = Value(answer.with)
\* A signal comes to the subscribers of any broker above with the path it has
\* there and all else it was made with, and they hear it if their access is
\* that of the signal at least.
SignalArrives(w) ==
  LET m == Out.heard
      sent == w.signal
  IN /\ Msg!IsValid(m) /\ Msg!Type(m) = "SIGNAL"
     /\ Msg!path(m) = Value(FlattenSeq(Reverse(w.mounts)) \o Msg!path(sent).ok)
     /\ m.content = sent.content /\ Msg!rpc_access(m) = Msg!rpc_access(sent)
     /\ <<Msg!signal_name(m).ok, Msg!source(m).ok, Msg!user_id(m).ok>> = w.means
     /\ \A level \in Levels : Msg!Hears(m, level) <=> level >= One(Msg!rpc_access(sent).ok)
\* A request comes through any number of brokers with the path that is left,
\* their names and no more access than each of them grants; what answers it
\* goes back to those who asked, in order, is for the same call and says what
\* was meant.  It is lost only if it came with an access level that there is
\* not (rpcmessage.py:369 raises).
AnswerComesBack(w) ==
  LET asked == Asked(w)
      m == Out.asked.ok
      back == One(Out.back)
      level == Msg!rpc_access(asked)
      granted == {w.brokers[k].grants : k \in DOMAIN w.brokers}
  IN IF ~Returns(level) THEN Out.asked = ValueError
     ELSE /\ Msg!IsValid(m) /\ Msg!Type(m) = Msg!Type(asked)
          /\ Msg!path(m).ok = SubSeq(Msg!path(asked).ok, Depth(w.brokers) + 1,
                                     Len(Msg!path(asked).ok))
          /\ IF w.abort = {} THEN Msg!param(m) = Msg!param(asked)
             ELSE Msg!abort(m) = Value(One(w.abort))
          /\ Msg!rpc_access(m) = Value({Min(granted \cup level.ok)})
          /\ Msg!user_id(m).ok = {u \o [k \in DOMAIN w.brokers |-> w.brokers[k].user] :
                                     u \in Msg!user_id(asked).ok}
          /\ back.to = [k \in DOMAIN w.brokers |-> {w.brokers[k].cid}]
          /\ Msg!IsValid(back.msg) /\ Msg!Type(back.msg) = w.answer.type
          /\ Msg!request_id(back.msg) = Msg!request_id(w.request)
          /\ Msg!caller_ids(back.msg) = Msg!caller_ids(asked)
          /\ Meant(back.msg, w.answer)
\* Messages say after any number of brokers what they said before.
MessagesArrive ==
  /\ Done("message") => AnswerComesBack(job.way)
  /\ Done("signal") => SignalArrives(job.way)

(* ---------------------------- configuration ----------------------------- *)

\* A client is mounted where it wants only if one of its roles may ask for it
\* (else the login raises); otherwise where the first autosetup for its device
\* says, at the least number for which nothing is mounted there or above.  It
\* stays without a mount point only if no number helps.  A format that ends in
\* a percent sign raises (config.py:133).
MountIsFree ==
  Done("enter") =>
    LET e == job.with
        Made(setup, role, n) ==
          Cfg!Fill(setup.mount_point, n, One(role.device), role.user)
        Free(setup, role) ==
          {n \in 0..(Cardinality(e.existing) + 2) :
             Cfg!InTheWay(e.existing, Made(setup, role, n).text) = {}}
        May(mount) == \E r \in Range(e.config.users[e.login.user.txt].roles) :
                        \E p \in e.config.roles[r].mount_points : Cfg!TextMatch(mount, p)
        asked == {m.str : m \in DeviceMountPoint(e.login)}
    IN /\ Out.role = ValueError => ~May(One(asked))
       /\ asked # {} => \A m \in Out.mounts : m = Value(asked) /\ May(One(asked))
       /\ asked = {} /\ Returns(Out.role) =>
            \A role \in Out.role.ok : LET setups == Cfg!Autosetup(e.config, role) IN
              /\ Out.subs = UNION {t.subscriptions : t \in setups}
              /\ setups = {} => Out.mounts = {Value({})}
              /\ \A t \in setups :
                   LET free == Free(t, role) IN
                   Out.mounts = IF Made(t, role, 0).percent THEN {Cfg!IndexError}
                                ELSE IF t.mount_point = <<>> \/ free = {} THEN {Value({})}
                                ELSE {Value({Made(t, role, Min(free)).text})}

\* The access of one role is the highest a rule of it gives for the path and
\* the method, and none exactly if no rule matches (config.py:82-87).  A role
\* that is not configured makes every request fail (config.py:231 raises
\* KeyError).  With several roles it is what one of them gives, and none only if
\* none gives any; which one is left out, because nmax keeps another than its
\* docstring says (utils.py:36).
AccessHasReason ==
  Done("access") =>
    LET a == job.with
        RuleFits(r, level) == \E ri \in Get(a.config.roles[r].access, level) :
                             rpcri_match(ri, a.path, a.method, {})
        Rules(r) == {level \in DOMAIN a.config.roles[r].access : RuleFits(r, level)}
    IN IF ~(Range(a.roles) \subseteq DOMAIN a.config.roles) THEN Out.level = Cfg!KeyError
       ELSE IF Out.level.ok = {} THEN \A r \in Range(a.roles) : Rules(r) = {}
       ELSE \E r \in Range(a.roles) : Rules(r) # {} /\ Out.level.ok = {Max(Rules(r))}

(* -------------------------------- nodes --------------------------------- *)

\* What there is: the nodes of the peer itself and all that lead to others.
There(peer, path) ==
  \/ path \in {<<>>, <<".app">>}
  \/ peer.kind = "device" /\ path = <<".device">>
  \/ peer.kind = "device" /\ peer.alerts /\ path = <<".device", "alerts">>
  \/ /\ peer.kind = "broker"
     /\ \/ path \in {<<".broker">>} \cup {<<".broker", n>> : n \in {"currentClient", "client"}}
        \/ path \in {<<".broker", "client", n>> : n \in peer.ids}
        \/ \E m \in peer.mounts : IsPrefix(path, m)
Names == UNION {Range(v.path) : v \in Visits}
\* Methods that need more access than dir says (broker.py:260, device.py:79).
Understated == {<<<<".broker">>, "name">>, <<<<".device">>, "serialNumber">>}
\* ls and dir tell the same tree, of all nodes that there are and no other, so
\* that every mounted peer is found from the root; what dir tells is what can
\* be called, with the access it says.
\* What ls says of one child of a node that there is not is left out: base.py:533
\* answers what base.py:329 says it does not.
TreeIsTold ==
  Done("visit") =>
    LET v == job.with
        there == There(v.peer, v.path)
        Below(n) == There(v.peer, Append(v.path, n))
        told == DOMAIN Out.dir.ok
    IN /\ Returns(Out.ls) = there /\ Returns(Out.dir) = there
       /\ there => Out.child = Value(Below(v.ask))
       /\ Out.method = IF there THEN Value(v.ask \in told) ELSE Tree!NotFound
       /\ ~there => Out.served = {}
       /\ there => /\ \A n \in Names : n \in Out.ls.ok <=> Below(n)
                   /\ Out.served \cup {"ls", "dir"} \subseteq told
                   /\ \A m \in told \ (Out.served \cup {"ls", "dir"}) :
                        v.access < Out.dir.ok[m] \/ <<v.path, m>> \in Understated
=============================================================================
