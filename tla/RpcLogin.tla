------------------------------ MODULE RpcLogin ------------------------------
(***************************************************************************)
(* The credentials of a login, src/shv/rpclogin.py: what the client sends  *)
(* (to_shv), what the broker makes of it (from_shv) and whether it is the  *)
(* right password (validate_password).                                     *)
(* A secret text is [txt |-> string] or the SHA-1 of a sequence of texts,  *)
(* [sha1 |-> ...]: distinct texts have distinct digests.  Only a digest    *)
(* has forty characters.                                                   *)
(***************************************************************************)
EXTENDS RpcParam

Txt(s) == [txt |-> s]
sha1(texts) == [sha1 |-> texts]
NoText == Txt("")
Digest(t) == "sha1" \in DOMAIN t

RECURSIVE NotNone(_), DictMerge(_, _)
\* A Map is something unless there is a Null anywhere in it.
NotNone(v) == IF Is("map", v) THEN \A k \in DOMAIN v.map : NotNone(v.map[k])
              ELSE v # Null
\* __dictmerge: src over dest, level by level.  A Null removes what is under
\* its key, and so does a Map with a Null in it unless there is a Map to merge
\* it into.
DictMerge(src, dest) ==
  LET Entry(k) ==
        IF k \notin DOMAIN src THEN {dest[k]}
        ELSE IF Is("map", src[k]) /\ k \in DOMAIN dest /\ Is("map", Get(dest, k))
        THEN LET m == DictMerge(src[k].map, dest[k].map)
             IN IF DOMAIN m = {} THEN {} ELSE {MapOf(m)}
        ELSE IF NotNone(src[k]) THEN {src[k]} ELSE {}
  IN [k \in {x \in DOMAIN src \cup DOMAIN dest : Entry(x) # {}} |-> One(Entry(k))]

RECURSIVE DictGet(_, _, _)
DictGet(v, kind, keys) ==
  IF keys = <<>> THEN IF HasType(kind, v) THEN {v} ELSE {}
  ELSE IF ~Is("map", v) THEN {}
  ELSE IF keys[1] \notin DOMAIN v.map THEN {}
  ELSE DictGet(v.map[keys[1]], kind, Tail(keys))

\* A login: user, password and token (texts), type, options (a function).
DeviceId(l) == DictGet(MapOf(l.options), "str", <<"device", "deviceId">>)
DeviceMountPoint(l) == DictGet(MapOf(l.options), "str", <<"device", "mountPoint">>)
Extended(l, options) == [l EXCEPT !.options = DictMerge(options, @)]
SetDevice(l, field, v) == Extended(l, "device" :> [map |-> field :> v])
SetIdleTimeout(l, v) == Extended(l, "idleWatchDogTimeOut" :> v)

\* On a transport that is not secure a plain password is hashed.
LoginToShv(l, nonce, custom, secure) ==
  LET hashed == l.type = "PLAIN" /\ ~secure
      type == IF hashed THEN "SHA1" ELSE l.type
      known == IF hashed THEN sha1(<<l.password>>) ELSE l.password
      password == IF type = "SHA1" THEN sha1(<<nonce, known>>) ELSE known
      login == IF l.type = "TOKEN"
               THEN "type" :> [str |-> "TOKEN"] @@ "token" :> [str |-> l.token]
               ELSE "type" :> [str |-> type] @@ "user" :> [str |-> l.user]
                    @@ "password" :> [str |-> password]
  IN [map |-> "login" :> [map |-> login]
              @@ "options" :> MapOf(DictMerge(l.options, custom))]

\* Without a type, a token means TOKEN and forty characters mean SHA1.
LoginFromShv(v) ==
  LET Field3(key, default) ==
        shvgett(v, <<SKey("login"), SKey(key)>>, "str", {[str |-> default]})
      Made(f) ==
        LET guess == IF f[2].str # NoText THEN "TOKEN"
                     ELSE IF Digest(f[3].str) THEN "SHA1" ELSE "PLAIN"
            type == Field3("type", guess)
            options == Get(v.map, "options")
        IN [user |-> f[1].str, token |-> f[2].str, password |-> f[3].str,
            type |-> type, options |-> IF Is("map", options) THEN options.map ELSE <<>>]
      r == Gather(<<Field3("user", NoText), Field3("token", NoText),
                    Field3("password", NoText)>>, Made)
  IN IF ~Is("map", v) THEN InvalidParam
     ELSE IF ~Returns(r) THEN r
     ELSE IF ~Returns(r.ok.type) THEN r.ok.type
     ELSE IF r.ok.type.ok.str \notin {"PLAIN", "SHA1", "TOKEN"} THEN ValueError
     ELSE Value([r.ok EXCEPT !.type = r.ok.type.ok.str])

\* A mistake: a hash is expected whatever was sent.
ValidateHash(l, password, nonce, format) ==
  l.password = sha1(<<nonce, IF format = "SHA1" THEN password ELSE sha1(<<password>>)>>)
\* validate_password: l is what was received, password and format are what the
\* broker knows.
ValidatePassword(l, password, nonce, format) ==
  CASE format = "PLAIN" /\ l.type = "PLAIN" -> l.password = password
    [] format = "PLAIN" /\ l.type = "SHA1" ->
         l.password = sha1(<<nonce, sha1(<<password>>)>>)
    [] format = "SHA1" /\ l.type = "PLAIN" ->
         sha1(<<nonce, sha1(<<l.password>>)>>) = sha1(<<nonce, password>>)
    [] format = "SHA1" /\ l.type = "SHA1" -> l.password = sha1(<<nonce, password>>)
    [] OTHER -> FALSE
=============================================================================
