------------------------------- MODULE RpcUrl -------------------------------
(***************************************************************************)
(* The URL of a connection, src/shv/rpcurl.py: `parse` and `to_url`.       *)
(*                                                                         *)
(* A text is what urlsplit and parse_qs make of it: scheme, user, host and *)
(* port of the network location, path, and query, a function from keys to  *)
(* the value given.  Nothing in a name needs to be quoted.                 *)
(***************************************************************************)
EXTENDS Integers, FiniteSets, Sequences, TLC

CONSTANTS
  Me,              \* the name of the account, the default user
  Lower(_),        \* a host in small letters, as urlsplit gives it
  Forty            \* the texts of forty characters

Hosted == {"tcp", "tcps", "ssl", "ssls"}
Local == {"unix", "unixs", "tty"}
Web == {"ws", "wss"}
Secured == {"ssl", "ssls"}
Protocols == Hosted \cup Local \cup Web \cup {"can"}
NoPort == -1
default_port == [tcp |-> 3755, tcps |-> 3765, ssl |-> 3756, ssls |-> 3766]
\* A mistake: no default.
GivenPort(protocol, port) == port
NormalPort(protocol, port) ==
  IF port = NoPort /\ protocol \in Hosted THEN default_port[protocol] ELSE port

\* A URL.  Fields that may be None are sets; `files` has the certificates, each
\* [file |-> path] or [pem |-> text].
NewUrl(protocol, location, port) ==
  [protocol |-> protocol, location |-> location, port |-> NormalPort(protocol, port),
   user |-> Me, password |-> "", token |-> "", type |-> "PLAIN",
   devid |-> "", devmount |-> "", files |-> <<>>, verify |-> {},
   baudrate |-> 115200, caddr |-> {}]

(* -------------------------------- parse -------------------------------- *)

Given(q, key) == {q[k] : k \in {key} \cap DOMAIN q}
Or(found, default) == IF found = {} THEN default ELSE CHOOSE x \in found : TRUE

Certificates == {"ca", "cert", "key", "crl"}
Certificate(q, key) ==
  IF key \o "file" \in DOMAIN q THEN {[file |-> q[key \o "file"]]}
  ELSE {[pem |-> x] : x \in Given(q, key)}
\* The keys that are looked at, and with that taken from the query.
Used(q, protocol) ==
  {"devid", "devmount"}
  \cup (IF "token" \in DOMAIN q THEN {"token"} ELSE {"user", "password", "shapass"})
  \cup (IF protocol \in Secured
        THEN {"verify"} \cup Certificates \cup {k \o "file" : k \in Certificates} ELSE {})
  \cup (IF protocol = "tty" THEN {"baudrate"} ELSE {})
  \cup (IF protocol = "can" THEN {"caddr"} ELSE {})

\* _parse_query.  A token wins over a user and a password, and SHA1 over a
\* plain password.  Keys that are left are an error.
ParseQuery(u, q) ==
  LET sha == Given(q, "shapass")
      login == IF "token" \in DOMAIN q
               THEN [u EXCEPT !.token = q["token"], !.type = "TOKEN"]
               ELSE [u EXCEPT !.user = Or(Given(q, "user"), @),
                              !.password = Or(sha, Or(Given(q, "password"), @)),
                              !.type = IF sha # {} THEN "SHA1" ELSE "PLAIN"]
  IN IF \/ "token" \notin DOMAIN q /\ ~(sha \subseteq Forty)
        \/ ~(Given(q, "caddr") \subseteq 0..127)
        \/ ~(DOMAIN q \subseteq Used(q, u.protocol))
     THEN {}
     ELSE {[login EXCEPT
              !.devid = Or(Given(q, "devid"), @), !.devmount = Or(Given(q, "devmount"), @),
              !.files = [k \in {c \in Certificates : Certificate(q, c) # {}} |->
                           CHOOSE f \in Certificate(q, k) : TRUE],
              !.verify = Given(q, "verify"), !.baudrate = Or(Given(q, "baudrate"), @),
              !.caddr = Given(q, "caddr")]}

\* parse: one URL, or none where the code raises ValueError.
Parse(t) ==
  LET Named(location, port) ==
        ParseQuery([NewUrl(t.scheme, location, port)
                      EXCEPT !.user = IF t.user = "" THEN @ ELSE t.user], t.query)
      netloc == (IF t.user = "" THEN "" ELSE t.user \o "@") \o t.host
  IN CASE t.scheme \in Hosted ->
            IF t.path = "" THEN Named(Lower(t.host), t.port) ELSE {}
       [] t.scheme \in Local ->
            Named(IF netloc = "" THEN t.path ELSE "/" \o netloc \o t.path, NoPort)
       [] t.scheme \in Web /\ t.path # "" ->
            IF t.port = NoPort THEN Named(netloc \o t.path, NoPort) ELSE {}
       [] t.scheme \in Web /\ t.path = "" -> Named(Lower(t.host), t.port)
       [] t.scheme = "can" ->
            IF t.port \in 0..127 /\ t.path = "" THEN Named(Lower(t.host), t.port) ELSE {}

(* -------------------------------- to_url ------------------------------- *)

\* The location is a host after //, with the user before it except on CAN, or
\* it is the path.
AsHost(u) == u.protocol \in Hosted \cup {"can"} \/ (u.protocol \in Web /\ u.port # NoPort)
UserNamed(u) == u.user \notin {"", Me}
UserInHost(u) == UserNamed(u) /\ AsHost(u) /\ u.protocol # "can"

ToQuery(u, public) ==
  LET Some(key, given, v) == IF given THEN key :> v ELSE <<>>
      Key(k) == IF "file" \in DOMAIN u.files[k] THEN k \o "file" ELSE k
      Secret(given, key) == Some(key, ~public /\ given # "", given)
      files == {<<Key(k), u.files[k]>> : k \in DOMAIN u.files}
  IN Some("user", UserNamed(u) /\ ~UserInHost(u), u.user)
     @@ Some("devid", u.devid # "", u.devid) @@ Some("devmount", u.devmount # "", u.devmount)
     @@ Secret(u.token, "token")
     @@ Secret(u.password, IF u.type = "SHA1" THEN "shapass" ELSE "password")
     @@ Some("baudrate", u.baudrate # 115200, u.baudrate)
     @@ Some("caddr", u.caddr # {}, Or(u.caddr, 0))
     @@ Some("verify", u.verify # {}, Or(u.verify, TRUE))
     @@ [k \in {f[1] : f \in files} |->
           LET c == (CHOOSE f \in files : f[1] = k)[2]
           IN IF "file" \in DOMAIN c THEN c.file ELSE c.pem]

\* to_url: one text, or none where the code raises NotImplementedError.
ToUrl(u, public) ==
  LET hidden == u.protocol \in Hosted /\ u.port = default_port[u.protocol]
  IN IF ~public /\ u.password # "" /\ u.type = "TOKEN" THEN {}
     ELSE {[scheme |-> u.protocol,
            user |-> IF UserInHost(u) THEN u.user ELSE "",
            host |-> IF AsHost(u) THEN u.location ELSE "",
            port |-> IF AsHost(u) /\ ~hidden THEN u.port ELSE NoPort,
            path |-> IF AsHost(u) THEN "" ELSE u.location,
            query |-> ToQuery(u, public)]}
=============================================================================
