---------------------------- MODULE BrokerConfig ----------------------------
(***************************************************************************)
(* What a broker's configuration says of a peer (src/shv/broker/config.py) *)
(* once it is read: which role a login gets, the access the role has and   *)
(* where it is mounted.  Names of mount points and devices and the formats *)
(* they are made of are sequences of characters.                           *)
(*                                                                         *)
(* A configuration has users and roles, functions from names, and the      *)
(* sequence of autosetups.                                                 *)
(***************************************************************************)
EXTENDS ResourceId, RpcLogin

KeyError == [raise |-> "KeyError"]
IndexError == [raise |-> "IndexError"]

RECURSIVE TextMatch(_, _)
\* fnmatchcase: * is any text, with slashes in it too, and ? any character.
TextMatch(text, pattern) ==
  IF pattern = <<>> THEN text = <<>>
  ELSE IF Head(pattern) = "*"
  THEN \E n \in 0..Len(text) : TextMatch(SubSeq(text, n + 1, Len(text)), Tail(pattern))
  ELSE /\ text # <<>> /\ Head(pattern) \in {"?", Head(text)}
       /\ TextMatch(Tail(text), Tail(pattern))

(* ------------------------------ access --------------------------------- *)

\* A mistake: the first level that has a rule, from the lowest.
LowestLevel(role, path, method) ==
  LET given == {level \in DOMAIN role.access :
                  \E ri \in role.access[level] : rpcri_match(ri, path, method, {})}
  IN IF given = {} THEN {} ELSE {Min(given)}
\* Role.access_level: the highest level with a rule that matches.
RoleLevel(role, path, method) ==
  LET given == {level \in DOMAIN role.access :
                  \E ri \in role.access[level] : rpcri_match(ri, path, method, {})}
  IN IF given = {} THEN {} ELSE {Max(given)}
\* Whatever its name and its doc say, nmax keeps the smallest.
nmax(levels) == IF UNION levels = {} THEN {} ELSE {Min(UNION levels)}
access_level(cfg, roles, path, method) ==
  IF \E r \in Range(roles) : r \notin DOMAIN cfg.roles THEN KeyError
  ELSE Value(nmax({RoleLevel(cfg.roles[r], path, method) : r \in Range(roles)}))

(* ---------------------------- mount points ------------------------------ *)

\* The mount point of number i, how much of it is before the first number, and
\* whether the format ends in a percent sign.
Fill(format, i, device, user) ==
  LET Joined == FoldLeft(LAMBDA text, r : text \o (IF text = <<>> THEN <<r>> ELSE <<"-", r>>),
                         <<>>, user.roles)
      StandIn(c) == CASE c = "d" -> device
                      [] c = "r" -> Joined
                      [] c = "u" -> <<user.name>>
                      [] c = "i" /\ i = 0 -> <<>>
                      [] c \in {"i", "I"} -> <<ToString(i)>>
                      [] c = "%" -> <<"%">>
                      [] OTHER -> <<"%", c>>
      Step(made, c) ==
        IF ~made.percent
        THEN IF c = "%" THEN [made EXCEPT !.percent = TRUE]
             ELSE [made EXCEPT !.text = Append(@, c)]
        ELSE [text |-> made.text \o StandIn(c), percent |-> FALSE,
              const |-> IF c \in {"i", "I"} /\ made.const = {}
                        THEN {Len(made.text)} ELSE made.const]
  IN FoldLeft(Step, [text |-> <<>>, const |-> {}, percent |-> FALSE], format)

\* What is mounted there, or above.
InTheWay(existing, text) ==
  {m \in existing : m = text \/ IsPrefix(Append(m, "/"), text)}
\* A mistake: one that ends where the number starts is taken for hopeless.
HopelessThere(m, made) == \A n \in made.const : Len(m) <= n
\* No number helps against a mount point that is in the part before it.
Hopeless(m, made) == \A n \in made.const : Len(m) < n
generate_mount_point(format, existing, device, user) ==
  LET Made(i) == Fill(format, i, device, user)
      Stops(i) == LET ms == InTheWay(existing, Made(i).text)
                  IN ms = {} \/ \E m \in ms : Hopeless(m, Made(i))
      i == CHOOSE n \in 0..Cardinality(existing) :
             Stops(n) /\ \A k \in 0..(n - 1) : ~Stops(k)
  IN IF format = <<>> THEN Value({})
     ELSE IF Made(0).percent THEN IndexError
     ELSE Value(IF InTheWay(existing, Made(i).text) = {} THEN {Made(i).text} ELSE {})

(* ------------------------------- logins --------------------------------- *)

\* The role a login with this nonce gets: a set of one, or none.
login(cfg, l, nonce) ==
  LET user == [name |-> l.user.txt] @@ cfg.users[l.user.txt]
      Allowed(mount) == \E r \in Range(user.roles) : \E p \in cfg.roles[r].mount_points :
                          TextMatch(mount.str, p)
      known == l.user.txt \in DOMAIN cfg.users
  IN IF ~known THEN Value({})
     ELSE IF ~ValidatePassword(l, user.password, nonce, user.login_type) THEN Value({})
     ELSE IF DeviceMountPoint(l) # {} /\ ~(Range(user.roles) \subseteq DOMAIN cfg.roles)
     THEN KeyError
     ELSE IF \E mount \in DeviceMountPoint(l) : ~Allowed(mount) THEN ValueError
     ELSE Value({[user |-> user, device |-> {d.str : d \in DeviceId(l)},
                  mount |-> {m.str : m \in DeviceMountPoint(l)}]})

\* The first autosetup for one of the roles and this device.
Autosetup(cfg, role) ==
  LET Fits(n) == LET s == cfg.autosetups[n]
                 IN /\ s.roles \cap Range(role.user.roles) # {}
                    /\ \E d \in role.device, p \in s.device_id : TextMatch(d, p)
      fit == {n \in DOMAIN cfg.autosetups : Fits(n)}
  IN IF fit = {} THEN {} ELSE {cfg.autosetups[Min(fit)]}
mount_point(cfg, role, existing) ==
  LET setup == Autosetup(cfg, role)
  IN IF role.mount # {} \/ setup = {} THEN Value(role.mount)
     ELSE generate_mount_point(One(setup).mount_point, existing, One(role.device), role.user)
initial_subscriptions(cfg, role) == UNION {s.subscriptions : s \in Autosetup(cfg, role)}
=============================================================================
