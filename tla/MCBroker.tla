------------------------------ MODULE MCBroker ------------------------------
(***************************************************************************)
(* Instances of Broker for TLC.  Roles: a device; a rival that mounts on   *)
(* the device's point, below it, next to it or on a reserved node; a       *)
(* device beside them whose name begins like the first one's; and a user,  *)
(* the administrator.                                                      *)
(***************************************************************************)
EXTENDS Broker

CONSTANTS Device, Rival, Beside, User

MCNode == {"test", "dev1", "dev2", "dev10", "sub", ".broker", "currentClient"}
MCCurrentClient == <<".broker", "currentClient">>
MCReservedNode == {"", ".app", ".broker", ".device"}

DevicePath == <<"test", "dev1">>
NestedPath == <<"test", "dev1", "sub">>
SiblingPath == <<"test", "dev2">>
BesidePath == <<"test", "dev10">>

MCPath == {<<>>, DevicePath, NestedPath, SiblingPath, <<".broker">>}
MCPathRouting == {<<>>, DevicePath, DevicePath \o MCCurrentClient, BesidePath}

MCRoleMounts(r) ==
  CASE r = Device -> {DevicePath}
    [] r = Rival -> {DevicePath, NestedPath, SiblingPath, <<".broker">>}
    [] r = Beside -> {BesidePath}
    [] OTHER -> {<<>>}

MCRoleSubs(r) == IF r = Rival THEN {"**:ls:lsmod"} ELSE {}

\* The device beside the first one has no access to it.
MCAccessLevel(r, p) ==
  CASE r = User -> SuperService
    [] r = Beside -> IF p = DevicePath THEN 0 ELSE Read
    [] OTHER -> Read

MCRI == {"**:ls:lsmod"}
MCMatches(ri, p, name) == ri = "**:*:*" \/ (ri = "**:ls:lsmod" /\ name = "lsmod")

\* Names none of which starts with another.
SameName(a, b) == a = b

\* The peers are brokers whose own client 7 asks.
BehindBroker == {<<7>>}

\* Clients are interchangeable.
Symmetry == Permutations(Client)
=============================================================================
