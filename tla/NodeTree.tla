------------------------------ MODULE NodeTree ------------------------------
(***************************************************************************)
(* The nodes a peer has of its own and what it says of them: ls, dir and   *)
(* the methods themselves, of SHVBase, SHVDevice                           *)
(* (src/shv/rpcapi/base.py, device.py) and of a broker's Client            *)
(* (src/shv/broker/broker.py).  A path is the sequence of its nodes.       *)
(*                                                                         *)
(* A peer is a record of its kind, "base", "device" or "broker", and of    *)
(*   alerts: DEVICE_ALERTS,                                                *)
(*   mounts, ids: the keys of the broker's _mounts and, as nodes, the IDs  *)
(*   its clients think they have; a client whose mount point was refused   *)
(*   is among them with "None".                                            *)
(***************************************************************************)
EXTENDS RpcParam

NotFound == [raise |-> "RpcMethodNotFoundError"]

\* A mistake: the name of the mounted node itself.
Leading_Last(path, full_paths) ==
  {Last(f) : f \in {g \in full_paths : IsStrictPrefix(path, g)}}
\* The nodes below that lead to one of the paths.
Leading(path, full_paths) ==
  {f[Len(path) + 1] : f \in {g \in full_paths : IsStrictPrefix(path, g)}}

\* _ls of the three classes.
BaseNodes(path) == IF path = <<>> THEN {".app"} ELSE {}
DeviceNodes(peer, path) ==
  CASE path = <<>> -> {".device"}
    [] path = <<".device">> /\ peer.alerts -> {"alerts"}
    [] OTHER -> {}
BrokerNodes(peer, path) ==
  (IF path = <<>> THEN {".broker"} ELSE {})
  \cup CASE path = <<".broker">> -> {"currentClient", "client"}
         [] path = <<".broker", "client">> -> peer.ids
         [] OTHER -> Leading(path, peer.mounts)
Nodes(peer, path) ==
  BaseNodes(path) \cup CASE peer.kind = "base" -> {}
                        [] peer.kind = "device" -> DeviceNodes(peer, path)
                        [] peer.kind = "broker" -> BrokerNodes(peer, path)
valid_path(peer, path) == path = <<>> \/ Last(path) \in Nodes(peer, Front(path))

\* _dir: the methods of a path, from their names to the access they are said to
\* need.
All(names, access) == [n \in names |-> access]
BaseMethods(path) ==
  All({"dir", "ls"}, Access.bws)
  @@ IF path = <<".app">>
     THEN All({"shvVersionMajor", "shvVersionMinor", "name", "version", "date"}, Access.rd)
          @@ All({"ping"}, Access.bws)
     ELSE <<>>
DeviceMethods(peer, path) ==
  CASE path = <<".device">> ->
         All({"name", "version", "serialNumber", "uptime"}, Access.bws)
         @@ All({"reset"}, Access.cmd)
    [] path = <<".device", "alerts">> /\ peer.alerts -> All({"get"}, Access.rd)
    [] OTHER -> <<>>
BrokerMethods(path) ==
  CASE path = <<".broker">> ->
         All({"name"}, Access.bws)
         @@ All({"clientInfo", "mountedClientInfo", "clients", "mounts", "disconnectClient"},
                Access.ssrv)
    [] path = <<".broker", "currentClient">> ->
         All({"info", "subscribe", "unsubscribe", "subscriptions"}, Access.bws)
    [] OTHER -> <<>>
Methods(peer, path) ==
  BaseMethods(path) @@ CASE peer.kind = "base" -> <<>>
                         [] peer.kind = "device" -> DeviceMethods(peer, path)
                         [] peer.kind = "broker" -> BrokerMethods(path)

\* _method_call_ls: an unknown node is an error, but has no child of any name.
LsCall(peer, path, param) ==
  IF param = Null
  THEN IF Nodes(peer, path) = {} /\ ~valid_path(peer, path) THEN NotFound
       ELSE Value(Nodes(peer, path))
  ELSE IF Is("str", param) THEN Value(param.str \in Nodes(peer, path)) ELSE InvalidParam
\* _method_call_dir.
DirCall(peer, path, param) ==
  IF ~valid_path(peer, path) THEN NotFound
  ELSE IF param = Null \/ Is("bool", param) THEN Value(Methods(peer, path))
  ELSE IF Is("str", param) THEN Value(param.str \in DOMAIN Methods(peer, path))
  ELSE InvalidParam

\* _method_call: the methods it has code for, given this access.
BaseServed(path) ==
  IF path = <<".app">>
  THEN {"shvVersionMajor", "shvVersionMinor", "name", "version", "date", "ping"} ELSE {}
DeviceServed(peer, path, access) ==
  CASE path = <<".device">> ->
         {"name", "version", "uptime"}
         \cup {m \in {"serialNumber"} : access >= Access.rd}
         \cup {m \in {"reset"} : access >= Access.cmd}
    [] path = <<".device", "alerts">> -> {m \in {"get"} : peer.alerts /\ access >= Access.rd}
    [] OTHER -> {}
BrokerServed(path, access) ==
  CASE path = <<".broker">> /\ access >= Access.ssrv ->
         {"name", "clientInfo", "mountedClientInfo", "clients", "mounts", "disconnectClient"}
    [] path = <<".broker", "currentClient">> ->
         {"info", "subscriptions", "subscribe", "unsubscribe"}
    [] OTHER -> {}
Served(peer, path, access) ==
  BaseServed(path) \cup CASE peer.kind = "base" -> {}
                         [] peer.kind = "device" -> DeviceServed(peer, path, access)
                         [] peer.kind = "broker" -> BrokerServed(path, access)

\* client_on_path: the request is for another peer.
client_on_path(peer, path) ==
  /\ peer.kind = "broker"
  /\ IF IsPrefix(<<".broker", "client">>, path) /\ Len(path) > 2
     THEN path[3] \in peer.ids \ {"None"}
     ELSE \E m \in peer.mounts : IsPrefix(m, path)
=============================================================================
