------------------------------- MODULE Broker -------------------------------
(***************************************************************************)
(* The SHV RPC broker: the tables of registered clients, mount points and  *)
(* subscriptions, the connections of the clients that log in to it         *)
(* (RpcBroker.LoginClient) and the messages it moves between them.         *)
(*                                                                         *)
(* The broker is one asyncio event loop.  Every action below is a stretch  *)
(* of code that runs without reaching an await that suspends: the handling *)
(* of one received message up to its reply, the first step of a task that  *)
(* serves a request, or the end of a client's loop.                        *)
(***************************************************************************)
EXTENDS Integers, FiniteSets, Sequences, SequencesExt

CONSTANTS
  Client,        \* LoginClient objects, one per accepted connection
  NoClient,
  Node,          \* names of SHV nodes
  Path,          \* SHV paths: sequences of node names
  CurrentClient, \* the path of a broker's ".broker/currentClient", relative to it
  ReservedNode,  \* "", ".app", ".broker", ".device"
  Role,          \* what the configuration's login may return
  NoRole,
  RI,            \* resource identifiers (RPC RI) clients subscribe with
  MaxId,         \* bound: registrations the broker makes
  QueueMax,      \* maxlen of a client's send queue
  MaxPending,    \* bound: requests of one client waiting for their first step
  MaxAsked,      \* bound: requests one peer holds unanswered
  PeerCallerIds, \* caller IDs an incoming request may already carry
  StartsWith(_, _),     \* StartsWith(a, b): the text of name a starts with name b
  RoleMounts(_),        \* mount points role.mount_point may return, <<>> for none
  RoleSubs(_),          \* role.initial_subscriptions
  AccessLevel(_, _),    \* role.access_level on a path, 0 for None
  Matches(_, _, _)      \* rpcri_match of an RI with a path and a signal name

NoId == -1
Id == 0 .. MaxId - 1
BrokerPath == <<".broker">>
Browse == 1
Read == 2
SuperService == 3
Level == Browse .. SuperService
NoLevel == 0        \* the message names no access level
Unreadable == 4     \* its access level is no number

ASSUME BrokerAssumption ==
  /\ MaxId \in Nat
  /\ QueueMax \in Nat \ {0}
  /\ NoClient \notin Client
  /\ NoRole \notin Role
  /\ Path \subseteq Seq(Node) /\ <<>> \in Path
  /\ PeerCallerIds \subseteq Seq(Nat)
  /\ \A r \in Role : RoleMounts(r) \subseteq Path /\ RoleSubs(r) \subseteq RI

VARIABLES
  link,     \* what became of the connection and of LoginClient._loop
  role,     \* LoginClient._role
  cid,      \* Client.__broker_client_id
  busy,     \* the receive loop awaits the sending of its own reply
  pending,  \* request tasks that did not take their first step yet
  waits,    \* clients whose loop a task of this client awaits in disconnect
  hung,     \* a task of this client awaits a reply no send loop will take
  outbox,   \* Client._send_queue
  nextId,   \* RpcBroker.__next_caller_id
  clients,  \* RpcBroker._clients
  mounts,   \* RpcBroker._mounts
  subs,     \* RpcBroker._subs, the IDs under every RI
  asked     \* requests a peer received from the broker and did not answer

session == <<link, role, cid, busy, pending, waits, hung>>
tasks == <<waits, hung>>
tables == <<nextId, clients, mounts, subs>>
vars == <<link, role, cid, busy, pending, waits, hung,
          outbox, nextId, clients, mounts, subs, asked>>

(***************************************************************************)
(* The message that left the broker and the session it was queued for.     *)
(* "asker" is a history value: who asked, in which registration, and with  *)
(* which caller IDs; the code never reads it.                              *)
(***************************************************************************)
Asker == [client : Client, id : Id, cids : PeerCallerIds]
Request == [type : {"request"}, cids : Seq(Nat), asker : Asker]
Response == [type : {"response"}, cids : Seq(Nat), asker : Asker]
Lsmod == [type : {"lsmod"}, path : Seq(Node), node : Node, new : BOOLEAN]
Signal == [type : {"signal"}, path : Seq(Node)]
Message == Request \cup Response \cup Lsmod \cup Signal
Task == [op : {"subscribe", "unsubscribe"}, ri : RI]
   \cup [op : {"disconnectClient"}, id : Id]

\* "cancelled": the loop task is, and has not noticed yet.  "closing" and
\* "failing": the loop waits for its tasks, an exception under way in the
\* second.  "closed" and "dead": it ended, with an exception in the second.
Winding == {"closing", "failing"}
Ended == {"closed", "dead"}
LinkState == {"none", "up", "cancelled"} \cup Winding \cup Ended

Init ==
  /\ link = [c \in Client |-> "none"]
  /\ role = [c \in Client |-> NoRole]
  /\ cid = [c \in Client |-> NoId]
  /\ busy = [c \in Client |-> FALSE]
  /\ pending = [c \in Client |-> <<>>]
  /\ waits = [c \in Client |-> {}]
  /\ hung = [c \in Client |-> FALSE]
  /\ outbox = [c \in Client |-> <<>>]
  /\ nextId = 0
  /\ clients = [i \in Id |-> NoClient]
  /\ mounts = [p \in Path |-> NoId]
  /\ subs = [ri \in RI |-> {}]
  /\ asked = [c \in Client |-> {}]

-----------------------------------------------------------------------------
(* Paths and the tables *)

Mounted(mnts) == {p \in Path : mnts[p] # NoId}

\* Variant: only the mount points above the new one are looked for.
Overlaps_OneWay(p, q) == IsPrefix(q, p)

Overlaps(p, q) == IsPrefix(p, q) \/ IsPrefix(q, p)

\* The node of path p at depth k is taken to exist when some mount point,
\* as text, starts with the path down to it.
Shown(k, p, mnts) ==
  \E m \in Mounted(mnts) :
    /\ k <= Len(m)
    /\ SubSeq(m, 1, k - 1) = SubSeq(p, 1, k - 1)
    /\ StartsWith(m[k], p[k])

\* How deep the loop of __lsmod_msg follows path p before it breaks.
LsmodDepth(p, mnts) ==
  Cardinality({k \in 1 .. Len(p) : \A j \in 1 .. k : Shown(j, p, mnts)})

LsmodMsg(p, new, mnts) ==
  LET k == LsmodDepth(p, mnts)
  IN [type |-> "lsmod", path |-> SubSeq(p, 1, k),
      node |-> p[IF k < Len(p) THEN k + 1 ELSE Len(p)], new |-> new]

\* The clients RpcBroker.signal sends a signal on path p to.
Receivers(p, name) ==
  {c \in Client : \E ri \in RI : \E i \in subs[ri] :
     /\ clients[i] = c
     /\ Matches(ri, p, name)
     /\ AccessLevel(role[c], p) >= Read}

\* The queue is a deque with maxlen: a full one drops its oldest message.
Push(queue, m) ==
  IF Len(queue) < QueueMax THEN Append(queue, m) ELSE Append(Tail(queue), m)

\* Client.send of message m for all clients in "to".
Sent(to, m) ==
  [c \in Client |-> IF c \in to THEN Push(outbox[c], [session |-> cid[c], msg |-> m])
                                ELSE outbox[c]]

MountPoints(i) == {p \in Path : i # NoId /\ mounts[p] = i}

\* Variant: the subscriptions of the client are left behind.
UnregisterClient_KeepsSubs(c) ==
  IF cid[c] = NoId
  THEN UNCHANGED <<tables, outbox>>
  ELSE /\ clients' = [clients EXCEPT ![cid[c]] = NoClient]
       /\ mounts' = [p \in Path |-> IF mounts[p] = cid[c] THEN NoId ELSE mounts[p]]
       /\ UNCHANGED <<nextId, subs, outbox>>

\* Variant: the lsmod is made while the mount point is still in the table.
UnregisterClient_EarlyLsmod(c) ==
  IF cid[c] = NoId
  THEN UNCHANGED <<tables, outbox>>
  ELSE /\ clients' = [clients EXCEPT ![cid[c]] = NoClient]
       /\ subs' = [ri \in RI |-> subs[ri] \ {cid[c]}]
       /\ mounts' = [p \in Path |-> IF mounts[p] = cid[c] THEN NoId ELSE mounts[p]]
       /\ UNCHANGED nextId
       /\ IF MountPoints(cid[c]) = {}
          THEN UNCHANGED outbox
          ELSE \E p \in MountPoints(cid[c]) :
                 LET m == LsmodMsg(p, FALSE, mounts)
                 IN outbox' = Sent(Receivers(m.path, "lsmod"), m)

\* RpcBroker.unregister_client, when client c is registered.  The caller
\* assigns cid.
UnregisterClient(c) ==
  IF cid[c] = NoId
  THEN UNCHANGED <<tables, outbox>>
  ELSE /\ clients' = [clients EXCEPT ![cid[c]] = NoClient]
       /\ subs' = [ri \in RI |-> subs[ri] \ {cid[c]}]
       /\ UNCHANGED nextId
       /\ \/ /\ MountPoints(cid[c]) = {}
             /\ UNCHANGED <<mounts, outbox>>
          \/ \E p \in MountPoints(cid[c]) :
               /\ mounts' = [mounts EXCEPT ![p] = NoId]
               /\ LET m == LsmodMsg(p, FALSE, [mounts EXCEPT ![p] = NoId])
                  IN outbox' = Sent(Receivers(m.path, "lsmod"), m)

-----------------------------------------------------------------------------
(* Connection and login *)

Ready(c) == link[c] = "up" /\ ~ busy[c]
LoggedIn(c) == Ready(c) /\ role[c] # NoRole

\* The loop awaits _send of its reply; nothing else of the broker changes.
Reply(c) ==
  /\ busy' = [busy EXCEPT ![c] = TRUE]
  /\ UNCHANGED <<link, role, cid, pending, tasks, outbox, tables, asked>>

Connect(c) ==
  /\ link[c] = "none"
  /\ link' = [link EXCEPT ![c] = "up"]
  /\ UNCHANGED <<role, cid, busy, pending, tasks, outbox, tables, asked>>

\* hello, workflows, a refused login, or a request before the login.
AnswerBeforeLogin(c) ==
  /\ Ready(c)
  /\ role[c] = NoRole
  /\ Reply(c)

\* Variant: the IDs of clients that left are given to new ones.
NewId_Reused == CHOOSE i \in Id : clients[i] = NoClient /\ \A j \in 0 .. i - 1 : clients[j] # NoClient

NewId == nextId

\* The table accepts mount point m; <<>> asks for none.
Mountable(m) ==
  m # <<>> =>
    /\ m[1] \notin ReservedNode
    /\ \A p \in Mounted(mounts) : ~ Overlaps(m, p)

\* RpcBroker.register_client: the client enters _clients before its mount
\* point is looked at.
RegisterClient(c, r) ==
  /\ nextId < MaxId
  /\ nextId' = nextId + 1
  /\ clients' = [clients EXCEPT ![NewId] = c]
  /\ \E m \in RoleMounts(r) :
       \/ /\ ~ Mountable(m)        \* raises ValueError
          /\ UNCHANGED <<cid, mounts, subs, outbox>>
       \/ /\ Mountable(m)
          /\ cid' = [cid EXCEPT ![c] = NewId]
          /\ subs' = [ri \in RI |->
                        IF ri \in RoleSubs(r) THEN subs[ri] \cup {NewId} ELSE subs[ri]]
          /\ IF m = <<>>
             THEN UNCHANGED <<mounts, outbox>>
             ELSE /\ mounts' = [mounts EXCEPT ![m] = NewId]
                  /\ LET msg == LsmodMsg(m, TRUE, mounts)
                     IN outbox' = Sent(Receivers(msg.path, "lsmod"), msg)

\* A valid login: the role is assigned, then _register is attempted, and
\* both outcomes are answered.
Login(c, r) ==
  /\ Ready(c)
  /\ role[c] = NoRole
  /\ role' = [role EXCEPT ![c] = r]
  /\ RegisterClient(c, r)
  /\ busy' = [busy EXCEPT ![c] = TRUE]
  /\ UNCHANGED <<link, pending, tasks, asked>>

\* The loops a cancellation of c's tasks gets to: those the tasks await, and
\* from a loop that waits for its own tasks on to the ones these await.
Awaited(c) ==
  {d \in Client : \A S \in SUBSET Client :
     /\ waits[c] \subseteq S
     /\ \A e \in S : link[e] \in Winding => waits[e] \subseteq S
     => d \in S}

\* Loops that wait for each other: whoever cancels one is sent round until
\* Python's recursion limit, and none of them is ever resumed.
Entangled(d) == link[d] \in Winding /\ d \in Awaited(d)
Endless(c) == \E d \in Awaited(c) : Entangled(d)

\* The "finally" of SHVBase._loop: the send loop and the request tasks are
\* cancelled and waited for, and nothing else is.  A task that awaits a loop passes its
\* cancellation on to it, and one that awaits a lost reply ends.
CancelTasks(c, how) ==
  /\ pending' = [pending EXCEPT ![c] = <<>>]
  /\ busy' = [busy EXCEPT ![c] = FALSE]
  /\ \/ /\ ~ Endless(c)
        /\ link' = [link EXCEPT ![c] = how]
        /\ hung' = [d \in Client |-> hung[d] /\ d \notin Awaited(c)]
        /\ UNCHANGED waits
     \/ /\ Endless(c)                        \* RecursionError: no wait
        /\ link' = [link EXCEPT ![c] = "failing"]
        /\ waits' = [waits EXCEPT ![c] = {}]
        /\ \E S \in SUBSET Awaited(c) : hung' = [d \in Client |-> hung[d] /\ d \notin S]
  /\ UNCHANGED <<role, cid, outbox, tables, asked>>

\* An exception that no handler catches ends the loop; the transport stays open.
Fail(c) == CancelTasks(c, "failing")

\* config.login raises ValueError for a mount point the role may not use.
LoginMountForbidden(c) ==
  /\ Ready(c)
  /\ role[c] = NoRole
  /\ Fail(c)

\* The reply is out.  Request tasks were scheduled before the send loop was
\* woken, so they took their first step already.
ReplySent(c) ==
  /\ link[c] = "up" /\ busy[c]
  /\ pending[c] = <<>>
  /\ busy' = [busy EXCEPT ![c] = FALSE]
  /\ UNCHANGED <<link, role, cid, pending, tasks, outbox, tables, asked>>

\* The peer's RESET: Client._reset and LoginClient._reset.
Reset(c) ==
  /\ Ready(c)
  /\ UnregisterClient(c)
  /\ cid' = [cid EXCEPT ![c] = NoId]
  /\ role' = [role EXCEPT ![c] = NoRole]
  /\ UNCHANGED <<link, busy, pending, tasks, asked>>

-----------------------------------------------------------------------------
(* Requests *)

\* Without access only these may be asked, to browse.
OpenPath == {<<>>, <<".app">>, BrokerPath, BrokerPath \o <<"currentClient">>}

\* The level a request on path p is handled with, "wanted" being the one it
\* names: Client._message lowers it to what the role allows.
Allowed(c, p) ==
  IF AccessLevel(role[c], p) = 0 /\ p \in OpenPath THEN Browse ELSE AccessLevel(role[c], p)
Granted(c, p, wanted) ==
  IF wanted = NoLevel \/ wanted > Allowed(c, p) THEN Allowed(c, p) ELSE wanted

\* What Client._message does to any request on p before it looks for who
\* serves it: one without access is refused, and reading a level that is no
\* number raises ValueError.
Refused(c, p, wanted) ==
  \/ Allowed(c, p) = 0 /\ Reply(c)
  \/ Allowed(c, p) > 0 /\ wanted = Unreadable /\ Fail(c)

\* Nobody but a super user may reach currentClient of another broker, and
\* even he may not subscribe there.
Protected(rest, modifies, level) ==
  rest = CurrentClient /\ (modifies \/ level < SuperService)

\* A request that peer d serves as "rest".  "modifies" tells the methods
\* subscribe and unsubscribe from the others.
Propagate(c, d, rest, modifies, level, cids) ==
  \/ Protected(rest, modifies, level) /\ Reply(c)
  \/ ~ Protected(rest, modifies, level) /\ cid[c] = NoId /\ Fail(c)  \* the assert
  \/ /\ ~ Protected(rest, modifies, level)
     /\ cid[c] # NoId
     /\ outbox' = Sent({d}, [type |-> "request", cids |-> Append(cids, cid[c]),
                             asker |-> [client |-> c, id |-> cid[c], cids |-> cids]])
     /\ UNCHANGED <<session, tables, asked>>

\* A request for a path under a mount point.
RequestOnPath(c, p, modifies, wanted, cids) ==
  /\ LoggedIn(c)
  /\ \/ Refused(c, p, wanted)
     \/ /\ Allowed(c, p) > 0 /\ wanted # Unreadable
        /\ \E m \in Mounted(mounts) :
             /\ IsPrefix(m, p)
             /\ Propagate(c, clients[mounts[m]], SubSeq(p, Len(m) + 1, Len(p)),
                          modifies, Granted(c, p, wanted), cids)

\* A request for .broker/client/<i>/...
RequestById(c, i, rest, modifies, wanted, cids) ==
  LET p == BrokerPath \o <<"client", ToString(i)>> \o rest
  IN /\ LoggedIn(c)
     /\ Allowed(c, p) > 0 /\ wanted # Unreadable
     /\ clients[i] # NoClient
     /\ Propagate(c, clients[i], rest, modifies, Granted(c, p, wanted), cids)

\* A request the broker serves itself: SHVBase._message starts a task.
RequestLocal(c, task, wanted) ==
  /\ LoggedIn(c)
  /\ wanted # Unreadable
  /\ task.op = "disconnectClient" => Granted(c, BrokerPath, wanted) = SuperService
  /\ Len(pending[c]) < MaxPending
  /\ pending' = [pending EXCEPT ![c] = Append(@, task)]
  /\ UNCHANGED <<link, role, cid, busy, tasks, outbox, tables, asked>>

\* The task of a request of client c takes its first step.
Serving(c, op) ==
  /\ link[c] \in {"up", "cancelled"}
  /\ pending[c] # <<>> /\ Head(pending[c]).op = op
  /\ pending' = [pending EXCEPT ![c] = Tail(@)]

\* RpcBroker.subscribe and RpcBroker.unsubscribe raise for a client without
\* an ID, and _method_call for one without a role.
MayChangeSubs(c) == role[c] # NoRole /\ cid[c] # NoId

Subscribe(c) ==
  /\ Serving(c, "subscribe")
  /\ subs' = IF MayChangeSubs(c)
             THEN [subs EXCEPT ![Head(pending[c]).ri] = @ \cup {cid[c]}]
             ELSE subs
  /\ UNCHANGED <<link, role, cid, busy, tasks, outbox, nextId, clients, mounts, asked>>

\* Variant: the RI is dropped together with the client's entry.
Unsubscribe_DropsRI(c) ==
  /\ Serving(c, "unsubscribe")
  /\ subs' = IF MayChangeSubs(c) THEN [subs EXCEPT ![Head(pending[c]).ri] = {}] ELSE subs
  /\ UNCHANGED <<link, role, cid, busy, tasks, outbox, nextId, clients, mounts, asked>>

Unsubscribe(c) ==
  /\ Serving(c, "unsubscribe")
  /\ subs' = IF MayChangeSubs(c)
             THEN [subs EXCEPT ![Head(pending[c]).ri] = @ \ {cid[c]}]
             ELSE subs
  /\ UNCHANGED <<link, role, cid, busy, tasks, outbox, nextId, clients, mounts, asked>>

\* Client.disconnect of d up to the await of its loop task, called by a task
\* of c.  A loop that waits for its tasks has them cancelled once more.
Disconnect(c, d) ==
  /\ UnregisterClient(d)
  /\ cid' = [cid EXCEPT ![d] = NoId]
  /\ \/ /\ link[d] \in {"up", "cancelled"}
        /\ link' = [link EXCEPT ![d] = "cancelled"]
        /\ waits' = [waits EXCEPT ![c] = @ \cup {d}]
        /\ UNCHANGED hung
     \/ /\ link[d] \in Winding /\ ~ Entangled(d) /\ ~ Endless(d)
        /\ link' = [link EXCEPT ![d] = "closing"]
        /\ waits' = [waits EXCEPT ![c] = @ \cup {d}]
        /\ hung' = [e \in Client |-> hung[e] /\ e \notin Awaited(d) \cup {d}]
     \/ /\ link[d] \in Winding /\ (Entangled(d) \/ Endless(d))   \* RecursionError
        /\ UNCHANGED <<link, tasks>>
     \/ /\ link[d] \in Ended
        /\ link' = [link EXCEPT ![d] = "closed"]
        /\ UNCHANGED tasks

DisconnectClient(c) ==
  /\ Serving(c, "disconnectClient")
  /\ LET d == clients[Head(pending[c]).id]
     IN IF role[c] # NoRole /\ d # NoClient
        THEN Disconnect(c, d)
        ELSE UNCHANGED <<link, cid, tasks, outbox, tables>>
  /\ UNCHANGED <<role, busy, asked>>

\* The loop of d ended: the task of c that awaits it goes on to send its
\* reply, whether or not it was cancelled meanwhile, for disconnect suppresses
\* the CancelledError.  After the send loop was cancelled nobody takes it.
Resume(c, d) ==
  /\ d \in waits[c]
  /\ link[d] \in Ended
  /\ waits' = [waits EXCEPT ![c] = @ \ {d}]
  /\ hung' = [hung EXCEPT ![c] = @ \/ link[c] \in Winding]
  /\ UNCHANGED <<link, role, cid, busy, pending, outbox, tables, asked>>

-----------------------------------------------------------------------------
(* Responses, signals and the peers *)

\* The send loop has nothing of its own to send and takes a queued message.
SendIdle(c) ==
  /\ link[c] = "up"
  /\ outbox[c] # <<>>
  /\ Cardinality(asked[c]) < MaxAsked
  /\ outbox' = [outbox EXCEPT ![c] = Tail(@)]
  /\ asked' = [asked EXCEPT ![c] = IF Head(outbox[c]).msg.type = "request"
                                   THEN @ \cup {Head(outbox[c]).msg} ELSE @]
  /\ UNCHANGED <<session, tables>>

\* The client a response with these caller IDs is for.
ResponseTo(cids) ==
  {d \in Client : Last(cids) \in Id /\ clients[Last(cids)] = d}

\* Peer c answers request q with a response, or with a delay ("final" FALSE).
\* Before the login the broker ignores it.
Respond(c, q, final) ==
  /\ Ready(c)
  /\ asked' = IF final THEN [asked EXCEPT ![c] = @ \ {q}] ELSE asked
  /\ outbox' = IF role[c] = NoRole THEN outbox
               ELSE Sent(ResponseTo(q.cids),
                         [type |-> "response", cids |-> Front(q.cids), asker |-> q.asker])
  /\ UNCHANGED <<session, tables>>

\* RpcBroker.signal_from: only a mounted client's signals go on.
SignalFrom(c, p) ==
  /\ LoggedIn(c)
  /\ \E m \in MountPoints(cid[c]) :
       outbox' = Sent(Receivers(m \o p, "chng"), [type |-> "signal", path |-> m \o p])
  /\ UNCHANGED <<session, tables, asked>>

-----------------------------------------------------------------------------
(* The end of a connection *)

\* receive (or the pending _send) raises EOFError.
Eof(c) ==
  /\ link[c] = "up"
  /\ CancelTasks(c, "closing")

\* The loop of a client somebody disconnected meets its cancellation.
LoopCancelled(c) ==
  /\ link[c] = "cancelled"
  /\ CancelTasks(c, "closing")

\* The activity loop, itself a task _loop waits for, disconnects the client.
IdleTimeout(c) ==
  /\ link[c] = "up"
  /\ Disconnect(c, c)
  /\ UNCHANGED <<role, busy, pending, asked>>

LoopMayEnd(c) == link[c] \in Winding /\ waits[c] = {} /\ ~ hung[c]

\* Variant: the loop ends without _unregister.
LoopEnds_KeepsRegistration(c) ==
  /\ LoopMayEnd(c)
  /\ link' = [link EXCEPT ![c] = IF @ = "closing" THEN "closed" ELSE "dead"]
  /\ UNCHANGED <<role, cid, busy, pending, tasks, outbox, tables, asked>>

\* The tasks ended: the "finally" of LoginClient._loop.
LoopEnds(c) ==
  /\ LoopMayEnd(c)
  /\ link' = [link EXCEPT ![c] = IF @ = "closing" THEN "closed" ELSE "dead"]
  /\ UnregisterClient(c)
  /\ cid' = [cid EXCEPT ![c] = NoId]
  /\ UNCHANGED <<role, busy, pending, tasks, asked>>

Wanted == Level \cup {NoLevel, Unreadable}

Next ==
  \E c \in Client :
    \/ Connect(c)
    \/ AnswerBeforeLogin(c)
    \/ \E r \in Role : Login(c, r)
    \/ LoginMountForbidden(c)
    \/ ReplySent(c)
    \/ Reset(c)
    \/ \E modifies \in BOOLEAN, wanted \in Wanted, cids \in PeerCallerIds :
         \/ \E p \in Path : RequestOnPath(c, p, modifies, wanted, cids)
         \/ \E i \in Id, rest \in {<<>>, CurrentClient} :
              RequestById(c, i, rest, modifies, wanted, cids)
    \/ \E task \in Task, wanted \in Wanted : RequestLocal(c, task, wanted)
    \/ Subscribe(c)
    \/ Unsubscribe(c)
    \/ DisconnectClient(c)
    \/ \E d \in Client : Resume(c, d)
    \/ SendIdle(c)
    \/ \E q \in asked[c], final \in BOOLEAN : Respond(c, q, final)
    \/ \E p \in Path : SignalFrom(c, p)
    \/ Eof(c)
    \/ IdleTimeout(c)
    \/ LoopCancelled(c)
    \/ LoopEnds(c)

\* asyncio runs every ready task: a loop that is on its way out and the tasks
\* that awaited its end.  Nothing is assumed of peers.
Leave(c) ==
  LoopCancelled(c) \/ LoopEnds(c) \/ \E d \in Client : Resume(c, d)

Fairness == WF_vars(\E c \in Client : Leave(c))

Spec == Init /\ [][Next]_vars /\ Fairness

-----------------------------------------------------------------------------
(* Properties *)

\* Every variable holds what the code's fields may hold.
TypeOK ==
  /\ link \in [Client -> LinkState]
  /\ role \in [Client -> Role \cup {NoRole}]
  /\ cid \in [Client -> Id \cup {NoId}]
  /\ busy \in [Client -> BOOLEAN]
  /\ pending \in [Client -> Seq(Task)]
  /\ waits \in [Client -> SUBSET Client]
  /\ hung \in [Client -> BOOLEAN]
  /\ outbox \in [Client -> Seq([session : Id \cup {NoId}, msg : Message])]
  /\ nextId \in 0 .. MaxId
  /\ clients \in [Id -> Client \cup {NoClient}]
  /\ mounts \in [Path -> Id \cup {NoId}]
  /\ subs \in [RI -> SUBSET Id]
  /\ asked \in [Client -> SUBSET Request]

Registered(i) == i \in Id /\ clients[i] # NoClient /\ cid[clients[i]] = i

\* The three tables and the clients' own IDs agree: a client that thinks it
\* is registered is found under its ID, and every ID in _mounts and _subs is
\* the present ID of a client, that has at most one mount point.  The lookups
\* self._clients[cid] in signal, client_on_path and mounted_clients rely on it.
RegistryConsistent ==
  /\ \A c \in Client : cid[c] # NoId => clients[cid[c]] = c
  /\ \A p \in Path : mounts[p] # NoId => Registered(mounts[p])
  /\ \A ri \in RI : \A i \in subs[ri] : Registered(i)
  /\ \A p, q \in Path : mounts[p] # NoId /\ mounts[p] = mounts[q] => p = q

\* No mount point is another one or lies under another one, and none is
\* reserved: the first match of client_on_path is the only one.
MountsDisjoint ==
  /\ \A p, q \in Mounted(mounts) : p # q => ~ Overlaps(p, q)
  /\ \A p \in Mounted(mounts) : p # <<>> /\ p[1] \notin ReservedNode

\* A registered client has a role: the assert in RpcBroker.signal never
\* fails, whichever client the signal or the lsmod is for.
SubscribersHaveRole ==
  \A ri \in RI : \A i \in subs[ri] :
    clients[i] # NoClient => role[clients[i]] # NoRole

\* Whatever ended a login client's loop, nothing of it stays in effect: it
\* holds no ID, hence no mount point and no subscription.
GoneHoldsNothing ==
  \A c \in Client : link[c] \in Ended => cid[c] = NoId

\* Nor does a client that is being disconnected, from the moment somebody
\* awaits its end and however long that takes: of loops that wait for each
\* other for ever none holds an ID.
AwaitedHoldsNothing ==
  \A c \in Client : \A d \in waits[c] : cid[d] = NoId

\* What the broker looks up without looking twice is there: the tables agree,
\* whoever has a subscription has a role, and nothing refers to a client that
\* is gone or on its way, however its loop ends.
TablesAreTrue ==
  RegistryConsistent /\ SubscribersHaveRole /\ GoneHoldsNothing /\ AwaitedHoldsNothing

\* A response that is queued for a client answers a request of this client,
\* made in the registration it has at that time, and carries the caller IDs the
\* request came with: it never goes to whoever came after the asker.
ResponseReachesAsker ==
  \A c \in Client : \A k \in DOMAIN outbox[c] :
    LET e == outbox[c][k] IN
      e.msg.type = "response" =>
        /\ e.msg.asker.client = c
        /\ e.msg.asker.id = e.session
        /\ e.msg.cids = e.msg.asker.cids

\* Only the subscriber itself ends a subscription, by its own request or
\* with its registration.
OnlyOwnerUnsubscribes ==
  [][\A ri \in RI : \A i \in subs[ri] \ subs'[ri] :
       \E c \in Client :
         /\ cid[c] = i
         /\ cid'[c] # i \/ pending'[c] # pending[c]]_vars

NodeExists(p, mnts) == \E m \in Mounted(mnts) : IsPrefix(p, m)

\* An lsmod the broker queues while its mount points change says what became
\* of the tree: the node it names exists from now on, or no longer, and the
\* opposite was true before.
LsmodTracksTree ==
  [][\A c \in Client :
       (mounts' # mounts /\ outbox'[c] # outbox[c]) =>
         LET m == Last(outbox'[c]).msg
             p == Append(m.path, m.node)
         IN /\ m.type = "lsmod"
            /\ NodeExists(p, mounts') <=> m.new
            /\ NodeExists(p, mounts) <=> ~ m.new]_vars

\* A connection that ends gives its registration back.  A client it is
\* disconnecting at that moment may keep it from doing so in two ways only:
\* the task that awaited the other one goes on to a reply nobody sends, and
\* the loop waits for it until somebody disconnects this client; or the
\* other's loop is one of those that wait for each other.
EofUnregisters ==
  \A c \in Client : link[c] \in Winding ~> cid[c] = NoId \/ hung[c] \/ Endless(c)
=============================================================================
