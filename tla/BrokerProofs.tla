---------------------------- MODULE BrokerProofs ----------------------------
(***************************************************************************)
(* Theorems about Broker for any number of clients, IDs, mount points and  *)
(* subscriptions.  First the tables, whose inductive invariant is          *)
(* TablesInv; then the tasks and the messages: their types, that whoever   *)
(* is awaited holds nothing, and that a response reaches the client that   *)
(* asked, in the registration it asked in.                                 *)
(***************************************************************************)
EXTENDS Broker, FiniteSetTheorems, TLAPS

\* The fields the tables depend on have their types.
TablesType ==
  /\ link \in [Client -> LinkState]
  /\ role \in [Client -> Role \cup {NoRole}]
  /\ cid \in [Client -> Id \cup {NoId}]
  /\ pending \in [Client -> Seq(Task)]
  /\ nextId \in 0 .. MaxId
  /\ clients \in [Id -> Client \cup {NoClient}]
  /\ mounts \in [Path -> Id \cup {NoId}]
  /\ subs \in [RI -> SUBSET Id]

\* An ID that was not given out yet appears nowhere.
FreshIds ==
  \A i \in Id : i >= nextId =>
    clients[i] = NoClient /\ \A c \in Client : cid[c] # i

\* A registered client has a role and its loop has not ended.
RegisteredIsLive ==
  \A c \in Client : cid[c] # NoId => role[c] # NoRole /\ link[c] \in {"up"} \cup Winding

TablesInv ==
  /\ TablesType
  /\ RegistryConsistent
  /\ MountsDisjoint
  /\ FreshIds
  /\ RegisteredIsLive

-----------------------------------------------------------------------------

LEMMA InitTables == Init => TablesInv
<1> SUFFICES ASSUME Init PROVE TablesInv
  OBVIOUS
<1> USE BrokerAssumption DEF Init, NoId, Id
<1>1. TablesType
  BY DEF TablesType, LinkState
<1>2. RegistryConsistent
  BY DEF RegistryConsistent, Registered
<1>3. MountsDisjoint
  BY DEF MountsDisjoint, Mounted
<1>4. FreshIds /\ RegisteredIsLive
  BY DEF FreshIds, RegisteredIsLive
<1> QED
  BY <1>1, <1>2, <1>3, <1>4 DEF TablesInv

\* Unregistering a client takes out everything that refers to it.
LEMMA Unregistering ==
  ASSUME TablesInv, NEW d \in Client, UnregisterClient(d),
         cid' = [cid EXCEPT ![d] = NoId]
  PROVE  /\ nextId' = nextId
         /\ clients' \in [Id -> Client \cup {NoClient}]
         /\ mounts' \in [Path -> Id \cup {NoId}]
         /\ subs' \in [RI -> SUBSET Id]
         /\ cid' \in [Client -> Id \cup {NoId}]
         /\ RegistryConsistent'
         /\ MountsDisjoint'
         /\ FreshIds'
<1> USE BrokerAssumption DEF TablesInv, TablesType, NoId, Id
<1>1. CASE cid[d] = NoId
  <2>1. cid' = cid
    BY <1>1
  <2> QED
    BY <1>1, <2>1 DEF UnregisterClient, tables, RegistryConsistent, Registered,
                      MountsDisjoint, Mounted, FreshIds
<1>2. CASE cid[d] # NoId
  <2> DEFINE i == cid[d]
  <2>1. /\ i \in Id
        /\ clients[i] = d
    BY <1>2 DEF RegistryConsistent
  <2>2. /\ clients' = [clients EXCEPT ![i] = NoClient]
        /\ subs' = [ri \in RI |-> subs[ri] \ {i}]
        /\ nextId' = nextId
    BY <1>2 DEF UnregisterClient
  <2>3. /\ mounts' \in [Path -> Id \cup {NoId}]
        /\ \A p \in Path : mounts'[p] = (IF mounts[p] = i THEN NoId ELSE mounts[p])
    <3>1. CASE MountPoints(i) = {} /\ mounts' = mounts
      BY <3>1, <2>1 DEF MountPoints
    <3>2. CASE \E p \in MountPoints(i) : mounts' = [mounts EXCEPT ![p] = NoId]
      BY <3>2, <2>1 DEF MountPoints, RegistryConsistent
    <3> QED
      BY <1>2, <3>1, <3>2 DEF UnregisterClient
  <2>4. /\ clients' \in [Id -> Client \cup {NoClient}]
        /\ subs' \in [RI -> SUBSET Id]
        /\ cid' \in [Client -> Id \cup {NoId}]
    BY <2>1, <2>2
  <2>5. \A c \in Client : c # d => cid'[c] = cid[c] /\ cid[c] # i
    BY <2>1 DEF RegistryConsistent
  <2>6. \A j \in Id : Registered(j) /\ j # i => Registered(j)'
    BY <2>1, <2>2, <2>5 DEF Registered
  <2>7. RegistryConsistent'
    <3>1. \A c \in Client : cid'[c] # NoId => clients'[cid'[c]] = c
      BY <2>1, <2>2, <2>5 DEF RegistryConsistent
    <3>2. \A p \in Path : mounts'[p] # NoId => Registered(mounts[p])'
      BY <2>1, <2>3, <2>6 DEF RegistryConsistent
    <3>3. \A ri \in RI : \A j \in subs'[ri] : Registered(j)'
      BY <2>1, <2>2, <2>6 DEF RegistryConsistent
    <3>4. \A p, q \in Path : mounts'[p] # NoId /\ mounts'[p] = mounts'[q] => p = q
      BY <2>3 DEF RegistryConsistent
    <3> QED
      BY <3>1, <3>2, <3>3, <3>4 DEF RegistryConsistent
  <2>8. MountsDisjoint'
    BY <2>3 DEF MountsDisjoint, Mounted
  <2>9. FreshIds'
    BY <2>1, <2>2, <2>5 DEF FreshIds
  <2> QED
    BY <2>2, <2>3, <2>4, <2>7, <2>8, <2>9
<1> QED
  BY <1>1, <1>2

\* A step that leaves the tables, the roles and the IDs alone, and ends no
\* loop of a registered client.
LEMMA TablesUntouched ==
  ASSUME TablesInv, UNCHANGED <<role, cid, tables>>,
         link' \in [Client -> LinkState], pending' \in [Client -> Seq(Task)],
         \A c \in Client : cid[c] # NoId => link'[c] \in {"up"} \cup Winding
  PROVE  TablesInv'
<1> USE DEF TablesInv, tables
<1>1. TablesType'
  BY DEF TablesType
<1>2. RegistryConsistent'
  BY DEF RegistryConsistent, Registered
<1>3. MountsDisjoint' /\ FreshIds' /\ RegisteredIsLive'
  BY DEF MountsDisjoint, Mounted, FreshIds, RegisteredIsLive
<1> QED
  BY <1>1, <1>2, <1>3

\* A reset, a disconnect or the end of a loop: client d is unregistered.
LEMMA UnregisterStep ==
  ASSUME TablesInv, NEW d \in Client, UnregisterClient(d),
         cid' = [cid EXCEPT ![d] = NoId],
         link' \in [Client -> LinkState], role' \in [Client -> Role \cup {NoRole}],
         pending' \in [Client -> Seq(Task)],
         \A c \in Client : c # d => link'[c] = link[c] /\ role'[c] = role[c]
  PROVE  TablesInv'
<1>1. RegistryConsistent' /\ MountsDisjoint' /\ FreshIds'
  BY Unregistering
<1>2. TablesType'
  BY Unregistering DEF TablesInv, TablesType
<1>3. RegisteredIsLive'
  BY DEF TablesInv, TablesType, RegisteredIsLive
<1> QED
  BY <1>1, <1>2, <1>3 DEF TablesInv

LEMMA LoginStep ==
  ASSUME TablesInv, NEW c \in Client, NEW r \in Role, Login(c, r)
  PROVE  TablesInv'
<1> USE BrokerAssumption DEF TablesInv, NoId, Id
<1>1. /\ link[c] = "up" /\ role[c] = NoRole /\ cid[c] = NoId
      /\ link' = link /\ pending' = pending
      /\ role' = [role EXCEPT ![c] = r]
      /\ nextId \in Id /\ nextId' = nextId + 1
      /\ clients' = [clients EXCEPT ![nextId] = c]
  BY DEF Login, Ready, RegisterClient, NewId, RegisteredIsLive, TablesType
<1>2. clients[nextId] = NoClient /\ \A d \in Client : cid[d] # nextId
  BY <1>1 DEF FreshIds, TablesType
<1>3. PICK m \in RoleMounts(r) :
        \/ /\ ~ Mountable(m)
           /\ UNCHANGED <<cid, mounts, subs, outbox>>
        \/ /\ Mountable(m)
           /\ cid' = [cid EXCEPT ![c] = nextId]
           /\ subs' = [ri \in RI |->
                         IF ri \in RoleSubs(r) THEN subs[ri] \cup {nextId} ELSE subs[ri]]
           /\ mounts' = IF m = <<>> THEN mounts ELSE [mounts EXCEPT ![m] = nextId]
  BY DEF Login, RegisterClient, NewId
<1>4. m \in Path
  OBVIOUS
<1>5. role' \in [Client -> Role \cup {NoRole}] /\ nextId' \in 0 .. MaxId
      /\ clients' \in [Id -> Client \cup {NoClient}]
  BY <1>1 DEF TablesType
<1>6. \A j \in Id : j # nextId => clients'[j] = clients[j]
  BY <1>1 DEF TablesType
<1>7. \A d \in Client : d # c => cid'[d] = cid[d] /\ role'[d] = role[d]
  BY <1>1, <1>3 DEF TablesType
<1>8. \A j \in Id : Registered(j) => j # nextId /\ Registered(j)'
  <2> SUFFICES ASSUME NEW j \in Id, Registered(j)
               PROVE  j # nextId /\ Registered(j)'
    OBVIOUS
  <2>1. clients[j] # NoClient /\ cid[clients[j]] = j /\ clients[j] \in Client
    BY DEF Registered, TablesType
  <2>2. j # nextId /\ clients[j] # c
    BY <2>1, <1>1, <1>2
  <2> QED
    BY <2>1, <2>2, <1>6, <1>7 DEF Registered
<1>9. CASE ~ Mountable(m) /\ UNCHANGED <<cid, mounts, subs, outbox>>
  <2>1. TablesType'
    BY <1>1, <1>5, <1>9 DEF TablesType
  <2>2. RegistryConsistent'
    BY <1>1, <1>2, <1>6, <1>8, <1>9 DEF RegistryConsistent, TablesType
  <2>3. MountsDisjoint'
    BY <1>9 DEF MountsDisjoint, Mounted
  <2>4. FreshIds'
    BY <1>1, <1>2, <1>6, <1>9 DEF FreshIds, TablesType
  <2>5. RegisteredIsLive'
    BY <1>1, <1>7, <1>9 DEF RegisteredIsLive
  <2> QED
    BY <2>1, <2>2, <2>3, <2>4, <2>5
<1>10. CASE /\ Mountable(m)
            /\ cid' = [cid EXCEPT ![c] = nextId]
            /\ subs' = [ri \in RI |->
                          IF ri \in RoleSubs(r) THEN subs[ri] \cup {nextId} ELSE subs[ri]]
            /\ mounts' = IF m = <<>> THEN mounts ELSE [mounts EXCEPT ![m] = nextId]
  <2>1. TablesType'
    BY <1>1, <1>4, <1>5, <1>10 DEF TablesType
  <2>2. \A j \in Id : j = nextId => Registered(j)'
    BY <1>1, <1>10 DEF Registered, TablesType
  <2>3. RegistryConsistent'
    <3>1. \A d \in Client : cid'[d] # NoId => clients'[cid'[d]] = d
      BY <1>1, <1>2, <1>6, <1>7, <1>10 DEF RegistryConsistent, TablesType
    <3>2. \A p \in Path : mounts'[p] # NoId => Registered(mounts[p])'
      BY <1>1, <1>4, <1>8, <1>10, <2>2 DEF RegistryConsistent, TablesType
    <3>3. \A ri \in RI : \A j \in subs'[ri] : Registered(j)'
      BY <1>1, <1>8, <1>10, <2>2 DEF RegistryConsistent, TablesType
    <3>4. \A p, q \in Path : mounts'[p] # NoId /\ mounts'[p] = mounts'[q] => p = q
      BY <1>4, <1>8, <1>10 DEF RegistryConsistent, TablesType
    <3> QED
      BY <3>1, <3>2, <3>3, <3>4 DEF RegistryConsistent
  <2>4. MountsDisjoint'
    <3>1. Mounted(mounts)' \subseteq Mounted(mounts) \cup ({m} \ {<<>>})
      BY <1>4, <1>10 DEF Mounted, TablesType
    <3>2. \A p, q : Overlaps(p, q) <=> Overlaps(q, p)
      BY DEF Overlaps
    <3>3. m # <<>> => m[1] \notin ReservedNode /\ \A p \in Mounted(mounts) : ~ Overlaps(m, p)
      BY <1>10 DEF Mountable
    <3> QED
      BY <3>1, <3>2, <3>3 DEF MountsDisjoint
  <2>5. FreshIds'
    BY <1>1, <1>2, <1>6, <1>7, <1>10 DEF FreshIds, TablesType
  <2>6. RegisteredIsLive'
    BY <1>1, <1>7, <1>10 DEF RegisteredIsLive, TablesType
  <2> QED
    BY <2>1, <2>3, <2>4, <2>5, <2>6
<1> QED
  BY <1>3, <1>9, <1>10

\* A loop that cancels its tasks is still there, as far as its client is registered.
LEMMA CancelStep ==
  ASSUME TablesInv, NEW c \in Client, NEW how \in Winding, CancelTasks(c, how)
  PROVE  TablesInv'
<1>1. \/ link' = [link EXCEPT ![c] = how]
      \/ link' = [link EXCEPT ![c] = "failing"]
  BY DEF CancelTasks
<1>2. /\ pending' \in [Client -> Seq(Task)]
      /\ link' \in [Client -> LinkState]
  <2>1. pending' = [pending EXCEPT ![c] = <<>>]
    BY DEF CancelTasks
  <2>2. /\ pending \in [Client -> Seq(Task)] /\ link \in [Client -> LinkState]
        /\ how \in LinkState /\ "failing" \in LinkState
    BY DEF TablesInv, TablesType, LinkState, Winding
  <2>3. <<>> \in Seq(Task)
    OBVIOUS
  <2> QED
    BY <1>1, <2>1, <2>2, <2>3
<1>3. \A d \in Client : cid[d] # NoId => link'[d] \in {"up"} \cup Winding
  BY <1>1 DEF TablesInv, TablesType, RegisteredIsLive, Winding
<1>4. UNCHANGED <<role, cid, tables>>
  BY DEF CancelTasks, tables
<1> QED
  BY <1>2, <1>3, <1>4, TablesUntouched

LEMMA FailStep ==
  ASSUME TablesInv, NEW c \in Client, Fail(c)
  PROVE  TablesInv'
BY CancelStep DEF Fail, Winding

LEMMA ReplyStep ==
  ASSUME TablesInv, NEW c \in Client, Reply(c)
  PROVE  TablesInv'
BY TablesUntouched DEF Reply, TablesInv, TablesType, RegisteredIsLive

\* What a request for a peer comes to.
LEMMA RequestOutcomes ==
  ASSUME NEW c \in Client, NEW modifies \in BOOLEAN, NEW wanted \in Wanted,
         NEW cids \in PeerCallerIds,
         \/ \E p \in Path : RequestOnPath(c, p, modifies, wanted, cids)
         \/ \E i \in Id, rest \in {<<>>, CurrentClient} :
              RequestById(c, i, rest, modifies, wanted, cids)
  PROVE  \/ Reply(c)
         \/ Fail(c)
         \/ /\ cid[c] # NoId
            /\ \E d : outbox' = Sent({d}, [type |-> "request", cids |-> Append(cids, cid[c]),
                        asker |-> [client |-> c, id |-> cid[c], cids |-> cids]])
            /\ UNCHANGED <<session, tables, asked>>
BY DEF RequestOnPath, RequestById, Refused, Propagate

\* What Disconnect does to the links.
LEMMA DisconnectLinks ==
  ASSUME TablesInv, NEW c \in Client, NEW d \in Client, Disconnect(c, d)
  PROVE  /\ link' \in [Client -> LinkState]
         /\ \A e \in Client : e # d => link'[e] = link[e]
<1>1. link' = link \/ \E l \in LinkState : link' = [link EXCEPT ![d] = l]
  BY DEF Disconnect, LinkState, Winding, Ended
<1> QED
  BY <1>1 DEF TablesInv, TablesType

LEMMA ServingPending ==
  ASSUME TablesInv, NEW c \in Client, NEW op, Serving(c, op)
  PROVE  /\ pending[c] # <<>> /\ Head(pending[c]) \in Task
         /\ Head(pending[c]).op = op
         /\ pending' \in [Client -> Seq(Task)]
BY DEF Serving, TablesInv, TablesType

LEMMA NextTables == TablesInv /\ [Next]_vars => TablesInv'
<1> SUFFICES ASSUME TablesInv, [Next]_vars PROVE TablesInv'
  OBVIOUS
<1> USE DEF session, tables
<1>0. TablesType /\ RegisteredIsLive
  BY DEF TablesInv
<1>1. CASE UNCHANGED vars
  BY <1>0, <1>1, TablesUntouched DEF vars, TablesType, RegisteredIsLive
<1>2. CASE Next
  <2> PICK c \in Client :
        \/ Connect(c)
        \/ AnswerBeforeLogin(c)
        \/ \E r \in Role : Login(c, r)
        \/ LoginMountForbidden(c)
        \/ ReplySent(c)
        \/ Reset(c)
        \/ \E modifies \in BOOLEAN, wanted \in Wanted, cids \in PeerCallerIds :
             \/ \E p \in Path : RequestOnPath(c, p, modifies, wanted, cids)
             \/ \E i \in Id, rest \in {<<>>, CurrentClient} :
                  RequestById(c, i, rest, modifies, wanted, cids)
        \/ \E task \in Task, wanted \in Wanted : RequestLocal(c, task, wanted)
        \/ Subscribe(c)
        \/ Unsubscribe(c)
        \/ DisconnectClient(c)
        \/ \E d \in Client : Resume(c, d)
        \/ SendIdle(c)
        \/ \E q \in asked[c], final \in BOOLEAN : Respond(c, q, final)
        \/ \E p \in Path : SignalFrom(c, p)
        \/ Eof(c)
        \/ IdleTimeout(c)
        \/ LoopCancelled(c)
        \/ LoopEnds(c)
    BY <1>2 DEF Next
  <2>1. CASE Connect(c)
    BY <1>0, <2>1, TablesUntouched DEF Connect, TablesType, RegisteredIsLive, LinkState
  <2>2. CASE AnswerBeforeLogin(c) \/ ReplySent(c) \/ SendIdle(c)
    BY <1>0, <2>2, ReplyStep, TablesUntouched
       DEF AnswerBeforeLogin, ReplySent, SendIdle, TablesType, RegisteredIsLive
  <2>3. CASE \E r \in Role : Login(c, r)
    BY <2>3, LoginStep
  <2>4. CASE LoginMountForbidden(c)
    BY <2>4, FailStep DEF LoginMountForbidden
  <2>5. CASE Reset(c)
    BY <1>0, <2>5, UnregisterStep DEF Reset, TablesType
  <2>6. CASE \E modifies \in BOOLEAN, wanted \in Wanted, cids \in PeerCallerIds :
             \/ \E p \in Path : RequestOnPath(c, p, modifies, wanted, cids)
             \/ \E i \in Id, rest \in {<<>>, CurrentClient} :
                  RequestById(c, i, rest, modifies, wanted, cids)
    <3>1. CASE Reply(c) \/ Fail(c)
      BY <3>1, ReplyStep, FailStep
    <3>2. CASE UNCHANGED <<session, tables, asked>>
      BY <1>0, <3>2, TablesUntouched DEF TablesType, RegisteredIsLive
    <3> QED
      BY <2>6, <3>1, <3>2, RequestOutcomes
  <2>7. CASE \E task \in Task, wanted \in Wanted : RequestLocal(c, task, wanted)
    <3>1. PICK task \in Task, wanted \in Wanted : RequestLocal(c, task, wanted)
      BY <2>7
    <3>2. pending' \in [Client -> Seq(Task)]
      BY <1>0, <3>1 DEF RequestLocal, TablesType
    <3> QED
      BY <1>0, <3>1, <3>2, TablesUntouched DEF RequestLocal, TablesType, RegisteredIsLive
  <2>8. CASE Subscribe(c) \/ Unsubscribe(c)
    <3>1. pending' \in [Client -> Seq(Task)]
      BY <2>8, ServingPending DEF Subscribe, Unsubscribe
    <3>2. /\ \A ri \in RI : subs'[ri] \subseteq subs[ri] \cup ({cid[c]} \ {NoId})
          /\ subs' \in [RI -> SUBSET Id]
      <4> DEFINE ri0 == Head(pending[c]).ri
      <4>1. subs \in [RI -> SUBSET Id] /\ (cid[c] # NoId => cid[c] \in Id)
        BY <1>0 DEF TablesType
      <4>2. CASE subs' = subs
        BY <4>1, <4>2
      <4>3. CASE cid[c] # NoId /\ subs' = [subs EXCEPT ![ri0] = @ \cup {cid[c]}]
        BY <4>1, <4>3
      <4>4. CASE subs' = [subs EXCEPT ![ri0] = @ \ {cid[c]}]
        BY <4>1, <4>4
      <4> QED
        BY <2>8, <4>2, <4>3, <4>4 DEF Subscribe, Unsubscribe, MayChangeSubs
    <3>3. UNCHANGED <<link, role, cid, nextId, clients, mounts>>
      BY <2>8 DEF Subscribe, Unsubscribe
    <3>4. cid[c] # NoId => Registered(cid[c])
      BY <1>0, BrokerAssumption DEF TablesInv, RegistryConsistent, Registered, TablesType
    <3>5. RegistryConsistent'
      BY <3>2, <3>3, <3>4 DEF TablesInv, RegistryConsistent, Registered
    <3>6. TablesType'
      BY <1>0, <3>1, <3>2, <3>3 DEF TablesType
    <3>7. MountsDisjoint' /\ FreshIds' /\ RegisteredIsLive'
      BY <1>0, <3>3 DEF TablesInv, MountsDisjoint, Mounted, FreshIds, RegisteredIsLive
    <3> QED
      BY <3>5, <3>6, <3>7 DEF TablesInv
  <2>9. CASE DisconnectClient(c)
    <3> DEFINE d == clients[Head(pending[c]).id]
    <3>1. pending' \in [Client -> Seq(Task)] /\ Head(pending[c]).id \in Id
      BY <2>9, ServingPending DEF DisconnectClient, Task
    <3>2. CASE UNCHANGED <<link, cid, tables>>
      BY <1>0, <2>9, <3>1, <3>2, TablesUntouched DEF DisconnectClient, TablesType, RegisteredIsLive
    <3>3. CASE d # NoClient /\ Disconnect(c, d)
      <4>1. d \in Client
        BY <1>0, <3>1, <3>3 DEF TablesType
      <4>2. link' \in [Client -> LinkState] /\ \A e \in Client : e # d => link'[e] = link[e]
        BY <3>3, <4>1, DisconnectLinks
      <4> QED
        BY <1>0, <2>9, <3>1, <3>3, <4>1, <4>2, UnregisterStep
           DEF DisconnectClient, Disconnect, TablesType
    <3> QED
      BY <2>9, <3>2, <3>3 DEF DisconnectClient
  <2>10. CASE \/ \E q \in asked[c], final \in BOOLEAN : Respond(c, q, final)
              \/ \E p \in Path : SignalFrom(c, p)
    BY <1>0, <2>10, TablesUntouched DEF Respond, SignalFrom, TablesType, RegisteredIsLive
  <2>11. CASE Eof(c) \/ LoopCancelled(c)
    BY <2>11, CancelStep DEF Eof, LoopCancelled, Winding
  <2>12. CASE IdleTimeout(c)
    <3>1. link' \in [Client -> LinkState] /\ \A e \in Client : e # c => link'[e] = link[e]
      BY <2>12, DisconnectLinks DEF IdleTimeout
    <3> QED
      BY <1>0, <2>12, <3>1, UnregisterStep DEF IdleTimeout, Disconnect, TablesType
  <2>13. CASE LoopEnds(c)
    <3>1. link' \in [Client -> LinkState] /\ pending' \in [Client -> Seq(Task)]
      BY <1>0, <2>13 DEF LoopEnds, TablesType, LinkState, Ended
    <3>2. role' = role /\ \A d \in Client : d # c => link'[d] = link[d]
      BY <1>0, <2>13 DEF LoopEnds, TablesType
    <3> QED
      BY <1>0, <2>13, <3>1, <3>2, UnregisterStep DEF LoopEnds, TablesType
  <2>14. CASE \E d \in Client : Resume(c, d)
    BY <1>0, <2>14, TablesUntouched DEF Resume, TablesType, RegisteredIsLive
  <2> QED
    BY <2>1, <2>2, <2>3, <2>4, <2>5, <2>6, <2>7, <2>8, <2>9, <2>10, <2>11, <2>12,
       <2>13, <2>14
<1> QED
  BY <1>1, <1>2

\* The broker's tables, the clients' own IDs and the counter of IDs fit together
\* after every step: the strengthening the theorems below rest on.
THEOREM TablesInvariant == Spec => []TablesInv
BY InitTables, NextTables, PTL DEF Spec

-----------------------------------------------------------------------------
(* What the invariant gives *)

\* Mount points are never nested and never reserved.
THEOREM MountsStayDisjoint == Spec => []MountsDisjoint
BY TablesInvariant, PTL DEF TablesInv

LEMMA InvMeansSubscribersHaveRole == TablesInv => SubscribersHaveRole
<1> SUFFICES ASSUME TablesInv, NEW ri \in RI, NEW i \in subs[ri], clients[i] # NoClient
             PROVE  role[clients[i]] # NoRole
  BY DEF SubscribersHaveRole
<1>1. i \in Id /\ cid[clients[i]] = i
  BY DEF TablesInv, RegistryConsistent, Registered
<1>2. clients[i] \in Client
  BY <1>1 DEF TablesInv, TablesType
<1> QED
  BY <1>1, <1>2 DEF TablesInv, RegisteredIsLive, NoId, Id

\* Two prefixes of one path are prefixes of one another.
LEMMA PrefixesOverlap ==
  ASSUME NEW p \in Seq(Node), NEW m \in Seq(Node), NEW n \in Seq(Node),
         IsPrefix(m, p), IsPrefix(n, p)
  PROVE  Overlaps(m, n)
BY DEF IsPrefix, Overlaps

RouteIsUnique ==
  \A p \in Path : \A m, n \in Mounted(mounts) :
    IsPrefix(m, p) /\ IsPrefix(n, p) => m = n

\* client_on_path may stop at the first match: on no path does a second mount
\* point match, whatever the order of the table.
THEOREM FirstMatchIsTheOnlyOne == Spec => []RouteIsUnique
<1>1. TablesInv => RouteIsUnique
  <2> SUFFICES ASSUME TablesInv, NEW p \in Path,
                      NEW m \in Mounted(mounts), NEW n \in Mounted(mounts),
                      IsPrefix(m, p), IsPrefix(n, p)
               PROVE  m = n
    BY DEF RouteIsUnique
  <2>1. m \in Seq(Node) /\ n \in Seq(Node) /\ p \in Seq(Node)
    BY BrokerAssumption DEF Mounted
  <2> QED
    BY <2>1, PrefixesOverlap DEF TablesInv, MountsDisjoint
<1> QED
  BY <1>1, TablesInvariant, PTL

-----------------------------------------------------------------------------
(* Subscriptions *)

OwnerStep ==
  \A ri \in RI : \A i \in subs[ri] \ subs'[ri] :
    \E c \in Client : cid[c] = i /\ (cid'[c] # i \/ pending'[c] # pending[c])

\* Unregistering a client takes nothing but its own ID out of the subscriptions.
LEMMA UnregisteredUnsubscribes ==
  ASSUME TablesInv, NEW d \in Client, UnregisterClient(d), cid' = [cid EXCEPT ![d] = NoId]
  PROVE  OwnerStep
<1>1. CASE cid[d] = NoId
  BY <1>1 DEF UnregisterClient, tables, OwnerStep
<1>2. CASE cid[d] # NoId
  <2>1. \A ri \in RI : subs[ri] \ subs'[ri] \subseteq {cid[d]}
    BY <1>2 DEF UnregisterClient
  <2>2. cid'[d] = NoId
    BY DEF TablesInv, TablesType
  <2> QED
    BY <1>2, <2>1, <2>2 DEF OwnerStep
<1> QED
  BY <1>1, <1>2

LEMMA NextUnsubscribes == TablesInv /\ [Next]_vars => OwnerStep
<1> SUFFICES ASSUME TablesInv, [Next]_vars PROVE OwnerStep
  OBVIOUS
<1> USE DEF session, tables
<1>1. CASE \A ri \in RI : subs[ri] \subseteq subs'[ri]
  BY <1>1 DEF OwnerStep
<1>2. CASE \E c \in Client : Reset(c) \/ LoopEnds(c) \/ IdleTimeout(c)
  BY <1>2, UnregisteredUnsubscribes DEF Reset, LoopEnds, IdleTimeout, Disconnect
<1>3. CASE \E c \in Client : DisconnectClient(c)
  <2>1. PICK c \in Client : DisconnectClient(c)
    BY <1>3
  <2> DEFINE d == clients[Head(pending[c]).id]
  <2>2. Head(pending[c]).id \in Id
    BY <2>1, ServingPending DEF DisconnectClient, Task
  <2>3. d \in Client \cup {NoClient}
    BY <2>2 DEF TablesInv, TablesType
  <2>4. CASE d # NoClient /\ Disconnect(c, d)
    BY <2>3, <2>4, UnregisteredUnsubscribes DEF Disconnect
  <2> QED
    BY <1>1, <2>1, <2>4 DEF DisconnectClient
<1>4. CASE \E c \in Client : Unsubscribe(c)
  <2>1. PICK c \in Client : Unsubscribe(c)
    BY <1>4
  <2>2. pending'[c] # pending[c]
    <3>1. pending[c] \in Seq(Task) /\ pending[c] # <<>> /\ pending'[c] = Tail(pending[c])
      BY <2>1 DEF Unsubscribe, Serving, TablesInv, TablesType
    <3>2. Len(Tail(pending[c])) # Len(pending[c])
      BY <3>1
    <3> QED
      BY <3>1, <3>2
  <2>3. \A ri \in RI : subs[ri] \ subs'[ri] \subseteq {cid[c]}
    BY <2>1 DEF Unsubscribe, TablesInv, TablesType
  <2> QED
    BY <2>2, <2>3 DEF OwnerStep
<1>5. CASE \E c \in Client : Subscribe(c)
  <2>1. \A ri \in RI : subs[ri] \subseteq subs'[ri]
    BY <1>5 DEF Subscribe, TablesInv, TablesType
  <2> QED
    BY <1>1, <2>1
<1>6. CASE \E c \in Client : \E r \in Role : Login(c, r)
  <2>1. PICK c \in Client, r \in Role : RegisterClient(c, r)
    BY <1>6 DEF Login
  <2>2. \/ subs' = subs
        \/ subs' = [ri \in RI |->
                      IF ri \in RoleSubs(r) THEN subs[ri] \cup {NewId} ELSE subs[ri]]
    BY <2>1 DEF RegisterClient
  <2> QED
    BY <1>1, <2>2
<1>7. CASE UNCHANGED subs
  BY <1>1, <1>7
<1>8. CASE \E c \in Client, modifies \in BOOLEAN, wanted \in Wanted, cids \in PeerCallerIds :
             \/ \E p \in Path : RequestOnPath(c, p, modifies, wanted, cids)
             \/ \E i \in Id, rest \in {<<>>, CurrentClient} :
                  RequestById(c, i, rest, modifies, wanted, cids)
  <2>1. \/ \E c \in Client : Reply(c) \/ Fail(c)
        \/ UNCHANGED <<session, tables, asked>>
    BY <1>8, RequestOutcomes
  <2>2. UNCHANGED subs
    BY <2>1 DEF Reply, Fail, CancelTasks
  <2> QED
    BY <1>7, <2>2
<1>9. CASE \E c \in Client :
             \/ Connect(c) \/ AnswerBeforeLogin(c) \/ LoginMountForbidden(c) \/ ReplySent(c)
             \/ SendIdle(c) \/ Eof(c) \/ LoopCancelled(c) \/ (\E d \in Client : Resume(c, d))
             \/ \E task \in Task, wanted \in Wanted : RequestLocal(c, task, wanted)
             \/ \E q \in asked[c], final \in BOOLEAN : Respond(c, q, final)
             \/ \E p \in Path : SignalFrom(c, p)
  <2>1. UNCHANGED subs
    BY <1>9 DEF Connect, AnswerBeforeLogin, Reply, LoginMountForbidden, Fail, CancelTasks, ReplySent,
            SendIdle, Eof, LoopCancelled, Resume, RequestLocal, Respond, SignalFrom
  <2> QED
    BY <1>7, <2>1
<1>10. CASE Next
  BY <1>2, <1>3, <1>4, <1>5, <1>6, <1>8, <1>9, <1>10 DEF Next
<1> QED
  BY <1>7, <1>10 DEF vars

\* RpcBroker.unsubscribe and unregister_client end the subscriptions of the client
\* that asked or that goes, and nobody else's: however requests, resets,
\* disconnects and ends of loops interleave.
THEOREM OwnersUnsubscribe == Spec => OnlyOwnerUnsubscribes
<1>1. TablesInv /\ [Next]_vars =>
        [\A ri \in RI : \A i \in subs[ri] \ subs'[ri] :
           \E c \in Client :
             /\ cid[c] = i
             /\ cid'[c] # i \/ pending'[c] # pending[c]]_vars
  BY NextUnsubscribes DEF OwnerStep
<1> QED
  BY <1>1, TablesInvariant, PTL DEF Spec, OnlyOwnerUnsubscribes

-----------------------------------------------------------------------------
(* Messages *)

Entry == [session : Id \cup {NoId}, msg : Message]

QueuesType ==
  /\ busy \in [Client -> BOOLEAN]
  /\ waits \in [Client -> SUBSET Client]
  /\ hung \in [Client -> BOOLEAN]
  /\ outbox \in [Client -> Seq(Entry)]
  /\ asked \in [Client -> SUBSET Request]

-----------------------------------------------------------------------------
(* Queues *)

\* What Push leaves in a queue: entries it had, and the new one.
LEMMA PushEntries ==
  ASSUME NEW S, NEW queue \in Seq(S), NEW m \in S
  PROVE  /\ Push(queue, m) \in Seq(S)
         /\ \A k \in DOMAIN Push(queue, m) :
              \/ Push(queue, m)[k] = m
              \/ \E j \in DOMAIN queue : Push(queue, m)[k] = queue[j]
<1>1. CASE Len(queue) < QueueMax
  BY <1>1 DEF Push
<1>2. CASE ~ (Len(queue) < QueueMax)
  <2>1. queue # <<>>
    BY <1>2, BrokerAssumption
  <2>2. Tail(queue) \in Seq(S) /\ Len(Tail(queue)) = Len(queue) - 1
    BY <2>1
  <2>3. \A k \in 1 .. Len(Tail(queue)) : Tail(queue)[k] = queue[k + 1]
    BY <2>1
  <2> QED
    BY <1>2, <2>1, <2>2, <2>3 DEF Push
<1> QED
  BY <1>1, <1>2

\* Sending m changes only the queues of the addressed clients.
LEMMA SentEntries ==
  ASSUME NEW to, NEW m \in Message, TablesType, outbox \in [Client -> Seq(Entry)]
  PROVE  /\ Sent(to, m) \in [Client -> Seq(Entry)]
         /\ \A c \in Client : \A k \in DOMAIN Sent(to, m)[c] :
              \/ c \in to /\ Sent(to, m)[c][k] = [session |-> cid[c], msg |-> m]
              \/ \E j \in DOMAIN outbox[c] : Sent(to, m)[c][k] = outbox[c][j]
<1> SUFFICES ASSUME NEW c \in Client
             PROVE  /\ Sent(to, m)[c] \in Seq(Entry)
                    /\ \A k \in DOMAIN Sent(to, m)[c] :
                         \/ c \in to /\ Sent(to, m)[c][k] = [session |-> cid[c], msg |-> m]
                         \/ \E j \in DOMAIN outbox[c] : Sent(to, m)[c][k] = outbox[c][j]
  BY DEF Sent
<1> DEFINE e == [session |-> cid[c], msg |-> m]
<1>1. e \in Entry
  BY DEF Entry, TablesType
<1>2. outbox[c] \in Seq(Entry)
  OBVIOUS
<1>3. CASE c \in to
  <2>1. Sent(to, m)[c] = Push(outbox[c], e)
    BY <1>3 DEF Sent
  <2> HIDE DEF e
  <2>2. /\ Push(outbox[c], e) \in Seq(Entry)
        /\ \A k \in DOMAIN Push(outbox[c], e) :
             \/ Push(outbox[c], e)[k] = e
             \/ \E j \in DOMAIN outbox[c] : Push(outbox[c], e)[k] = outbox[c][j]
    BY <1>1, <1>2, PushEntries
  <2> QED
    BY <1>3, <2>1, <2>2 DEF e
<1>4. CASE c \notin to
  BY <1>2, <1>4 DEF Sent
<1> QED
  BY <1>3, <1>4

\* The lsmod of a mount point names a node of it.
LEMMA LsmodIsMessage ==
  ASSUME NEW p \in Path, p # <<>>, NEW new \in BOOLEAN, NEW mnts
  PROVE  LsmodMsg(p, new, mnts) \in Lsmod
<1> DEFINE D == {k \in 1 .. Len(p) : \A j \in 1 .. k : Shown(j, p, mnts)}
<1>1. p \in Seq(Node) /\ Len(p) \in Nat \ {0}
  BY BrokerAssumption
<1>2. IsFiniteSet(1 .. Len(p)) /\ Cardinality(1 .. Len(p)) = Len(p)
  BY <1>1, FS_Interval
<1>3. Cardinality(D) \in 0 .. Len(p)
  <2> HIDE DEF D
  <2>1. D \subseteq 1 .. Len(p)
    BY DEF D
  <2>2. IsFiniteSet(D) /\ Cardinality(D) <= Len(p)
    BY <1>2, <2>1, FS_Subset
  <2> QED
    BY <1>1, <2>2, FS_CardinalityType
<1>4. LsmodDepth(p, mnts) \in 0 .. Len(p)
  BY <1>3 DEF LsmodDepth
<1>5. SubSeq(p, 1, LsmodDepth(p, mnts)) \in Seq(Node)
  BY <1>1, <1>4
<1>6. p[IF LsmodDepth(p, mnts) < Len(p) THEN LsmodDepth(p, mnts) + 1 ELSE Len(p)] \in Node
  BY <1>1, <1>4
<1> QED
  BY <1>5, <1>6 DEF LsmodMsg, Lsmod

-----------------------------------------------------------------------------
(* What a step does to the IDs and to the queues *)

IdsKept == UNCHANGED <<nextId, clients, cid>>

IdTakenBack(d) ==
  /\ cid[d] # NoId
  /\ clients' = [clients EXCEPT ![cid[d]] = NoClient]
  /\ cid' = [cid EXCEPT ![d] = NoId]
  /\ nextId' = nextId

IdGiven(c) ==
  /\ cid[c] = NoId
  /\ clients' = [clients EXCEPT ![nextId] = c]
  /\ cid' = cid \/ cid' = [cid EXCEPT ![c] = nextId]
  /\ nextId' = nextId + 1

IdStep == IdsKept \/ \E c \in Client : IdTakenBack(c) \/ IdGiven(c)

QueuesKept == UNCHANGED <<outbox, asked>>

Broadcast == \E to : \E m \in Lsmod \cup Signal : outbox' = Sent(to, m) /\ asked' = asked

RequestOf(c, cids) ==
  [type |-> "request", cids |-> Append(cids, cid[c]),
   asker |-> [client |-> c, id |-> cid[c], cids |-> cids]]

Forward(c, cids) ==
  /\ cid[c] # NoId
  /\ \E to : outbox' = Sent(to, RequestOf(c, cids))
  /\ asked' = asked

Answering(q) ==
  /\ outbox' = outbox
     \/ outbox' = Sent(ResponseTo(q.cids), [type |-> "response", cids |-> Front(q.cids),
                                            asker |-> q.asker])
  /\ \A c \in Client : asked'[c] \subseteq asked[c]
  /\ asked' \in [Client -> SUBSET Request]
  /\ IdsKept

QueueStep ==
  \/ QueuesKept
  \/ Broadcast
  \/ \E c \in Client, cids \in PeerCallerIds : Forward(c, cids) /\ IdsKept
  \/ \E c \in Client : SendIdle(c)
  \/ \E c \in Client : \E q \in asked[c] : Answering(q)

\* Unregistering sends at most an lsmod.
LEMMA UnregisterMoves ==
  ASSUME TablesInv, NEW d \in Client, UnregisterClient(d),
         cid' = [cid EXCEPT ![d] = NoId]
  PROVE  /\ IdStep
         /\ UNCHANGED outbox \/ \E to : \E m \in Lsmod : outbox' = Sent(to, m)
<1>1. CASE cid[d] = NoId
  <2>1. cid' = cid
    BY <1>1 DEF TablesInv, TablesType
  <2> QED
    BY <1>1, <2>1 DEF UnregisterClient, tables, IdStep, IdsKept
<1>2. CASE cid[d] # NoId
  <2>1. IdTakenBack(d)
    BY <1>2 DEF UnregisterClient, IdTakenBack
  <2>2. CASE UNCHANGED outbox
    BY <2>1, <2>2 DEF IdStep
  <2>3. CASE \E p \in MountPoints(cid[d]) :
               LET m == LsmodMsg(p, FALSE, [mounts EXCEPT ![p] = NoId])
               IN outbox' = Sent(Receivers(m.path, "lsmod"), m)
    <3>1. PICK p \in MountPoints(cid[d]) :
                 outbox' = Sent(Receivers(LsmodMsg(p, FALSE, [mounts EXCEPT ![p] = NoId]).path, "lsmod"),
                                LsmodMsg(p, FALSE, [mounts EXCEPT ![p] = NoId]))
      BY <2>3
    <3>2. p \in Path /\ p # <<>>
      BY DEF MountPoints, TablesInv, MountsDisjoint, Mounted
    <3> QED
      BY <2>1, <3>1, <3>2, LsmodIsMessage DEF IdStep
  <2> QED
    BY <1>2, <2>2, <2>3 DEF UnregisterClient
<1> QED
  BY <1>1, <1>2

LEMMA DisconnectMoves ==
  ASSUME TablesInv, NEW c \in Client, NEW d \in Client, Disconnect(c, d), asked' = asked
  PROVE  IdStep /\ QueueStep
<1>1. IdStep /\ (UNCHANGED outbox \/ \E to : \E m \in Lsmod : outbox' = Sent(to, m))
  BY UnregisterMoves DEF Disconnect
<1> QED
  BY <1>1 DEF QueueStep, QueuesKept, Broadcast

LEMMA LoginMoves ==
  ASSUME TablesInv, NEW c \in Client, NEW r \in Role, Login(c, r)
  PROVE  IdStep /\ QueueStep
<1>1. cid[c] = NoId
  BY DEF Login, TablesInv, RegisteredIsLive
<1>2. IdGiven(c)
  BY <1>1 DEF Login, RegisterClient, NewId, IdGiven
<1>3. asked' = asked
  BY DEF Login
<1>4. \/ UNCHANGED outbox
      \/ \E m \in RoleMounts(r) :
           /\ m # <<>>
           /\ outbox' = Sent(Receivers(LsmodMsg(m, TRUE, mounts).path, "lsmod"),
                             LsmodMsg(m, TRUE, mounts))
  BY DEF Login, RegisterClient
<1>5. \A m \in RoleMounts(r) : m # <<>> => LsmodMsg(m, TRUE, mounts) \in Lsmod
  BY BrokerAssumption, LsmodIsMessage
<1> QED
  BY <1>2, <1>3, <1>4, <1>5 DEF IdStep, QueueStep, QueuesKept, Broadcast

LEMMA RequestMoves ==
  ASSUME TablesInv, NEW c \in Client, NEW modifies \in BOOLEAN, NEW wanted \in Wanted,
         NEW cids \in PeerCallerIds,
         \/ \E p \in Path : RequestOnPath(c, p, modifies, wanted, cids)
         \/ \E i \in Id, rest \in {<<>>, CurrentClient} :
              RequestById(c, i, rest, modifies, wanted, cids)
  PROVE  IdStep /\ QueueStep
<1>1. CASE Reply(c) \/ Fail(c)
  BY <1>1 DEF Reply, Fail, CancelTasks, tables, IdStep, IdsKept, QueueStep, QueuesKept
<1>2. CASE /\ cid[c] # NoId
           /\ \E d : outbox' = Sent({d}, RequestOf(c, cids))
           /\ UNCHANGED <<session, tables, asked>>
  BY <1>2 DEF session, tables, IdStep, IdsKept, QueueStep, Forward
<1> QED
  BY <1>1, <1>2, RequestOutcomes DEF RequestOf

LEMMA NextMoves ==
  ASSUME TablesInv, QueuesType, [Next]_vars
  PROVE  IdStep /\ QueueStep
<1> USE DEF session, tables
<1>1. CASE IdsKept /\ QueuesKept
  BY <1>1 DEF IdStep, QueueStep
<1>2. CASE UNCHANGED vars
  BY <1>1, <1>2 DEF vars, IdsKept, QueuesKept
<1>3. CASE \E c \in Client :
            \/ Connect(c) \/ AnswerBeforeLogin(c) \/ LoginMountForbidden(c)
            \/ ReplySent(c) \/ Subscribe(c) \/ Unsubscribe(c) \/ Eof(c) \/ LoopCancelled(c) \/ (\E d \in Client : Resume(c, d))
            \/ \E task \in Task, wanted \in Wanted : RequestLocal(c, task, wanted)
  BY <1>1, <1>3
     DEF Connect, AnswerBeforeLogin, Reply, LoginMountForbidden, Fail, CancelTasks, ReplySent,
         Subscribe, Unsubscribe, Eof, LoopCancelled, Resume, RequestLocal, IdsKept, QueuesKept
<1>4. CASE \E c \in Client, r \in Role : Login(c, r)
  BY <1>4, LoginMoves
<1>5. CASE \E c \in Client : Reset(c) \/ LoopEnds(c)
  BY <1>5, UnregisterMoves DEF Reset, LoopEnds, QueueStep, QueuesKept, Broadcast
<1>6. CASE \E c \in Client : IdleTimeout(c)
  BY <1>6, DisconnectMoves DEF IdleTimeout
<1>7. CASE \E c \in Client : DisconnectClient(c)
  <2>1. PICK c \in Client : DisconnectClient(c)
    BY <1>7
  <2> DEFINE d == clients[Head(pending[c]).id]
  <2>2. Head(pending[c]).id \in Id
    BY <2>1, ServingPending DEF DisconnectClient, Task
  <2>3. CASE d # NoClient /\ Disconnect(c, d)
    <3>1. d \in Client
      BY <2>2, <2>3 DEF TablesInv, TablesType
    <3> QED
      BY <2>1, <2>3, <3>1, DisconnectMoves DEF DisconnectClient
  <2>4. CASE UNCHANGED <<link, cid, outbox, tables>>
    BY <1>1, <2>1, <2>4 DEF DisconnectClient, IdsKept, QueuesKept
  <2> QED
    BY <2>1, <2>3, <2>4 DEF DisconnectClient
<1>8. CASE \E c \in Client, modifies \in BOOLEAN, wanted \in Wanted, cids \in PeerCallerIds :
             \/ \E p \in Path : RequestOnPath(c, p, modifies, wanted, cids)
             \/ \E i \in Id, rest \in {<<>>, CurrentClient} :
                  RequestById(c, i, rest, modifies, wanted, cids)
  BY <1>8, RequestMoves
<1>9. CASE \E c \in Client : SendIdle(c)
  BY <1>9 DEF SendIdle, IdStep, IdsKept, QueueStep
<1>10. CASE \E c \in Client, q \in UNION {asked[d] : d \in Client}, final \in BOOLEAN :
              q \in asked[c] /\ Respond(c, q, final)
  <2>1. PICK c \in Client, q \in UNION {asked[d] : d \in Client}, final \in BOOLEAN :
               q \in asked[c] /\ Respond(c, q, final)
    BY <1>10
  <2>2. /\ \A d \in Client : asked'[d] \subseteq asked[d]
        /\ asked' \in [Client -> SUBSET Request]
    BY <2>1 DEF Respond, QueuesType
  <2>3. Answering(q) /\ IdsKept
    BY <2>1, <2>2 DEF Respond, Answering, IdsKept
  <2> QED
    BY <2>1, <2>3 DEF IdStep, QueueStep
<1>11. CASE \E c \in Client, p \in Path : SignalFrom(c, p)
  <2>1. PICK c \in Client, p \in Path : SignalFrom(c, p)
    BY <1>11
  <2>2. PICK m \in MountPoints(cid[c]) :
          outbox' = Sent(Receivers(m \o p, "chng"), [type |-> "signal", path |-> m \o p])
    BY <2>1 DEF SignalFrom
  <2>3. [type |-> "signal", path |-> m \o p] \in Signal
    BY BrokerAssumption DEF MountPoints, Signal
  <2> QED
    BY <2>1, <2>2, <2>3 DEF SignalFrom, IdStep, IdsKept, QueueStep, Broadcast
<1>12. CASE Next
  BY <1>3, <1>4, <1>5, <1>6, <1>7, <1>8, <1>9, <1>10, <1>11, <1>12 DEF Next
<1> QED
  BY <1>2, <1>12

-----------------------------------------------------------------------------
(* Types *)

LEMMA RequestIsMessage ==
  ASSUME TablesInv, NEW c \in Client, NEW cids \in PeerCallerIds, cid[c] # NoId
  PROVE  RequestOf(c, cids) \in Request
<1>1. cid[c] \in Id /\ cid[c] \in Nat /\ cids \in Seq(Nat)
  BY BrokerAssumption DEF TablesInv, TablesType, Id
<1>2. Append(cids, cid[c]) \in Seq(Nat)
  BY <1>1
<1> QED
  BY <1>1, <1>2 DEF RequestOf, Request, Asker

LEMMA AnswerIsMessage ==
  ASSUME NEW q \in Request
  PROVE  [type |-> "response", cids |-> Front(q.cids), asker |-> q.asker] \in Response
<1>1. q.cids \in Seq(Nat) /\ q.asker \in Asker
  BY DEF Request
<1>2. Front(q.cids) \in Seq(Nat)
  BY <1>1 DEF Front
<1> QED
  BY <1>1, <1>2 DEF Response

TasksType ==
  /\ busy \in [Client -> BOOLEAN]
  /\ waits \in [Client -> SUBSET Client]
  /\ hung \in [Client -> BOOLEAN]

LEMMA DisconnectTasks ==
  ASSUME TasksType, NEW c \in Client, NEW d \in Client, Disconnect(c, d), busy' = busy
  PROVE  TasksType'
<1>1. CASE UNCHANGED tasks
  BY <1>1 DEF TasksType, tasks
<1>2. CASE UNCHANGED hung /\ waits' = [waits EXCEPT ![c] = @ \cup {d}]
  BY <1>2 DEF TasksType
<1>3. CASE /\ waits' = [waits EXCEPT ![c] = @ \cup {d}]
            /\ hung' = [e \in Client |-> hung[e] /\ e \notin Awaited(d) \cup {d}]
  BY <1>3 DEF TasksType
<1> QED
  BY <1>1, <1>2, <1>3 DEF Disconnect

LEMMA CancelledTasks ==
  ASSUME TasksType, NEW c \in Client, NEW how, CancelTasks(c, how)
  PROVE  TasksType'
BY DEF CancelTasks, TasksType

LEMMA NextTasksType ==
  ASSUME TablesInv, TasksType, [Next]_vars
  PROVE  TasksType'
<1> USE DEF session, tables
<1>1. CASE UNCHANGED <<busy, waits, hung>>
  BY <1>1 DEF TasksType
<1>2. CASE (\E c \in Client, b \in BOOLEAN : busy' = [busy EXCEPT ![c] = b]) /\ UNCHANGED <<waits, hung>>
  BY <1>2 DEF TasksType
<1>3. CASE \E c \in Client : Fail(c) \/ Eof(c) \/ LoopCancelled(c) \/ LoginMountForbidden(c)
  BY <1>3, CancelledTasks DEF Fail, Eof, LoopCancelled, LoginMountForbidden
<1>4. CASE \E c \in Client : IdleTimeout(c)
  BY <1>4, DisconnectTasks DEF IdleTimeout
<1>5. CASE \E c \in Client : DisconnectClient(c)
  <2>1. PICK c \in Client : DisconnectClient(c)
    BY <1>5
  <2> DEFINE d == clients[Head(pending[c]).id]
  <2>2. Head(pending[c]).id \in Id
    BY <2>1, ServingPending DEF DisconnectClient, Task
  <2>3. d \in Client \cup {NoClient}
    BY <2>2 DEF TablesInv, TablesType
  <2>4. CASE d # NoClient /\ Disconnect(c, d)
    BY <2>1, <2>3, <2>4, DisconnectTasks DEF DisconnectClient
  <2> QED
    BY <1>1, <2>1, <2>4 DEF DisconnectClient, tasks
<1>6. CASE \E c \in Client, d \in Client : Resume(c, d)
  BY <1>6 DEF Resume, TasksType
<1>7. CASE \E c \in Client :
            \/ Connect(c) \/ Reset(c) \/ SendIdle(c) \/ Subscribe(c) \/ Unsubscribe(c) \/ LoopEnds(c)
            \/ \E task \in Task, wanted \in Wanted : RequestLocal(c, task, wanted)
            \/ \E q \in asked[c], final \in BOOLEAN : Respond(c, q, final)
            \/ \E p \in Path : SignalFrom(c, p)
  <2>1. UNCHANGED <<busy, waits, hung>>
    BY <1>7 DEF Connect, Reset, SendIdle, Subscribe, Unsubscribe, LoopEnds, RequestLocal,
                Respond, SignalFrom, tasks
  <2> QED
    BY <1>1, <2>1
<1>8. CASE \E c \in Client : Reply(c) \/ ReplySent(c) \/ \E r \in Role : Login(c, r)
  <2>1. (\E c \in Client, b \in BOOLEAN : busy' = [busy EXCEPT ![c] = b]) /\ UNCHANGED <<waits, hung>>
    BY <1>8 DEF Reply, ReplySent, Login, tasks
  <2> QED
    BY <1>2, <2>1
<1>9. CASE \E c \in Client, modifies \in BOOLEAN, wanted \in Wanted, cids \in PeerCallerIds :
             \/ \E p \in Path : RequestOnPath(c, p, modifies, wanted, cids)
             \/ \E i \in Id, rest \in {<<>>, CurrentClient} :
                  RequestById(c, i, rest, modifies, wanted, cids)
  <2>1. \/ \E c \in Client : Reply(c) \/ Fail(c)
        \/ UNCHANGED <<session, tables, asked>>
    BY <1>9, RequestOutcomes
  <2> QED
    BY <1>1, <1>3, <1>8, <2>1
<1>10. CASE \E c \in Client : AnswerBeforeLogin(c)
  BY <1>8, <1>10 DEF AnswerBeforeLogin
<1>11. CASE Next
  BY <1>3, <1>4, <1>5, <1>6, <1>7, <1>8, <1>9, <1>10, <1>11 DEF Next
<1> QED
  BY <1>1, <1>11 DEF vars

LEMMA NextQueuesType ==
  ASSUME TablesInv, QueuesType, [Next]_vars
  PROVE  QueuesType'
<1>1. TasksType'
  BY NextTasksType DEF QueuesType, TasksType
<1>2. \A to : \A m \in Message : Sent(to, m) \in [Client -> Seq(Entry)]
  BY SentEntries DEF TablesInv, QueuesType
<1>3. cid' \in [Client -> Id \cup {NoId}]
  BY NextTables DEF TablesInv, TablesType
<1>4. CASE QueuesKept
  BY <1>1, <1>4 DEF QueuesKept, QueuesType, TasksType
<1>5. CASE Broadcast
  BY <1>1, <1>2, <1>5 DEF Broadcast, QueuesType, TasksType, Message
<1>6. CASE \E c \in Client, cids \in PeerCallerIds : Forward(c, cids) /\ IdsKept
  BY <1>1, <1>2, <1>6, RequestIsMessage DEF Forward, QueuesType, TasksType, Message
<1>7. CASE \E c \in Client : SendIdle(c)
  <2>1. PICK c \in Client : SendIdle(c)
    BY <1>7
  <2>2. Head(outbox[c]) \in Entry /\ Tail(outbox[c]) \in Seq(Entry)
    BY <2>1 DEF SendIdle, QueuesType
  <2>3. Head(outbox[c]).msg.type = "request" => Head(outbox[c]).msg \in Request
    BY <2>2 DEF Entry, Message, Response, Lsmod, Signal
  <2> QED
    BY <1>1, <2>1, <2>2, <2>3 DEF SendIdle, QueuesType, TasksType
<1>8. CASE \E c \in Client : \E q \in asked[c] : Answering(q)
  <2>1. PICK c \in Client : \E q \in asked[c] : Answering(q)
    BY <1>8
  <2>2. PICK q \in asked[c] : Answering(q)
    BY <2>1
  <2>3. q \in Request
    BY <2>1 DEF QueuesType
  <2>4. [type |-> "response", cids |-> Front(q.cids), asker |-> q.asker] \in Message
    BY <2>3, AnswerIsMessage DEF Message
  <2> QED
    BY <1>1, <1>2, <2>2, <2>4 DEF Answering, QueuesType, TasksType
<1> QED
  BY <1>4, <1>5, <1>6, <1>7, <1>8, NextMoves DEF QueueStep

LEMMA InitQueuesType == Init => QueuesType
BY DEF Init, QueuesType

\* Every variable keeps its type.
THEOREM TypeCorrect == Spec => []TypeOK
<1>1. Init => TablesInv /\ QueuesType
  BY InitTables, InitQueuesType
<1>2. TablesInv /\ QueuesType /\ [Next]_vars => (TablesInv /\ QueuesType)'
  BY NextTables, NextQueuesType
<1>3. TablesInv /\ QueuesType => TypeOK
  BY DEF TablesInv, TablesType, QueuesType, TypeOK, Entry
<1> QED
  BY <1>1, <1>2, <1>3, PTL DEF Spec

-----------------------------------------------------------------------------
(* Who is awaited *)

Leaving == {"cancelled"} \cup Winding \cup Ended

\* A client some task disconnects is unregistered, and its loop does not come back.
AwaitedIsLeaving ==
  \A c \in Client : \A d \in waits[c] : cid[d] = NoId /\ link[d] \in Leaving

\* Who leaves goes on leaving, and registers no more.
LeavesOn ==
  \A d \in Client :
    link[d] \in Leaving => link'[d] \in Leaving /\ (cid[d] = NoId => cid'[d] = NoId)

AwaitedInv == TablesInv /\ QueuesType /\ AwaitedIsLeaving

LEMMA AwaitedKept ==
  ASSUME AwaitedInv, LeavesOn, \A c \in Client : waits'[c] \subseteq waits[c]
  PROVE  AwaitedIsLeaving'
BY DEF AwaitedInv, AwaitedIsLeaving, LeavesOn, QueuesType

LEMMA UnregisteredLeaves ==
  ASSUME TablesInv, NEW d \in Client, cid' = [cid EXCEPT ![d] = NoId],
         \A e \in Client : link[e] \in Leaving => link'[e] \in Leaving
  PROVE  LeavesOn
BY DEF TablesInv, TablesType, LeavesOn

LEMMA CancelLeaves ==
  ASSUME AwaitedInv, NEW c \in Client, NEW how \in Winding, CancelTasks(c, how)
  PROVE  AwaitedIsLeaving'
<1>1. \A d \in Client : link[d] \in Leaving => link'[d] \in Leaving
  BY DEF CancelTasks, AwaitedInv, TablesInv, TablesType, Leaving, Winding
<1>2. LeavesOn
  BY <1>1 DEF CancelTasks, LeavesOn
<1>3. \A d \in Client : waits'[d] \subseteq waits[d]
  BY DEF CancelTasks, AwaitedInv, QueuesType
<1> QED
  BY <1>2, <1>3, AwaitedKept

LEMMA DisconnectLeaves ==
  ASSUME AwaitedInv, NEW c \in Client, NEW d \in Client, Disconnect(c, d)
  PROVE  AwaitedIsLeaving'
<1> USE DEF AwaitedInv, TablesInv, TablesType
<1>1. \A e \in Client : link[e] \in Leaving => link'[e] \in Leaving
  BY DEF Disconnect, Leaving, Winding, Ended
<1>2. LeavesOn
  BY <1>1, UnregisteredLeaves DEF Disconnect
<1>3. CASE waits' = waits
  BY <1>2, <1>3, AwaitedKept
<1>4. CASE waits' = [waits EXCEPT ![c] = @ \cup {d}] /\ link'[d] \in {"cancelled", "closing"}
  <2>1. cid'[d] = NoId /\ link'[d] \in Leaving
    BY <1>4 DEF Disconnect, Leaving, Winding
  <2>2. \A e \in Client : \A x \in waits'[e] : x \in waits[e] \/ x = d
    BY <1>4 DEF QueuesType
  <2> QED
    BY <1>2, <2>1, <2>2 DEF AwaitedIsLeaving, LeavesOn, QueuesType
<1> QED
  BY <1>3, <1>4 DEF Disconnect, tasks

LEMMA NextAwaited ==
  ASSUME AwaitedInv, [Next]_vars
  PROVE  AwaitedIsLeaving'
<1> USE DEF session, tables
<1>0. TablesInv /\ QueuesType /\ TablesType /\ waits \in [Client -> SUBSET Client]
  BY DEF AwaitedInv, TablesInv, QueuesType
<1>1. CASE UNCHANGED <<link, cid, waits>>
  BY <1>1 DEF AwaitedInv, AwaitedIsLeaving
<1>2. CASE \E c \in Client : Fail(c) \/ Eof(c) \/ LoopCancelled(c) \/ LoginMountForbidden(c)
  BY <1>2, CancelLeaves DEF Fail, Eof, LoopCancelled, LoginMountForbidden, Winding
<1>3. CASE \E c \in Client : IdleTimeout(c)
  BY <1>3, DisconnectLeaves DEF IdleTimeout
<1>4. CASE \E c \in Client : DisconnectClient(c)
  <2>1. PICK c \in Client : DisconnectClient(c)
    BY <1>4
  <2> DEFINE d == clients[Head(pending[c]).id]
  <2>2. Head(pending[c]).id \in Id
    BY <1>0, <2>1, ServingPending DEF DisconnectClient, Task
  <2>3. d \in Client \cup {NoClient}
    BY <1>0, <2>2 DEF TablesType
  <2>4. CASE d # NoClient /\ Disconnect(c, d)
    BY <2>3, <2>4, DisconnectLeaves
  <2> QED
    BY <1>1, <2>1, <2>4 DEF DisconnectClient, tasks
<1>5. CASE \E c \in Client, d \in Client : Resume(c, d)
  BY <1>0, <1>5, AwaitedKept DEF Resume, LeavesOn
<1>6. CASE \E c \in Client : Connect(c)
  BY <1>0, <1>6, AwaitedKept DEF Connect, LeavesOn, Leaving, Winding, Ended, tasks
<1>7. CASE \E c \in Client : Reset(c)
  BY <1>0, <1>7, UnregisteredLeaves, AwaitedKept DEF Reset, tasks
<1>8. CASE \E c \in Client : LoopEnds(c)
  <2>1. PICK c \in Client : LoopEnds(c)
    BY <1>8
  <2>2. \A e \in Client : link[e] \in Leaving => link'[e] \in Leaving
    BY <1>0, <2>1 DEF LoopEnds, TablesType, Leaving, Ended
  <2> QED
    BY <1>0, <2>1, <2>2, UnregisteredLeaves, AwaitedKept DEF LoopEnds, tasks
<1>9. CASE \E c \in Client, r \in Role : Login(c, r)
  <2>1. PICK c \in Client, r \in Role : Login(c, r)
    BY <1>9
  <2>2. link[c] = "up" /\ link' = link /\ waits' = waits
    BY <2>1 DEF Login, Ready, tasks
  <2>3. \A d \in Client : d # c => cid'[d] = cid[d]
    BY <1>0, <2>1 DEF Login, RegisterClient, TablesType
  <2>4. LeavesOn
    BY <2>2, <2>3 DEF LeavesOn, Leaving, Winding, Ended
  <2> QED
    BY <2>2, <2>4, AwaitedKept
<1>10. CASE \E c \in Client :
            \/ Reply(c) \/ ReplySent(c) \/ SendIdle(c) \/ Subscribe(c) \/ Unsubscribe(c)
            \/ \E task \in Task, wanted \in Wanted : RequestLocal(c, task, wanted)
            \/ \E q \in asked[c], final \in BOOLEAN : Respond(c, q, final)
            \/ \E p \in Path : SignalFrom(c, p)
  <2>1. UNCHANGED <<link, cid, waits>>
    BY <1>10 DEF Reply, ReplySent, SendIdle, Subscribe, Unsubscribe, RequestLocal,
                Respond, SignalFrom, tasks
  <2> QED
    BY <1>1, <2>1
<1>11. CASE \E c \in Client, modifies \in BOOLEAN, wanted \in Wanted, cids \in PeerCallerIds :
             \/ \E p \in Path : RequestOnPath(c, p, modifies, wanted, cids)
             \/ \E i \in Id, rest \in {<<>>, CurrentClient} :
                  RequestById(c, i, rest, modifies, wanted, cids)
  <2>1. \/ \E c \in Client : Reply(c) \/ Fail(c)
        \/ UNCHANGED <<session, tables, asked>>
    BY <1>11, RequestOutcomes
  <2> QED
    BY <1>1, <1>2, <1>10, <2>1
<1>12. CASE \E c \in Client : AnswerBeforeLogin(c)
  BY <1>10, <1>12 DEF AnswerBeforeLogin
<1>13. CASE Next
  BY <1>2, <1>3, <1>4, <1>5, <1>6, <1>7, <1>8, <1>9, <1>10, <1>11, <1>12, <1>13 DEF Next
<1> QED
  BY <1>1, <1>13 DEF vars

\* In every reachable state the tables agree, the assert and the lookup in
\* RpcBroker.signal hold, and a client whose loop has ended, in whatever way,
\* or is awaited by whoever disconnects it, holds no registration.
THEOREM TablesStayTrue == Spec => []TablesAreTrue
<1>1. Init => AwaitedInv
  BY InitTables, InitQueuesType DEF AwaitedInv, AwaitedIsLeaving, Init
<1>2. AwaitedInv /\ [Next]_vars => AwaitedInv'
  BY NextTables, NextQueuesType, NextAwaited DEF AwaitedInv
<1>3. AwaitedInv => TablesAreTrue
  <2>1. TablesInv => RegistryConsistent /\ GoneHoldsNothing
    BY DEF TablesInv, RegisteredIsLive, GoneHoldsNothing, Ended, Winding
  <2>2. AwaitedIsLeaving => AwaitedHoldsNothing
    BY DEF AwaitedIsLeaving, AwaitedHoldsNothing
  <2> QED
    BY <2>1, <2>2, InvMeansSubscribersHaveRole DEF AwaitedInv, TablesAreTrue
<1> QED
  BY <1>1, <1>2, <1>3, PTL DEF Spec

-----------------------------------------------------------------------------
(* Where a response goes *)

\* The ID a request was made with belongs to the asker or, once the asker is
\* gone, to no one; as long as it is in the table it is the asker's present ID.
AskerTraceable(a) ==
  /\ a.id < nextId
  /\ clients[a.id] \in {a.client, NoClient}
  /\ clients[a.id] = a.client => cid[a.client] = a.id

RequestTraceable(m) ==
  m.cids = Append(m.asker.cids, m.asker.id) /\ AskerTraceable(m.asker)

RequestsTraceable ==
  /\ \A c \in Client : \A m \in asked[c] : RequestTraceable(m)
  /\ \A c \in Client : \A k \in DOMAIN outbox[c] :
       outbox[c][k].msg.type = "request" => RequestTraceable(outbox[c][k].msg)

RoutingInv ==
  /\ TablesInv
  /\ QueuesType
  /\ RequestsTraceable
  /\ ResponseReachesAsker

LEMMA AskersStayTraceable ==
  ASSUME TablesInv, IdStep, NEW a \in Asker, AskerTraceable(a)
  PROVE  AskerTraceable(a)'
<1> USE DEF NoId, Id
<1>1. a.client \in Client /\ a.id \in Id
  BY DEF Asker
<1>2. CASE IdsKept
  BY <1>2 DEF IdsKept, AskerTraceable
<1>3. CASE \E c \in Client : IdTakenBack(c)
  BY <1>1, <1>3, BrokerAssumption DEF IdTakenBack, AskerTraceable, TablesInv, TablesType
<1>4. CASE \E c \in Client : IdGiven(c)
  BY <1>1, <1>4, BrokerAssumption DEF IdGiven, AskerTraceable, TablesInv, TablesType
<1> QED
  BY <1>2, <1>3, <1>4 DEF IdStep

LEMMA RequestsStayTraceable ==
  ASSUME TablesInv, IdStep, NEW m \in Request, RequestTraceable(m)
  PROVE  RequestTraceable(m)'
<1>1. m.asker \in Asker
  BY DEF Request
<1>2. AskerTraceable(m.asker)
  BY DEF RequestTraceable
<1>3. AskerTraceable(m.asker)'
  BY <1>1, <1>2, AskersStayTraceable
<1> QED
  BY <1>3 DEF RequestTraceable

LEMMA NewRequestTraceable ==
  ASSUME TablesInv, NEW c \in Client, NEW cids \in PeerCallerIds, cid[c] # NoId
  PROVE  RequestTraceable(RequestOf(c, cids))
<1>1. cid[c] \in Id /\ clients[cid[c]] = c
  BY DEF TablesInv, TablesType, RegistryConsistent
<1>2. cid[c] < nextId
  BY <1>1, BrokerAssumption DEF TablesInv, TablesType, FreshIds, Id
<1> QED
  BY <1>1, <1>2 DEF RequestTraceable, AskerTraceable, RequestOf

\* The response a peer's answer puts into a queue is the asker's, because the
\* ID it is looked up with still is.
LEMMA AnswerReachesAsker ==
  ASSUME TablesInv, NEW q \in Request, RequestTraceable(q),
         NEW c \in ResponseTo(q.cids)
  PROVE  q.asker.client = c /\ q.asker.id = cid[c] /\ Front(q.cids) = q.asker.cids
<1>1. q.cids = Append(q.asker.cids, q.asker.id) /\ AskerTraceable(q.asker)
  BY DEF RequestTraceable
<1>2. q.asker.cids \in Seq(Nat) /\ q.asker.id \in Id
  BY BrokerAssumption DEF Request, Asker
<1>3. Last(q.cids) = q.asker.id
  BY <1>1, <1>2 DEF Last
<1>4. Front(q.cids) = q.asker.cids
  BY <1>1, <1>2 DEF Front
<1>5. clients[q.asker.id] = c /\ c # NoClient
  BY <1>3, BrokerAssumption DEF ResponseTo
<1> QED
  BY <1>1, <1>4, <1>5 DEF AskerTraceable

\* How the entries of the queues after a step relate to those before it.
LEMMA EntriesAfter ==
  ASSUME TablesInv, QueuesType, NEW to, NEW m \in Message, outbox' = Sent(to, m),
         NEW c \in Client, NEW k \in DOMAIN outbox'[c]
  PROVE  \/ c \in to /\ outbox'[c][k].session = cid[c] /\ outbox'[c][k].msg = m
         \/ \E j \in DOMAIN outbox[c] : outbox'[c][k] = outbox[c][j]
<1>1. outbox \in [Client -> Seq(Entry)] /\ TablesType
  BY DEF TablesInv, QueuesType
<1>2. \/ c \in to /\ Sent(to, m)[c][k] = [session |-> cid[c], msg |-> m]
      \/ \E j \in DOMAIN outbox[c] : Sent(to, m)[c][k] = outbox[c][j]
  BY <1>1, SentEntries
<1> QED
  BY <1>2

EntryOK(c, e) ==
  /\ e.msg.type = "request" => RequestTraceable(e.msg)
  /\ e.msg.type = "response" => /\ e.msg.asker.client = c
                                /\ e.msg.asker.id = e.session
                                /\ e.msg.cids = e.msg.asker.cids

\* An entry that stays in a queue stays right.
LEMMA EntriesStayOK ==
  ASSUME TablesInv, IdStep, NEW c \in Client, NEW e \in Entry, EntryOK(c, e)
  PROVE  EntryOK(c, e)'
<1>1. e.msg.type = "request" => e.msg \in Request
  BY DEF Entry, Message, Response, Lsmod, Signal
<1>2. e.msg.type = "request" => RequestTraceable(e.msg)'
  BY <1>1, RequestsStayTraceable DEF EntryOK
<1> QED
  BY <1>2 DEF EntryOK

\* A step keeps the requests traceable and the responses on their way to the
\* asker, given that the entries it adds are right.
LEMMA RoutingKept ==
  ASSUME RoutingInv, TablesInv', QueuesType', IdStep,
         \A c \in Client : \A m \in asked'[c] : m \in asked[c] \/ RequestTraceable(m)',
         \A c \in Client : \A k \in DOMAIN outbox'[c] :
            \/ \E j \in DOMAIN outbox[c] : outbox'[c][k] = outbox[c][j]
            \/ \E e \in Entry : e = outbox'[c][k] /\ EntryOK(c, e)'
  PROVE  RoutingInv'
<1> USE DEF RoutingInv
<1>1. ASSUME NEW c \in Client, NEW m \in asked'[c] PROVE RequestTraceable(m)'
  BY RequestsStayTraceable DEF QueuesType, RequestsTraceable
<1>2. ASSUME NEW c \in Client, NEW k \in DOMAIN outbox'[c]
      PROVE  \E e \in Entry : e = outbox'[c][k] /\ EntryOK(c, e)'
  <2>1. CASE \E j \in DOMAIN outbox[c] : outbox'[c][k] = outbox[c][j]
    <3>1. PICK j \in DOMAIN outbox[c] : outbox'[c][k] = outbox[c][j]
      BY <2>1
    <3>2. outbox[c][j] \in Entry /\ EntryOK(c, outbox[c][j])
      BY DEF QueuesType, EntryOK, RequestsTraceable, ResponseReachesAsker
    <3>3. \A e \in Entry : EntryOK(c, e) => EntryOK(c, e)'
      BY EntriesStayOK
    <3>4. PICK e \in Entry : e = outbox[c][j]
      BY <3>2
    <3> QED
      BY <3>1, <3>2, <3>3, <3>4
  <2> QED
    BY <2>1
<1>3. RequestsTraceable'
  BY <1>1, <1>2 DEF RequestsTraceable, EntryOK
<1>4. ResponseReachesAsker'
  BY <1>2 DEF ResponseReachesAsker, EntryOK
<1> QED
  BY <1>3, <1>4

LEMMA NextRouting ==
  ASSUME RoutingInv, [Next]_vars
  PROVE  RoutingInv'
<1> USE DEF RoutingInv
<1>1. TablesInv' /\ QueuesType' /\ IdStep /\ QueueStep
  BY NextTables, NextQueuesType, NextMoves
<1>2. CASE QueuesKept
  <2>1. outbox' = outbox /\ asked' = asked
    BY <1>2 DEF QueuesKept
  <2> QED
    BY <1>1, <2>1, RoutingKept
<1>3. CASE Broadcast
  <2>1. PICK to : \E m \in Lsmod \cup Signal : outbox' = Sent(to, m) /\ asked' = asked
    BY <1>3 DEF Broadcast
  <2>2. PICK m \in Lsmod \cup Signal : outbox' = Sent(to, m) /\ asked' = asked
    BY <2>1
  <2>3. m \in Message /\ m.type \notin {"request", "response"}
    BY DEF Message, Lsmod, Signal
  <2>4. ASSUME NEW c \in Client, NEW k \in DOMAIN outbox'[c]
        PROVE  \/ \E j \in DOMAIN outbox[c] : outbox'[c][k] = outbox[c][j]
               \/ \E e \in Entry : e = outbox'[c][k] /\ EntryOK(c, e)'
    BY <1>1, <2>2, <2>3, EntriesAfter DEF EntryOK, QueuesType
  <2> QED
    BY <1>1, <2>2, <2>4, RoutingKept
<1>4. CASE \E c \in Client, cids \in PeerCallerIds : Forward(c, cids) /\ IdsKept
  <2>1. PICK a \in Client, cids \in PeerCallerIds : Forward(a, cids) /\ IdsKept
    BY <1>4
  <2>2. RequestOf(a, cids) \in Request /\ RequestTraceable(RequestOf(a, cids))
    BY <2>1, RequestIsMessage, NewRequestTraceable DEF Forward
  <2>3. PICK m \in Request : m = RequestOf(a, cids)
    BY <2>2
  <2>4. RequestTraceable(m)' /\ m \in Message /\ m.type = "request"
    BY <1>1, <2>2, <2>3, RequestsStayTraceable DEF Message, Request
  <2>5. PICK to : outbox' = Sent(to, m)
    BY <2>1, <2>3 DEF Forward
  <2>6. ASSUME NEW c \in Client, NEW k \in DOMAIN outbox'[c]
        PROVE  \/ \E j \in DOMAIN outbox[c] : outbox'[c][k] = outbox[c][j]
               \/ \E e \in Entry : e = outbox'[c][k] /\ EntryOK(c, e)'
    <3>1. CASE \E j \in DOMAIN outbox[c] : outbox'[c][k] = outbox[c][j]
      BY <3>1
    <3>2. CASE outbox'[c][k].msg = m
      <4>1. PICK e \in Entry : e = outbox'[c][k]
        BY <1>1 DEF QueuesType
      <4>2. EntryOK(c, e)'
        BY <2>4, <3>2, <4>1 DEF EntryOK
      <4> QED
        BY <4>1, <4>2
    <3> QED
      BY <2>4, <2>5, <3>1, <3>2, EntriesAfter
  <2> QED
    BY <1>1, <2>1, <2>6, RoutingKept DEF Forward
<1>5. CASE \E c \in Client : SendIdle(c)
  <2>1. PICK a \in Client : SendIdle(a)
    BY <1>5
  <2>2. outbox[a] \in Seq(Entry) /\ outbox[a] # <<>>
    BY <2>1 DEF SendIdle, QueuesType
  <2>3. ASSUME NEW c \in Client, NEW k \in DOMAIN outbox'[c]
        PROVE  \E j \in DOMAIN outbox[c] : outbox'[c][k] = outbox[c][j]
    <3>1. CASE c = a
      <4>1. outbox'[c] = Tail(outbox[c])
        BY <2>1, <3>1 DEF SendIdle, QueuesType
      <4>2. k + 1 \in DOMAIN outbox[c] /\ outbox'[c][k] = outbox[c][k + 1]
        BY <2>2, <3>1, <4>1
      <4> QED
        BY <4>2
    <3>2. CASE c # a
      BY <2>1, <3>2 DEF SendIdle, QueuesType
    <3> QED
      BY <3>1, <3>2
  <2>4. Head(outbox[a]) \in Entry /\ Head(outbox[a]) = outbox[a][1] /\ 1 \in DOMAIN outbox[a]
    BY <2>2
  <2>5. PICK m : m = Head(outbox[a]).msg
    OBVIOUS
  <2>6. m.type = "request" => m \in Request /\ RequestTraceable(m)
    BY <2>4, <2>5 DEF RequestsTraceable, Entry, Message, Response, Lsmod, Signal
  <2>7. \A n \in Request : RequestTraceable(n) => RequestTraceable(n)'
    BY <1>1, RequestsStayTraceable
  <2>8. m.type = "request" => RequestTraceable(m)'
    BY <2>6, <2>7
  <2>9. \A c \in Client : \A n \in asked'[c] : n \in asked[c] \/ (n = m /\ m.type = "request")
    BY <2>1, <2>5 DEF SendIdle, QueuesType
  <2>10. \A c \in Client : \A n \in asked'[c] : n \in asked[c] \/ RequestTraceable(n)'
    BY <2>8, <2>9
  <2> QED
    BY <1>1, <2>3, <2>10, RoutingKept
<1>6. CASE \E c \in Client : \E q \in asked[c] : Answering(q)
  <2>1. PICK a \in Client : \E q \in asked[a] : Answering(q)
    BY <1>6
  <2>2. PICK q \in asked[a] : Answering(q)
    BY <2>1
  <2>3. q \in Request /\ RequestTraceable(q)
    BY <2>1 DEF QueuesType, RequestsTraceable
  <2>4. CASE outbox' = outbox
    BY <1>1, <2>2, <2>4, RoutingKept DEF Answering
  <2>5. CASE outbox' = Sent(ResponseTo(q.cids), [type |-> "response", cids |-> Front(q.cids),
                                                  asker |-> q.asker])
    <3>1. [type |-> "response", cids |-> Front(q.cids), asker |-> q.asker] \in Response
      BY <2>3, AnswerIsMessage
    <3>2. PICK m \in Response :
             m = [type |-> "response", cids |-> Front(q.cids), asker |-> q.asker]
      BY <3>1
    <3>3. m.type = "response" /\ m.asker = q.asker /\ m.cids = Front(q.cids) /\ m \in Message
      BY <3>2 DEF Message
    <3>4. ASSUME NEW c \in Client, NEW k \in DOMAIN outbox'[c]
          PROVE  \/ \E j \in DOMAIN outbox[c] : outbox'[c][k] = outbox[c][j]
                 \/ \E e \in Entry : e = outbox'[c][k] /\ EntryOK(c, e)'
      <4>1. CASE \E j \in DOMAIN outbox[c] : outbox'[c][k] = outbox[c][j]
        BY <4>1
      <4>2. CASE /\ c \in ResponseTo(q.cids)
                 /\ outbox'[c][k].session = cid[c] /\ outbox'[c][k].msg = m
        <5>1. q.asker.client = c /\ q.asker.id = cid[c] /\ Front(q.cids) = q.asker.cids
          BY <2>3, <4>2, AnswerReachesAsker
        <5>2. PICK e \in Entry : e = outbox'[c][k]
          BY <1>1 DEF QueuesType
        <5>3. EntryOK(c, e)'
          BY <3>3, <4>2, <5>1, <5>2 DEF EntryOK
        <5> QED
          BY <5>2, <5>3
      <4> QED
        BY <2>5, <3>2, <3>3, <4>1, <4>2, EntriesAfter
    <3> QED
      BY <1>1, <2>2, <3>4, RoutingKept DEF Answering
  <2> QED
    BY <2>2, <2>4, <2>5 DEF Answering
<1> QED
  BY <1>1, <1>2, <1>3, <1>4, <1>5, <1>6 DEF QueueStep

\* Every response the broker ever queues is for the client that asked, in the
\* registration it asked in, with the caller IDs it came with.
THEOREM ResponsesReachTheirAsker == Spec => []ResponseReachesAsker
<1>1. Init => RoutingInv
  BY InitTables, InitQueuesType
     DEF Init, RoutingInv, RequestsTraceable, ResponseReachesAsker
<1>2. RoutingInv /\ [Next]_vars => RoutingInv'
  BY NextRouting
<1>3. RoutingInv => ResponseReachesAsker
  BY DEF RoutingInv
<1> QED
  BY <1>1, <1>2, <1>3, PTL DEF Spec

-----------------------------------------------------------------------------
(* What an lsmod says of the tree *)

\* No name begins with another one.  Without it the loop of __lsmod_msg, which
\* compares text, takes a node for one that is there.
NamesAreApart == \A a, b \in Node : StartsWith(a, b) <=> a = b

\* The loop follows the path as long as each node is there.
LEMMA DepthCounts ==
  ASSUME NEW p \in Path, NEW mnts
  PROVE  /\ LsmodDepth(p, mnts) \in 0 .. Len(p)
         /\ \A k \in 1 .. Len(p) :
              k <= LsmodDepth(p, mnts) <=> \A j \in 1 .. k : Shown(j, p, mnts)
<1> DEFINE D == {k \in 1 .. Len(p) : \A j \in 1 .. k : Shown(j, p, mnts)}
           K == Cardinality(D)
<1>1. Len(p) \in Nat
  BY BrokerAssumption
<1>2. D \in SUBSET (1 .. Len(p)) /\ \A x \in D : 1 .. x \in SUBSET D
  BY <1>1
<1>3. LsmodDepth(p, mnts) = K
  BY DEF LsmodDepth
<1>4. \A k \in 1 .. Len(p) : k \in D <=> \A j \in 1 .. k : Shown(j, p, mnts)
  OBVIOUS
<1> HIDE DEF D
<1>5. \A n \in Nat : IsFiniteSet(1 .. n) /\ Cardinality(1 .. n) = n
  BY FS_Interval
<1>6. IsFiniteSet(D) /\ K \in Nat /\ K <= Len(p)
  <2>1. IsFiniteSet(1 .. Len(p)) /\ Cardinality(1 .. Len(p)) = Len(p)
    BY <1>1, <1>5
  <2>2. IsFiniteSet(D) /\ Cardinality(D) <= Cardinality(1 .. Len(p))
    BY <1>2, <2>1, FS_Subset
  <2> QED
    BY <2>1, <2>2, FS_CardinalityType
<1>7. ASSUME NEW x \in D PROVE x \in 1 .. K
  <2>1. x \in Nat /\ x > 0
    BY <1>1, <1>2
  <2>2. Cardinality(1 .. x) <= Cardinality(D)
    BY <1>2, <1>6, FS_Subset
  <2> QED
    BY <1>5, <1>6, <2>1, <2>2
<1>8. D = 1 .. K
  <2>1. IsFiniteSet(1 .. K) /\ Cardinality(1 .. K) = Cardinality(D)
    BY <1>5, <1>6
  <2>2. D \in SUBSET (1 .. K)
    BY <1>7
  <2> QED
    BY <2>1, <2>2, FS_Subset
<1> QED
  BY <1>1, <1>3, <1>4, <1>6, <1>8

\* A node is shown when it exists.
LEMMA ShownIsThere ==
  ASSUME NamesAreApart, NEW p \in Path, NEW mnts, NEW k \in 1 .. Len(p)
  PROVE  Shown(k, p, mnts) <=> NodeExists(SubSeq(p, 1, k), mnts)
<1>1. p \in Seq(Node)
  BY BrokerAssumption
<1> SUFFICES ASSUME NEW m \in Mounted(mnts)
             PROVE  /\ k <= Len(m)
                    /\ SubSeq(m, 1, k - 1) = SubSeq(p, 1, k - 1)
                    /\ StartsWith(m[k], p[k])
                    <=> IsPrefix(SubSeq(p, 1, k), m)
  BY DEF Shown, NodeExists
<1>2. m \in Seq(Node)
  BY BrokerAssumption DEF Mounted
<1>3. Len(SubSeq(p, 1, k)) = k
  BY <1>1
<1>4. CASE k <= Len(m)
  <2>1. m[k] \in Node /\ p[k] \in Node
    BY <1>1, <1>2, <1>4
  <2>2. SubSeq(m, 1, k - 1) = SubSeq(p, 1, k - 1) <=> \A i \in 1 .. k - 1 : m[i] = p[i]
    BY <1>1, <1>2, <1>4
  <2>3. SubSeq(p, 1, k) = SubSeq(m, 1, k) <=> \A i \in 1 .. k : p[i] = m[i]
    BY <1>1, <1>2, <1>4
  <2>4. SubSeq(SubSeq(p, 1, k), 1, k) = SubSeq(p, 1, k)
    BY <1>1
  <2> QED
    BY <1>3, <1>4, <2>1, <2>2, <2>3, <2>4 DEF IsPrefix, NamesAreApart
<1>5. CASE ~ (k <= Len(m))
  BY <1>3, <1>5 DEF IsPrefix
<1> QED
  BY <1>4, <1>5

\* For a path that does not exist, the lsmod names the first node of it that does
\* not, which is one the path goes through.
LEMMA LsmodNamesFirst ==
  ASSUME NamesAreApart, NEW p \in Path, p # <<>>, NEW mnts, ~ NodeExists(p, mnts), NEW new
  PROVE  LET m == LsmodMsg(p, new, mnts)
             q == Append(m.path, m.node)
         IN IsPrefix(q, p) /\ ~ NodeExists(q, mnts)
<1> DEFINE k == LsmodDepth(p, mnts)
           q == SubSeq(p, 1, k + 1)
<1>1. p \in Seq(Node) /\ Len(p) \in Nat
  BY BrokerAssumption
<1>2. k \in 0 .. Len(p)
  BY DepthCounts
<1>3. k < Len(p)
  <2>1. CASE k = Len(p)
    <3>1. Len(p) \in 1 .. Len(p)
      BY <1>1
    <3>2. Shown(Len(p), p, mnts)
      BY <2>1, <3>1, DepthCounts
    <3>3. NodeExists(SubSeq(p, 1, Len(p)), mnts)
      BY <3>1, <3>2, ShownIsThere
    <3>4. SubSeq(p, 1, Len(p)) = p
      BY <1>1
    <3> QED
      BY <3>3, <3>4
  <2> QED
    BY <1>2, <2>1
<1>4. ~ Shown(k + 1, p, mnts)
  <2>1. \A j \in 1 .. k : Shown(j, p, mnts)
    BY <1>1, <1>2, <1>3, DepthCounts
  <2>2. ~ \A j \in 1 .. k + 1 : Shown(j, p, mnts)
    BY <1>1, <1>2, <1>3, DepthCounts
  <2> QED
    BY <1>2, <2>1, <2>2
<1>5. ~ NodeExists(q, mnts)
  BY <1>1, <1>2, <1>3, <1>4, ShownIsThere
<1>6. Append(SubSeq(p, 1, k), p[k + 1]) = q
  BY <1>1, <1>2, <1>3
<1>7. IsPrefix(q, p)
  BY <1>1, <1>2, <1>3 DEF IsPrefix
<1> QED
  BY <1>3, <1>5, <1>6, <1>7 DEF LsmodMsg

LsmodSays(m) ==
  LET p == Append(m.path, m.node)
  IN /\ m.type = "lsmod"
     /\ NodeExists(p, mounts') <=> m.new
     /\ NodeExists(p, mounts) <=> ~ m.new

TreeStep ==
  \A c \in Client :
    (mounts' # mounts /\ outbox'[c] # outbox[c]) => LsmodSays(Last(outbox'[c]).msg)

\* Who gets the message has it last in the queue.
LEMMA SentIsLast ==
  ASSUME QueuesType, NEW to, NEW m, outbox' = Sent(to, m),
         NEW c \in Client, outbox'[c] # outbox[c],
         [session |-> cid[c], msg |-> m] \in Entry
  PROVE  Last(outbox'[c]).msg = m
<1> DEFINE e == [session |-> cid[c], msg |-> m]
<1>1. outbox[c] \in Seq(Entry) /\ outbox'[c] = Push(outbox[c], e)
  BY DEF Sent, QueuesType
<1>2. PICK s \in Seq(Entry) : Push(outbox[c], e) = Append(s, e)
  <2>1. outbox[c] = <<>> => Len(outbox[c]) < QueueMax
    BY BrokerAssumption
  <2>2. outbox[c] # <<>> => Tail(outbox[c]) \in Seq(Entry)
    BY <1>1
  <2> QED
    BY <1>1, <2>1, <2>2 DEF Push
<1>3. Last(Append(s, e)) = e
  BY <1>2 DEF Last
<1>4. Last(outbox'[c]) = e
  BY <1>1, <1>2, <1>3, Zenon
<1> QED
  BY <1>4

\* A mount point is added or taken away, and an lsmod about it is sent.
LEMMA LsmodIsTrue ==
  ASSUME NamesAreApart, TablesInv, QueuesType, NEW p \in Path, p # <<>>, NEW new \in BOOLEAN,
         ~ NodeExists(p, IF new THEN mounts ELSE mounts'),
         p \in Mounted(IF new THEN mounts' ELSE mounts),
         NEW to, outbox' = Sent(to, LsmodMsg(p, new, IF new THEN mounts ELSE mounts'))
  PROVE  TreeStep
<1> DEFINE without == IF new THEN mounts ELSE mounts'
           with == IF new THEN mounts' ELSE mounts
           m == LsmodMsg(p, new, without)
           q == Append(m.path, m.node)
<1> SUFFICES ASSUME NEW c \in Client, outbox'[c] # outbox[c]
             PROVE  LsmodSays(Last(outbox'[c]).msg)
  BY DEF TreeStep
<1>1. m \in Lsmod
  BY LsmodIsMessage
<1>2. m.type = "lsmod" /\ m.new = new
  BY DEF LsmodMsg
<1>3. [session |-> cid[c], msg |-> m] \in Entry
  BY <1>1 DEF TablesInv, TablesType, Entry, Message
<1>4. IsPrefix(q, p) /\ ~ NodeExists(q, without)
  BY LsmodNamesFirst
<1>5. NodeExists(q, with)
  BY <1>4 DEF NodeExists
<1>6. Last(outbox'[c]).msg = m
  BY <1>3, SentIsLast
<1>7. LsmodSays(m)
  <2> HIDE DEF m
  <2>1. CASE new
    BY <1>2, <1>4, <1>5, <2>1 DEF LsmodSays
  <2>2. CASE ~ new
    BY <1>2, <1>4, <1>5, <2>2 DEF LsmodSays
  <2> QED
    BY <2>1, <2>2
<1> QED
  BY <1>6, <1>7

LEMMA UnregisterTellsTree ==
  ASSUME NamesAreApart, TablesInv, QueuesType, NEW d \in Client, UnregisterClient(d)
  PROVE  TreeStep
<1>1. CASE UNCHANGED mounts
  BY <1>1 DEF TreeStep
<1>2. CASE \E p \in MountPoints(cid[d]) :
             /\ mounts' = [mounts EXCEPT ![p] = NoId]
             /\ LET m == LsmodMsg(p, FALSE, [mounts EXCEPT ![p] = NoId])
                IN outbox' = Sent(Receivers(m.path, "lsmod"), m)
  <2>1. PICK p \in MountPoints(cid[d]) :
               /\ mounts' = [mounts EXCEPT ![p] = NoId]
               /\ outbox' = Sent(Receivers(LsmodMsg(p, FALSE, mounts').path, "lsmod"),
                                 LsmodMsg(p, FALSE, mounts'))
    BY <1>2
  <2>2. p \in Mounted(mounts) /\ p \in Path /\ p # <<>>
    BY DEF MountPoints, TablesInv, TablesType, MountsDisjoint, Mounted, NoId, Id
  <2>3. Mounted(mounts') \subseteq Mounted(mounts) \ {p}
    BY <2>1 DEF TablesInv, TablesType, Mounted
  <2>4. ~ NodeExists(p, mounts')
    BY <2>2, <2>3 DEF NodeExists, TablesInv, MountsDisjoint, Overlaps
  <2> QED
    BY <2>1, <2>2, <2>4, LsmodIsTrue
<1> QED
  BY <1>1, <1>2 DEF UnregisterClient, tables

LEMMA LoginTellsTree ==
  ASSUME NamesAreApart, TablesInv, QueuesType, NEW c \in Client, NEW r \in Role,
         RegisterClient(c, r)
  PROVE  TreeStep
<1>1. CASE UNCHANGED mounts
  BY <1>1 DEF TreeStep
<1>2. CASE \E m \in RoleMounts(r) :
             /\ Mountable(m) /\ m # <<>>
             /\ mounts' = [mounts EXCEPT ![m] = NewId]
             /\ LET msg == LsmodMsg(m, TRUE, mounts)
                IN outbox' = Sent(Receivers(msg.path, "lsmod"), msg)
  <2>1. PICK m \in RoleMounts(r) :
               /\ Mountable(m) /\ m # <<>>
               /\ mounts' = [mounts EXCEPT ![m] = NewId]
               /\ outbox' = Sent(Receivers(LsmodMsg(m, TRUE, mounts).path, "lsmod"),
                                 LsmodMsg(m, TRUE, mounts))
    BY <1>2
  <2>2. m \in Path
    BY BrokerAssumption
  <2>3. m \in Mounted(mounts')
    BY <2>1, <2>2, BrokerAssumption DEF TablesInv, TablesType, Mounted, NewId, NoId
  <2>4. ~ NodeExists(m, mounts)
    BY <2>1 DEF NodeExists, Mountable, Overlaps
  <2> QED
    BY <2>1, <2>2, <2>3, <2>4, LsmodIsTrue
<1> QED
  BY <1>1, <1>2 DEF RegisterClient

LEMMA NextTellsTree ==
  ASSUME NamesAreApart, TablesInv, QueuesType, [Next]_vars
  PROVE  TreeStep
<1> USE DEF session, tables
<1>1. CASE UNCHANGED mounts
  BY <1>1 DEF TreeStep
<1>2. CASE \E c \in Client : Reset(c) \/ LoopEnds(c) \/ IdleTimeout(c)
  BY <1>2, UnregisterTellsTree DEF Reset, LoopEnds, IdleTimeout, Disconnect
<1>3. CASE \E c \in Client : DisconnectClient(c)
  <2>1. PICK c \in Client : DisconnectClient(c)
    BY <1>3
  <2> DEFINE d == clients[Head(pending[c]).id]
  <2>2. Head(pending[c]).id \in Id
    BY <2>1, ServingPending DEF DisconnectClient, Task
  <2>3. d \in Client \cup {NoClient}
    BY <2>2 DEF TablesInv, TablesType
  <2>4. CASE d # NoClient /\ Disconnect(c, d)
    BY <2>3, <2>4, UnregisterTellsTree DEF Disconnect
  <2> QED
    BY <1>1, <2>1, <2>4 DEF DisconnectClient
<1>4. CASE \E c \in Client : \E r \in Role : Login(c, r)
  BY <1>4, LoginTellsTree DEF Login
<1>5. CASE \E c \in Client, modifies \in BOOLEAN, wanted \in Wanted, cids \in PeerCallerIds :
             \/ \E p \in Path : RequestOnPath(c, p, modifies, wanted, cids)
             \/ \E i \in Id, rest \in {<<>>, CurrentClient} :
                  RequestById(c, i, rest, modifies, wanted, cids)
  <2>1. \/ \E c \in Client : Reply(c) \/ Fail(c)
        \/ UNCHANGED <<session, tables, asked>>
    BY <1>5, RequestOutcomes
  <2>2. UNCHANGED mounts
    BY <2>1 DEF Reply, Fail, CancelTasks
  <2> QED
    BY <1>1, <2>2
<1>6. CASE \E c \in Client :
             \/ Connect(c) \/ AnswerBeforeLogin(c) \/ LoginMountForbidden(c) \/ ReplySent(c)
             \/ SendIdle(c) \/ Eof(c) \/ LoopCancelled(c) \/ (\E d \in Client : Resume(c, d)) \/ Subscribe(c) \/ Unsubscribe(c)
             \/ \E task \in Task, wanted \in Wanted : RequestLocal(c, task, wanted)
             \/ \E q \in asked[c], final \in BOOLEAN : Respond(c, q, final)
             \/ \E p \in Path : SignalFrom(c, p)
  <2>1. UNCHANGED mounts
    BY <1>6 DEF Connect, AnswerBeforeLogin, Reply, LoginMountForbidden, Fail, CancelTasks, ReplySent,
            SendIdle, Eof, LoopCancelled, Resume, Subscribe, Unsubscribe, RequestLocal,
            Respond, SignalFrom
  <2> QED
    BY <1>1, <2>1
<1>7. CASE Next
  BY <1>2, <1>3, <1>4, <1>5, <1>6, <1>7 DEF Next
<1> QED
  BY <1>1, <1>7 DEF vars

\* An lsmod signal that the broker sends as a mount point comes or goes says what
\* became of the tree: the node it names came into being, or is gone, with that
\* very step, as deep as the new or the remaining mount points lead.
THEOREM LsmodsAreTrue ==
  ASSUME NamesAreApart
  PROVE  Spec => LsmodTracksTree
<1>1. Init => TablesInv /\ QueuesType
  BY InitTables, InitQueuesType
<1>2. TablesInv /\ QueuesType /\ [Next]_vars => (TablesInv /\ QueuesType)'
  BY NextTables, NextQueuesType
<1>3. TablesInv /\ QueuesType /\ [Next]_vars =>
        [\A c \in Client :
           (mounts' # mounts /\ outbox'[c] # outbox[c]) =>
             LET m == Last(outbox'[c]).msg
                 p == Append(m.path, m.node)
             IN /\ m.type = "lsmod"
                /\ NodeExists(p, mounts') <=> m.new
                /\ NodeExists(p, mounts) <=> ~ m.new]_vars
  BY NextTellsTree, Zenon DEF TreeStep, LsmodSays
<1> QED
  BY <1>1, <1>2, <1>3, PTL DEF Spec, LsmodTracksTree

=============================================================================
