----------------------------- MODULE CanAddress -----------------------------
(***************************************************************************)
(* How the nodes on a CAN bus get their dynamic addresses: SHVCAN.Local    *)
(* and the remote frames of _receive_frame.  A node that wants an address  *)
(* asks for it several times, waits after each, and has it when nobody     *)
(* objected.  Frames may be lost for some of the nodes, and answers may    *)
(* come after the 50 milliseconds a node waits.  No name is one of         *)
(* CanPeer's, which speaks of the same bus.                                *)
(***************************************************************************)
EXTENDS Integers, Sequences, FiniteSets

CONSTANTS
  Node,          \* SHVCAN instances, each with one local
  Address,       \* dynamic addresses: 0x80 to 0xFF
  NoAddress,
  Questions,     \* how often an address is asked for: 8
  MaxLosses,     \* bound: frames lost and answers that came too late
  MaxAttempts,   \* bound: addresses a node tries
  MaxDiscovers   \* bound: requests for discovery

ASSUME CanAddressAssumption ==
  /\ IsFiniteSet(Node) /\ NoAddress \notin Address
  /\ Questions \in Nat \ {0} /\ MaxLosses \in Nat /\ MaxAttempts \in Nat /\ MaxDiscovers \in Nat

VARIABLES
  local,      \* the address of the local of each node
  future,     \* _dynfuture: "none", "pending", "conflict" (True) or "taken" (False)
  questions,  \* ADDR_ACQ frames sent for the address
  listening,  \* _new_peer_callback is set
  available,  \* addresses dynamic_local may still choose
  stage,      \* of each node: "idle", "acquiring", "owner", "failed"
  inbox,      \* frames on their way to each node
  attempts, discovers, losses

node == <<local, future, questions, listening, available, stage, attempts>>
addressVars == <<node, inbox, discovers, losses>>

Kind == {"ACQ", "ANC_LISTEN", "ANC_IGN", "DISC_LISTEN", "DISC_IGN", "DISC"}
RemoteFrame == [dlc : Kind, src : Address]

AddressInit ==
  /\ local = [n \in Node |-> NoAddress]
  /\ future = [n \in Node |-> "none"]
  /\ questions = [n \in Node |-> 0]
  /\ listening = [n \in Node |-> FALSE]
  /\ available = [n \in Node |-> Address]
  /\ stage = [n \in Node |-> "idle"]
  /\ inbox = [n \in Node |-> <<>>]
  /\ attempts = [n \in Node |-> 0]
  /\ discovers = 0 /\ losses = 0

\* The frame of node n comes to all other nodes, except to those that lose it.
\* Every loss is counted.
Cast(n, dlc, src, boxes, spent) ==
  \E lost \in SUBSET (Node \ {n}) :
    /\ spent + Cardinality(lost) <= MaxLosses
    /\ losses' = spent + Cardinality(lost)
    /\ inbox' = [m \in Node |-> IF m = n \/ m \in lost THEN boxes[m]
                                ELSE Append(boxes[m], [dlc |-> dlc, src |-> src])]

\* Local.announce.
Announce(n, boxes) ==
  Cast(n, IF listening'[n] THEN "ANC_LISTEN" ELSE "ANC_IGN", local[n], boxes, losses)

-----------------------------------------------------------------------------
(* Acquisition *)

\* dynamic_local chooses an address, and dynamic_address_acquire asks for it.
Acquire(n, a) ==
  /\ stage[n] = "idle" /\ attempts[n] < MaxAttempts
  /\ a \in available[n]
  /\ stage' = [stage EXCEPT ![n] = "acquiring"]
  /\ local' = [local EXCEPT ![n] = a]
  /\ future' = [future EXCEPT ![n] = "pending"]
  /\ questions' = [questions EXCEPT ![n] = 1]
  /\ attempts' = [attempts EXCEPT ![n] = @ + 1]
  /\ Cast(n, "ACQ", a, inbox, losses)
  /\ UNCHANGED <<listening, available, discovers>>

\* Nobody that could object still has to read the question, and no objection
\* is under way.
Heard(n) ==
  /\ \A m \in Node \ {n} : \A i \in DOMAIN inbox[m] :
       inbox[m][i] # [dlc |-> "ACQ", src |-> local[n]]
  /\ \A i \in DOMAIN inbox[n] :
       inbox[n][i].src = local[n] => inbox[n][i].dlc \notin {"ACQ", "ANC_LISTEN", "ANC_IGN"}

\* The wait for an objection is over: in time, or too early.
Waited(n) ==
  IF Heard(n) THEN losses ELSE losses + 1

\* Variant: one question too few.
LastTry_Early(n) == questions[n] = Questions - 1

LastTry(n) == questions[n] = Questions

\* asyncio.wait timed out: the question is asked again.
AskAgain(n) ==
  /\ stage[n] = "acquiring" /\ future[n] = "pending" /\ ~ LastTry(n)
  /\ questions' = [questions EXCEPT ![n] = @ + 1]
  /\ Cast(n, "ACQ", local[n], inbox, Waited(n))
  /\ UNCHANGED <<local, future, listening, available, stage, attempts, discovers>>

\* It timed out for the last time: the address belongs to the node.
Own(n) ==
  /\ stage[n] = "acquiring" /\ future[n] = "pending" /\ LastTry(n)
  /\ Waited(n) <= MaxLosses
  /\ losses' = Waited(n)
  /\ stage' = [stage EXCEPT ![n] = "owner"]
  /\ future' = [future EXCEPT ![n] = "none"]
  /\ UNCHANGED <<local, questions, listening, available, attempts, inbox, discovers>>

\* Somebody objected: AddressAcquisitionError.  An address that is taken is not
\* tried again; when none is left dynamic_local raises RuntimeError.
Objected(n) ==
  /\ stage[n] = "acquiring" /\ future[n] \in {"conflict", "taken"}
  /\ available' = [available EXCEPT ![n] = IF future[n] = "taken" THEN @ \ {local[n]} ELSE @]
  /\ stage' = [stage EXCEPT ![n] = IF available'[n] = {} THEN "failed" ELSE "idle"]
  /\ local' = [local EXCEPT ![n] = NoAddress]
  /\ future' = [future EXCEPT ![n] = "none"]
  /\ UNCHANGED <<questions, listening, attempts, inbox, discovers, losses>>

-----------------------------------------------------------------------------
(* Owners *)

\* bind: the address accepts connections, and says so.
Bind(n) ==
  /\ stage[n] = "owner" /\ ~ listening[n]
  /\ listening' = [listening EXCEPT ![n] = TRUE]
  /\ Announce(n, inbox)
  /\ UNCHANGED <<local, future, questions, available, stage, attempts, discovers>>

\* unbind, and deactivate when there are no connections.
Deactivate(n) ==
  /\ stage[n] = "owner"
  /\ stage' = [stage EXCEPT ![n] = "idle"]
  /\ local' = [local EXCEPT ![n] = NoAddress]
  /\ listening' = [listening EXCEPT ![n] = FALSE]
  /\ available' = [available EXCEPT ![n] = Address]
  /\ UNCHANGED <<future, questions, attempts, inbox, discovers, losses>>

\* discover asks the nodes of a kind to announce themselves.
Discover(n) ==
  /\ stage[n] = "owner" /\ discovers < MaxDiscovers
  /\ discovers' = discovers + 1
  /\ \E dlc \in {"DISC_LISTEN", "DISC_IGN", "DISC"} : Cast(n, dlc, local[n], inbox, losses)
  /\ UNCHANGED node

-----------------------------------------------------------------------------
(* Remote frames *)

Taken(n) == /\ inbox[n] # <<>>
            /\ UNCHANGED <<local, questions, listening, available, stage, attempts, discovers>>

Rest(n) == [inbox EXCEPT ![n] = Tail(@)]

\* ADDR_ACQ for the address of the node: a conflict for one that waits, and an
\* announcement by any other, also one that lost the address but does not know.
AskedFor(n) ==
  /\ Taken(n)
  /\ Head(inbox[n]) = [dlc |-> "ACQ", src |-> local[n]]
  /\ \/ /\ future[n] = "pending"
        /\ future' = [future EXCEPT ![n] = "conflict"]
        /\ inbox' = Rest(n)
        /\ UNCHANGED losses
     \/ /\ future[n] # "pending"
        /\ Announce(n, Rest(n))
        /\ UNCHANGED future

\* ADDR_ANC for the address of a node that waits: it is taken.
Announced(n) ==
  /\ Taken(n)
  /\ Head(inbox[n]).dlc \in {"ANC_LISTEN", "ANC_IGN"} /\ Head(inbox[n]).src = local[n]
  /\ future' = [future EXCEPT ![n] = IF @ = "pending" THEN "taken" ELSE @]
  /\ inbox' = Rest(n)
  /\ UNCHANGED losses

\* A discovery asks for what the node has, whether it is acquired or not.
Asks(n, dlc) ==
  /\ local[n] # NoAddress
  /\ \/ dlc = "DISC"
     \/ dlc = "DISC_LISTEN" /\ listening[n]
     \/ dlc = "DISC_IGN" /\ ~ listening[n]

Discovered(n) ==
  /\ Taken(n)
  /\ Asks(n, Head(inbox[n]).dlc)
  /\ Announce(n, Rest(n))
  /\ UNCHANGED future

\* Any other frame: about an address the node does not have.
Ignored(n) ==
  /\ Taken(n)
  /\ Head(inbox[n]).dlc \in {"ACQ", "ANC_LISTEN", "ANC_IGN"} => Head(inbox[n]).src # local[n]
  /\ ~ Asks(n, Head(inbox[n]).dlc)
  /\ inbox' = Rest(n)
  /\ UNCHANGED <<future, losses>>

-----------------------------------------------------------------------------
AddressNext == \E n \in Node :
  \/ \E a \in Address : Acquire(n, a)
  \/ AskAgain(n) \/ Own(n) \/ Objected(n)
  \/ Bind(n) \/ Deactivate(n) \/ Discover(n)
  \/ AskedFor(n) \/ Announced(n) \/ Discovered(n) \/ Ignored(n)

AddressSpec == AddressInit /\ [][AddressNext]_addressVars

-----------------------------------------------------------------------------
(* Properties *)

TypeOK ==
  /\ local \in [Node -> Address \cup {NoAddress}]
  /\ future \in [Node -> {"none", "pending", "conflict", "taken"}]
  /\ questions \in [Node -> 0 .. Questions]
  /\ listening \in [Node -> BOOLEAN]
  /\ available \in [Node -> SUBSET Address]
  /\ stage \in [Node -> {"idle", "acquiring", "owner", "failed"}]
  /\ inbox \in [Node -> Seq(RemoteFrame)]
  /\ attempts \in [Node -> Nat]
  /\ discovers \in Nat /\ losses \in Nat

\* No two nodes own one address, unless as many frames were lost or late as an
\* address is asked for: dynamic_address_acquire tolerates any fewer.
OwnersDiffer ==
  \A n, m \in Node :
    n # m /\ stage[n] = "owner" /\ stage[m] = "owner" /\ local[n] = local[m]
      => losses >= Questions
=============================================================================
