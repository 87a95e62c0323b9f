------------------------------ MODULE MCDevice ------------------------------
(***************************************************************************)
(* A file on a device, and nodes on a CAN bus that acquire addresses: the  *)
(* two systems of which only safety is asked.  They share no state: one of *)
(* them takes steps in a behaviour, the other rests where it begins.       *)
(***************************************************************************)
EXTENDS RpcFile, CanAddress

VARIABLE part

MCInit ==
  /\ AddressInit
  /\ \/ part = "file" /\ Init
     \/ /\ part = "address" /\ Init
        /\ flags = {} /\ provider = {"write"} /\ file = <<>>

MCNext ==
  /\ \/ part = "file" /\ Next /\ UNCHANGED addressVars
     \/ part = "address" /\ AddressNext /\ UNCHANGED vars
  /\ UNCHANGED part

MCSpec == MCInit /\ [][MCNext]_<<vars, addressVars, part>>
=============================================================================
