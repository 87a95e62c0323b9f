---------------------------- MODULE MCTransport ----------------------------
(***************************************************************************)
(* A stream transport, and the session of a client above any transport.    *)
(* They share no state: one of them takes steps in a behaviour, the other  *)
(* rests where it begins.  The messages are one that reads like an escape, *)
(* one that is a control code and not a valid RPC message, and the reset.  *)
(***************************************************************************)
EXTENDS StreamLink, ClientSession

CONSTANTS codes, invalid, reset

VARIABLE part

MCMessage == {codes, invalid, reset}
MCData ==
  (codes :> <<ESC, <<"code", ETX>>>>) @@ (invalid :> <<STX>>) @@ (reset :> <<<<"0">>>>)
MCSort == (codes :> "message") @@ (invalid :> "invalid") @@ (reset :> "reset")

\* A session before it begins: nothing can happen in it.
NoSession ==
  /\ link = "down" /\ loop = "ended" /\ activity = "runs" /\ attempt = 0 /\ connected = FALSE
  /\ sender = "idle" /\ queue = <<>> /\ state = [t \in Task |-> "idle"]
  /\ again = {} /\ answer = [t \in Task |-> "none"] /\ session = FALSE /\ resetting = FALSE
  /\ bounds = [what \in {"losses", "resets", "failures", "cancels"} |-> 0]

MCInit ==
  /\ LinkInit
  /\ \/ part = "link" /\ NoSession
     \/ part = "session" /\ Init /\ transport = CHOOSE t \in Transports : TRUE

MCNext ==
  /\ \/ part = "link" /\ LinkNext /\ UNCHANGED vars
     \/ part = "session" /\ Next /\ UNCHANGED linkVars
  /\ UNCHANGED part

MCSpec == MCInit /\ [][MCNext]_<<linkVars, vars, part>> /\ LinkFairness /\ Fairness
=============================================================================
