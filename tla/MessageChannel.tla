--------------------------- MODULE MessageChannel ---------------------------
(***************************************************************************)
(* What one connection promises to the receiver, whatever is lost or sent  *)
(* again on the way: it gets whole messages, in the order in which they    *)
(* were given to the connection.  A message may be missing, and the newest *)
(* one may come again.  In place of messages that met in a receiver on the *)
(* CAN bus it may get something that says it is none.                      *)
(***************************************************************************)
EXTENDS Naturals, Sequences

CONSTANT Message

VARIABLES
  sent,   \* messages in the order they were given to the connection
  got,    \* what was received: messages, "spoilt", or "eof"
  newest  \* the place in sent of the newest message received

Init == sent = <<>> /\ got = <<>> /\ newest = 0

Give(m) == sent' = Append(sent, m) /\ UNCHANGED <<got, newest>>

Get(i) ==
  /\ newest <= i /\ i # 0
  /\ got' = Append(got, sent[i])
  /\ newest' = i
  /\ UNCHANGED sent

Close == got' = Append(got, "eof") /\ UNCHANGED <<sent, newest>>

Spoil == got' = Append(got, "spoilt") /\ UNCHANGED <<sent, newest>>

Next ==
  \/ \E m \in Message : Give(m)
  \/ \E i \in DOMAIN sent : Get(i)
  \/ Spoil
  \/ Close

Spec == Init /\ [][Next]_<<sent, got, newest>>
=============================================================================
