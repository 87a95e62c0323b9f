-------------------------- MODULE ClientSessionProofs --------------------------
(***************************************************************************)
(* A client that believes to be logged in is logged in: for any number of  *)
(* calls, losses, resets, failed reconnects and cancellations.             *)
(***************************************************************************)
EXTENDS ClientSession, TLAPS

\* What the client knows of the session is true while nothing is unnoticed: a
\* login that was answered was answered by this session.
Believes == state[Login] \in {"returned", "broken"} \/ answer[Login] # "none"
BeliefIsTrue == (link = "up" /\ ~ resetting /\ Believes) => session

SessionInv == TypeOK /\ BeliefIsTrue

-----------------------------------------------------------------------------
LEMMA LoginEndsType ==
  ASSUME NEW outcome \in Over, NEW states \in [Task -> State]
  PROVE  /\ LoginEnds(outcome, states) \in [Task -> State]
         /\ LoginEnds(outcome, states)[Login] = outcome
BY DEF LoginEnds, Task, State, Over

LEMMA RestartLoginType ==
  ASSUME NEW states \in [Task -> State]
  PROVE  /\ RestartLogin(states) \in [Task -> State]
         /\ RestartLogin(states)[Login] = "gate"
<1> DEFINE outcome == IF states[Login] \in Over THEN states[Login] ELSE "cancelled"
<1>1. outcome \in Over
  BY DEF Over
<1>2. LoginEnds(outcome, states) \in [Task -> State]
  BY <1>1, LoginEndsType
<1> QED
  BY <1>2 DEF RestartLogin, Task, State

LEMMA InitSession == Init => SessionInv
<1> SUFFICES ASSUME Init PROVE SessionInv
  OBVIOUS
<1>1. /\ state \in [Task -> State] /\ state[Login] = "gate"
      /\ answer \in [Task -> {"none", "returned", "refused"}] /\ answer[Login] = "none"
  BY DEF Init, Task, State
<1>2. bounds \in [{"losses", "resets", "failures", "cancels"} -> Nat]
  BY DEF Init
<1>3. connected \in BOOLEAN /\ session \in BOOLEAN /\ resetting \in BOOLEAN
  BY DEF Init
<1>4. queue \in Seq(Task)
  BY DEF Init
<1>5. link \in {"up", "down"} /\ loop = "receiving" /\ activity = "runs" /\ attempt \in Nat /\ sender = "idle" /\ again = {}
  BY DEF Init
<1>6. BeliefIsTrue
  BY <1>1 DEF BeliefIsTrue, Believes
<1> QED
  BY <1>1, <1>2, <1>3, <1>4, <1>5, <1>6 DEF SessionInv, TypeOK

LEMMA CountType ==
  ASSUME TypeOK, NEW what \in {"losses", "resets", "failures", "cancels"}, NEW max, Count(what, max)
  PROVE  bounds' \in [{"losses", "resets", "failures", "cancels"} -> Nat]
BY DEF TypeOK, Count

LEMMA RoundType ==
  ASSUME TypeOK, NEW n \in Nat, Round(n)
  PROVE  /\ loop' \in {"receiving", "closing", "reconnecting", "ended"}
         /\ attempt' \in Nat /\ connected' \in BOOLEAN
         /\ sender' \in Task \cup {"idle", "dead"}
<1>1. CASE loop' = "ended" /\ UNCHANGED <<attempt, sender>>
  BY <1>1 DEF Round, TypeOK
<1>2. CASE loop' = "receiving" /\ attempt' = 0 /\ sender' = "idle"
  BY <1>2 DEF Round, TypeOK
<1>3. CASE loop' = "reconnecting" /\ attempt' = (IF Reconnects < 0 THEN 0 ELSE n) /\ UNCHANGED sender
  BY <1>3 DEF Round, TypeOK
<1> QED
  BY <1>1, <1>2, <1>3 DEF Round

\* What a task does by itself, and what the send loop does.
LEMMA TaskSteps ==
  ASSUME SessionInv, NEW t \in Task, Gate(t) \/ Enqueue(t) \/ Answered(t) \/ AskAgain(t)
  PROVE  SessionInv'
<1> USE ClientSessionAssumption DEF SessionInv, TypeOK, BeliefIsTrue, Believes
<1>1. CASE Gate(t)
  BY <1>1 DEF Gate, State, Over, Task
<1>2. CASE Enqueue(t)
  BY <1>2 DEF Enqueue, State
<1>3. CASE Answered(t)
  <2>1. CASE t # Login
    BY <1>3, <2>1 DEF Answered, State, Task
  <2>2. CASE t = Login
    <3>1. PICK outcome \in {"broken", "returned"} : state' = LoginEnds(outcome, state)
      BY <1>3, <2>2 DEF Answered
    <3>2. state' \in [Task -> State] /\ state'[Login] \in {"broken", "returned"}
      BY <3>1, LoginEndsType DEF Over
    <3> QED
      BY <1>3, <2>2, <3>2 DEF Answered, Task
  <2> QED
    BY <2>1, <2>2
<1>4. CASE AskAgain(t)
  BY <1>4 DEF AskAgain, State
<1> QED
  BY <1>1, <1>2, <1>3, <1>4

LEMMA CallSteps ==
  ASSUME SessionInv, NEW c \in Call, Start(c) \/ Cancel(c)
  PROVE  SessionInv'
<1> USE ClientSessionAssumption DEF SessionInv, TypeOK, BeliefIsTrue, Believes, Task
<1>1. CASE Start(c)
  BY <1>1 DEF Start, State
<1>2. CASE Cancel(c)
  <2>1. bounds' \in [{"losses", "resets", "failures", "cancels"} -> Nat]
    BY <1>2, CountType DEF Cancel
  <2>2. CASE state[c] = "login"
    <3>1. state' \in [Task -> State] /\ state'[Login] = "cancelled"
      BY <1>2, <2>2, LoginEndsType DEF Cancel, Over
    <3> QED
      BY <1>2, <2>1, <2>2, <3>1 DEF Cancel
  <2>3. CASE state[c] # "login"
    BY <1>2, <2>1, <2>3 DEF Cancel, State
  <2> QED
    BY <2>2, <2>3
<1> QED
  BY <1>1, <1>2

LEMMA SenderSteps ==
  ASSUME SessionInv, Take \/ Sent \/ SendFails
  PROVE  SessionInv'
<1> USE ClientSessionAssumption DEF SessionInv, TypeOK, BeliefIsTrue, Believes
<1>1. CASE Take
  <2>1. Head(queue) \in Task /\ Tail(queue) \in Seq(Task)
    BY <1>1 DEF Take
  <2> QED
    BY <1>1, <2>1 DEF Take
<1>2. CASE Sent
  <2> DEFINE t == sender
  <2>1. t \in Task /\ session' = (session \/ t = Login)
    BY <1>2 DEF Sent
  <2>2. CASE Waits(t)
    <3>1. state' \in [Task -> State] /\ (state'[Login] = state[Login] \/ session')
      BY <1>2, <2>1, <2>2 DEF Sent, State, Task
    <3>2. /\ answer' \in [Task -> {"none", "returned", "refused"}]
          /\ answer'[Login] = answer[Login] \/ session'
      BY <1>2, <2>1, <2>2 DEF Sent, Task
    <3> QED
      BY <1>2, <2>1, <2>2, <3>1, <3>2 DEF Sent
  <2>3. CASE ~ Waits(t)
    BY <1>2, <2>1, <2>3 DEF Sent
  <2> QED
    BY <2>2, <2>3
<1>3. CASE SendFails
  BY <1>3 DEF SendFails, State
<1> QED
  BY <1>1, <1>2, <1>3

\* What happens to the connection.
LEMMA LinkSteps ==
  ASSUME SessionInv,
         Lose \/ SessionReset \/ HandleReset \/ ActivityFails \/ LoopEof \/ LoopClosed \/ Reconnected
         \/ ReconnectFails \/ Disconnect
  PROVE  SessionInv'
<1> USE ClientSessionAssumption DEF SessionInv, TypeOK, BeliefIsTrue, Believes
<1>1. CASE Lose
  <2>1. bounds' \in [{"losses", "resets", "failures", "cancels"} -> Nat]
    BY <1>1, CountType DEF Lose
  <2> QED
    BY <1>1, <2>1 DEF Lose
<1>2. CASE SessionReset
  <2>1. bounds' \in [{"losses", "resets", "failures", "cancels"} -> Nat]
    BY <1>2, CountType DEF SessionReset
  <2> QED
    BY <1>2, <2>1 DEF SessionReset
<1>3. CASE HandleReset
  <2> DEFINE woken == {c \in Call : state[c] = "asked"}
             states == [t \in Task |-> IF t \in woken THEN "gate" ELSE state[t]]
  <2>1. states \in [Task -> State]
    BY DEF State
  <2>2. state' = RestartLogin(states)
    BY <1>3 DEF HandleReset
  <2>3. state' \in [Task -> State] /\ state'[Login] = "gate"
    BY <2>1, <2>2, RestartLoginType
  <2>4. /\ answer' \in [Task -> {"none", "returned", "refused"}]
        /\ answer'[Login] = "none"
    BY <1>3 DEF HandleReset, Task
  <2>5. again' \subseteq Call
    BY <1>3 DEF HandleReset, Called
  <2> QED
    BY <1>3, <2>3, <2>4, <2>5 DEF HandleReset
<1>4. CASE LoopEof
  BY <1>4 DEF LoopEof, State
<1>5. CASE LoopClosed
  <2>1. CASE activity = "runs"
    BY <1>5, <2>1, RoundType DEF LoopClosed
  <2>2. CASE activity = "raised"
    BY <1>5, <2>2 DEF LoopClosed
  <2> QED
    BY <2>1, <2>2
<1>6. CASE Reconnected
  <2>1. state' \in [Task -> State] /\ state'[Login] = "gate"
    BY <1>6, RestartLoginType DEF Reconnected
  <2>2. answer' \in [Task -> {"none", "returned", "refused"}] /\ answer'[Login] = "none"
    BY <1>6 DEF Reconnected, Task
  <2> QED
    BY <1>6, <2>1, <2>2, RoundType DEF Reconnected
<1>7. CASE ReconnectFails
  <2>1. bounds' \in [{"losses", "resets", "failures", "cancels"} -> Nat]
    BY <1>7, CountType DEF ReconnectFails
  <2> QED
    BY <1>7, <2>1, RoundType DEF ReconnectFails
<1>8. CASE Disconnect
  BY <1>8 DEF Disconnect
<1>9. CASE ActivityFails
  BY <1>9 DEF ActivityFails
<1> QED
  BY <1>1, <1>2, <1>3, <1>4, <1>5, <1>6, <1>7, <1>8, <1>9

LEMMA NextSession == SessionInv /\ [Next]_vars => SessionInv'
<1> SUFFICES ASSUME SessionInv, [Next]_vars PROVE SessionInv'
  OBVIOUS
<1>1. CASE UNCHANGED vars
  BY <1>1 DEF vars, SessionInv, TypeOK, BeliefIsTrue, Believes
<1>2. CASE Next
  BY <1>2, TaskSteps, CallSteps, SenderSteps, LinkSteps DEF Next
<1> QED
  BY <1>1, <1>2

\* The fields keep their types: in particular no task but the calls and the
\* login is ever queued or sent.
THEOREM TypeCorrect == Spec => []TypeOK
<1>1. SessionInv => TypeOK
  BY DEF SessionInv
<1> QED
  BY InitSession, NextSession, <1>1, PTL DEF Spec

\* A client that finished its login, is connected and has noticed every loss and
\* every reset has a session that is logged in: its messages are not refused for
\* want of a login (client.py:144 and 178-180 restart the login in time).
THEOREM BelievedLoginIsCurrent == Spec => []LoginIsCurrent
<1>1. SessionInv => LoginIsCurrent
  BY DEF SessionInv, BeliefIsTrue, Believes, LoginIsCurrent
<1> QED
  BY InitSession, NextSession, <1>1, PTL DEF Spec
=============================================================================
