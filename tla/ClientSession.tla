--------------------------- MODULE ClientSession ---------------------------
(***************************************************************************)
(* SHVClient: a client that logs in to a broker, connects again when the   *)
(* connection is lost, logs in again after every reconnect and reset, and  *)
(* keeps all other messages back until it is logged in.  The other side is *)
(* the session the broker has for the connection.                          *)
(*                                                                         *)
(* The tasks are the calls of the application and the login task, whose    *)
(* call is the only one that does not wait for the login.  What _send and  *)
(* _send_loop do in detail is in SendLoop, what call does in RpcCall.      *)
(***************************************************************************)
EXTENDS Integers, Sequences, FiniteSets

CONSTANTS
  Call,         \* calls of the application
  Login,        \* the current login task
  Reconnects,   \* SHVClient.reconnects, -1 for no limit
  Restores,     \* whether the client has subscriptions to restore: may be both
  MaxLosses, MaxResets, MaxFailures, MaxCancels  \* bounds

ASSUME ClientSessionAssumption ==
  /\ Login \notin Call
  /\ Reconnects \in Nat \cup {-1}
  /\ Restores \in SUBSET BOOLEAN \ {{}}
  /\ {MaxLosses, MaxResets, MaxFailures, MaxCancels} \subseteq Nat

Task == Call \cup {Login}

VARIABLES
  link,       \* client.connected, and the broker's end of it
  loop,       \* SHVClient._loop: "receiving", "closing", "reconnecting" or "ended"
  activity,   \* the activity task, which pings the broker, "runs" or has "raised"
  attempt,    \* reconnect_attempt
  connected,  \* _connected is set
  sender,     \* _send_loop: "idle", the task whose message client.send has, or "dead"
  queue,      \* __send_queue
  state,      \* where each task is, see State
  again,      \* calls that found None in their queue: they send once more
  answer,     \* the broker's answer on its way to a task
  session,    \* the broker's session is logged in
  resetting,  \* the session was reset and the client did not handle that yet
  bounds      \* how often each bounded thing happened

vars == <<link, loop, activity, attempt, connected, sender, queue, state, again, answer,
          session, resetting, bounds>>

\* "gate": at _connected.wait(); "login": at the await of _login_task;
\* "passed": about to queue the message; "queued": its message is queued or in
\* client.send; "asked": waits for the answer; "hung": waits for a send that
\* will never be reported.  The others are the ways a task ends.
State == {"idle", "gate", "login", "passed", "queued", "asked", "hung",
          "returned", "refused", "broken", "cancelled"}
Over == {"returned", "refused", "broken", "cancelled"}

Init ==
  /\ link = "up" /\ loop = "receiving" /\ activity = "runs" /\ attempt = 0 /\ connected = TRUE
  /\ sender = "idle" /\ queue = <<>>
  /\ state = [t \in Task |-> IF t = Login THEN "gate" ELSE "idle"]
  /\ again = {} /\ answer = [t \in Task |-> "none"]
  /\ session = FALSE /\ resetting = FALSE
  /\ bounds = [what \in {"losses", "resets", "failures", "cancels"} |-> 0]

Count(what, max) ==
  /\ bounds[what] < max
  /\ bounds' = [bounds EXCEPT ![what] = @ + 1]

-----------------------------------------------------------------------------
(* Tasks *)

\* Variant: nobody is told.
LoginEnds_Silent(outcome, states) == [states EXCEPT ![Login] = outcome]

\* The login task ended: those that await it go on, or raise what it raised.
LoginEnds(outcome, states) ==
  [t \in Task |->
     IF t = Login THEN outcome
     ELSE IF states[t] # "login" THEN states[t]
     ELSE IF outcome = "returned" THEN "passed" ELSE outcome]

\* Variant: a login that succeeded is not made again.
RestartLogin_Once(states) ==
  IF states[Login] = "returned" THEN states ELSE [states EXCEPT ![Login] = "gate"]

\* __restart_login: a login under way is cancelled, and so is who awaits it.
RestartLogin(states) ==
  [LoginEnds(IF states[Login] \in Over THEN states[Login] ELSE "cancelled", states)
     EXCEPT ![Login] = "gate"]

\* call: the request is registered and _send waits until there is a connection.
Start(c) ==
  /\ state[c] = "idle"
  /\ state' = [state EXCEPT ![c] = "gate"]
  /\ UNCHANGED <<link, loop, activity, attempt, connected, sender, queue, again, answer, session,
                 resetting, bounds>>

\* There is one: the login task goes on, a call waits for the login, which may
\* be over, and raises what it raised.
Gate(t) ==
  /\ state[t] = "gate" /\ connected
  /\ state' = [state EXCEPT ![t] =
                 IF t = Login \/ state[Login] = "returned" THEN "passed"
                 ELSE IF state[Login] \in Over THEN state[Login] ELSE "login"]
  /\ UNCHANGED <<link, loop, activity, attempt, connected, sender, queue, again, answer, session,
                 resetting, bounds>>

\* SHVBase._send.
Enqueue(t) ==
  /\ state[t] = "passed"
  /\ state' = [state EXCEPT ![t] = "queued"]
  /\ queue' = Append(queue, t)
  /\ UNCHANGED <<link, loop, activity, attempt, connected, sender, again, answer, session,
                 resetting, bounds>>

\* The answer comes.  After a login the subscriptions are restored by calls
\* that await the login task, in the login task: RuntimeError.
Answered(t) ==
  /\ loop = "receiving" /\ state[t] = "asked" /\ answer[t] # "none"
  /\ answer' = [answer EXCEPT ![t] = "none"]
  /\ \E restores \in Restores :
       state' = IF t # Login THEN [state EXCEPT ![t] = answer[t]]
                ELSE LoginEnds(IF restores THEN "broken" ELSE "returned", state)
  /\ UNCHANGED <<link, loop, activity, attempt, connected, sender, queue, again, session,
                 resetting, bounds>>

\* The answer was lost: after a while the call asks again.
AskAgain(t) ==
  /\ state[t] = "asked" /\ answer[t] = "none"
  /\ state' = [state EXCEPT ![t] = "gate"]
  /\ UNCHANGED <<link, loop, activity, attempt, connected, sender, queue, again, answer, session,
                 resetting, bounds>>

\* The application gives the call up.  One that awaits the login task cancels
\* it, and all who await it.
Cancel(c) ==
  /\ state[c] \notin Over \cup {"idle"}
  /\ Count("cancels", MaxCancels)
  /\ state' = IF state[c] = "login" THEN LoginEnds("cancelled", state)
              ELSE [state EXCEPT ![c] = "cancelled"]
  /\ again' = again \ {c}
  /\ answer' = [answer EXCEPT ![c] = "none",
                              ![Login] = IF state[c] = "login" THEN "none" ELSE @]
  /\ UNCHANGED <<link, loop, activity, attempt, connected, sender, queue, session, resetting>>

-----------------------------------------------------------------------------
(* The send loop *)

\* The next message is given to client.send.
Take ==
  /\ loop = "receiving" /\ sender = "idle" /\ queue # <<>>
  /\ sender' = Head(queue)
  /\ queue' = Tail(queue)
  /\ UNCHANGED <<link, loop, activity, attempt, connected, state, again, answer, session,
                 resetting, bounds>>

\* The task still waits for this message: no later one of it is queued.
Waits(t) == state[t] = "queued" /\ \A i \in DOMAIN queue : queue[i] # t

\* client.send succeeds, and the broker handles the message: a login logs the
\* session in, anything else needs that.  A future that was cancelled ends the
\* send loop.
Sent ==
  LET t == sender IN
  /\ loop = "receiving" /\ t \in Task /\ link = "up"
  /\ session' = (session \/ t = Login)
  /\ IF Waits(t)
     THEN /\ sender' = "idle"
          /\ state' = [state EXCEPT ![t] = IF t \in again THEN "gate" ELSE "asked"]
          /\ again' = again \ {t}
          /\ answer' = IF t \in again THEN answer
                       ELSE [answer EXCEPT ![t] = IF session' THEN "returned" ELSE "refused"]
     ELSE /\ sender' = "dead"
          /\ UNCHANGED <<state, again, answer>>
  /\ UNCHANGED <<link, loop, activity, attempt, connected, queue, resetting, bounds>>

\* client.send raises EOFError: the call starts over.
SendFails ==
  LET t == sender IN
  /\ loop = "receiving" /\ t \in Task /\ link = "down"
  /\ IF Waits(t)
     THEN /\ sender' = "idle"
          /\ state' = [state EXCEPT ![t] = "gate"]
          /\ again' = again \ {t}
     ELSE /\ sender' = "dead"
          /\ UNCHANGED <<state, again>>
  /\ UNCHANGED <<link, loop, activity, attempt, connected, queue, answer, session, resetting, bounds>>

-----------------------------------------------------------------------------
(* Connection *)

\* The connection is lost with all that was on its way.
Lose ==
  /\ link = "up" /\ Count("losses", MaxLosses)
  /\ link' = "down"
  /\ session' = FALSE /\ resetting' = FALSE
  /\ answer' = [t \in Task |-> "none"]
  /\ UNCHANGED <<loop, activity, attempt, connected, sender, queue, state, again>>

\* The session is reset, by the peer or by reset() of the application.
SessionReset ==
  /\ link = "up" /\ ~ resetting /\ Count("resets", MaxResets)
  /\ session' = FALSE /\ resetting' = TRUE
  /\ UNCHANGED <<link, loop, activity, attempt, connected, sender, queue, state, again, answer>>

\* The calls that are under way.
Called == {c \in Call : state[c] \notin Over \cup {"idle"}}

\* _reset: every call finds None in its queue, the login starts again.
HandleReset ==
  /\ loop = "receiving" /\ resetting
  /\ resetting' = FALSE
  /\ LET woken == {c \in Call : state[c] = "asked"} IN
     /\ state' = RestartLogin([t \in Task |-> IF t \in woken THEN "gate" ELSE state[t]])
     /\ again' = (again \cup Called)
                   \ (woken \cup {c \in Call : state[c] = "login"})
     /\ answer' = [t \in Task |-> IF t \in woken \cup {Login} THEN "none" ELSE answer[t]]
  /\ UNCHANGED <<link, loop, activity, attempt, connected, sender, queue, session, bounds>>

\* The ping of the activity task raises what the login raised, or for want of
\* a good answer: nobody looks at it now.
ActivityFails ==
  /\ loop = "receiving" /\ activity = "runs"
  /\ activity' = "raised"
  /\ UNCHANGED <<link, loop, attempt, connected, sender, queue, state, again, answer, session,
                 resetting, bounds>>

\* EOFError ends the receive loop of SHVBase, which stops the send loop first:
\* what client.send has then is never reported.  What ended the send loop
\* before is raised, and ends the loop of the client too.
LoopEof ==
  /\ loop = "receiving" /\ link = "down"
  /\ loop' = IF sender = "dead" THEN "ended" ELSE "closing"
  /\ sender' = "dead"
  /\ state' = IF sender \in Task /\ Waits(sender)
              THEN [state EXCEPT ![sender] = "hung"] ELSE state
  /\ UNCHANGED <<link, activity, attempt, connected, queue, again, answer, session, resetting,
                 bounds>>

\* The while of _loop, after reconnect_attempt was set to n.
Round(n) ==
  /\ \/ /\ Reconnects >= 0 /\ n > Reconnects
        /\ loop' = "ended" /\ UNCHANGED <<attempt, sender>>
     \/ /\ Reconnects < 0 \/ n <= Reconnects
        /\ IF link' = "up"
           THEN loop' = "receiving" /\ attempt' = 0 /\ sender' = "idle"
           ELSE /\ loop' = "reconnecting" /\ attempt' = IF Reconnects < 0 THEN 0 ELSE n
                /\ UNCHANGED sender
  /\ connected' = (loop' = "receiving")

\* The receive loop has ended: the event is cleared and the next round begins,
\* unless the activity task raised, which is raised here again.
LoopClosed ==
  /\ loop = "closing"
  /\ link' = "down" /\ activity' = "runs"
  /\ \/ activity = "runs" /\ Round(attempt + 1)
     \/ /\ activity = "raised" /\ loop' = "ended" /\ connected' = FALSE
        /\ UNCHANGED <<attempt, sender>>
  /\ UNCHANGED <<queue, state, again, answer, session, resetting, bounds>>

\* client.reset() connects: the login is started again.
Reconnected ==
  /\ loop = "reconnecting"
  /\ link' = "up"
  /\ state' = RestartLogin(state)
  /\ answer' = [answer EXCEPT ![Login] = "none"]
  /\ Round(attempt + 1)
  /\ UNCHANGED <<activity, queue, again, session, resetting, bounds>>

\* It does not, and the loop sleeps before the next round.
ReconnectFails ==
  /\ loop = "reconnecting" /\ Count("failures", MaxFailures)
  /\ UNCHANGED link
  /\ Round(attempt + 1)
  /\ UNCHANGED <<activity, queue, state, again, answer, session, resetting>>

\* disconnect: no more reconnects, and the loop is cancelled.
Disconnect ==
  /\ loop # "ended"
  /\ loop' = "ended" /\ link' = "down" /\ sender' = "dead"
  /\ session' = FALSE /\ resetting' = FALSE
  /\ answer' = [t \in Task |-> "none"]
  /\ UNCHANGED <<activity, attempt, connected, queue, state, again, bounds>>

-----------------------------------------------------------------------------
Next ==
  \/ \E c \in Call : Start(c) \/ Cancel(c)
  \/ \E t \in Task : Gate(t) \/ Enqueue(t) \/ Answered(t) \/ AskAgain(t)
  \/ Take \/ Sent \/ SendFails
  \/ Lose \/ SessionReset \/ HandleReset
  \/ ActivityFails \/ LoopEof \/ LoopClosed \/ Reconnected \/ ReconnectFails \/ Disconnect

\* The event loop runs what is ready, the transport sends or fails, the timers
\* of the calls expire, the broker answers, and a lost connection is noticed.
Fairness ==
  /\ \A t \in Task : /\ WF_vars(Gate(t)) /\ WF_vars(Enqueue(t))
                     /\ WF_vars(Answered(t)) /\ WF_vars(AskAgain(t))
  /\ WF_vars(Take) /\ WF_vars(Sent \/ SendFails)
  /\ WF_vars(HandleReset) /\ WF_vars(LoopEof) /\ WF_vars(LoopClosed)
  /\ WF_vars(Reconnected)

Spec == Init /\ [][Next]_vars /\ Fairness

-----------------------------------------------------------------------------
(* Properties *)

TypeOK ==
  /\ link \in {"up", "down"}
  /\ loop \in {"receiving", "closing", "reconnecting", "ended"}
  /\ activity \in {"runs", "raised"} /\ attempt \in Nat
  /\ connected \in BOOLEAN /\ session \in BOOLEAN /\ resetting \in BOOLEAN
  /\ sender \in Task \cup {"idle", "dead"}
  /\ queue \in Seq(Task)
  /\ state \in [Task -> State]
  /\ again \subseteq Call
  /\ answer \in [Task -> {"none", "returned", "refused"}]
  /\ bounds \in [{"losses", "resets", "failures", "cancels"} -> Nat]

\* Whenever the client believes to be logged in and connected, the broker's
\* session is logged in, except while a loss or a reset is still unnoticed.
LoginIsCurrent ==
  (state[Login] \in {"returned", "broken"} /\ connected /\ loop = "receiving"
   /\ link = "up" /\ ~ resetting) => session

\* Every call ends, unless the client stopped to reconnect, told to or because
\* an exception ended its loop, or the send loop failed to report a send or
\* ended (SendLoop shows how that happens).
CallsEnd ==
  \A c \in Call : state[c] = "gate" ~>
    (state[c] \in Over \cup {"hung"} \/ loop = "ended" \/ sender = "dead")
=============================================================================
