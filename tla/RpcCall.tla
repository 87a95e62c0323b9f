------------------------------- MODULE RpcCall -------------------------------
(***************************************************************************)
(* A method call between two SHVBase peers: SHVBase.call on one side, with *)
(* its queries, retries and abort, and the table of running requests on    *)
(* the other side.  Messages between the two may be lost.                  *)
(***************************************************************************)
EXTENDS Integers, Sequences, FiniteSets

CONSTANTS
  Call,      \* calls the application makes, each once
  NoCall,
  Task,      \* bound: tasks of requests the peer has at a time
  NoTask,
  MaxRid,    \* bound: request IDs
  MaxFaults  \* bound: resets, lost messages and timeouts that come too early, which
             \* come only while a call is under way; each new ID of a call is one less

Rid == 1 .. MaxRid
NoRid == 0

ASSUME RpcCallAssumption ==
  /\ NoCall \notin Call
  /\ NoTask \notin Task
  /\ MaxRid \in Nat
  /\ MaxFaults \in Nat

VARIABLES
  phase,      \* where SHVBase.call is
  rid,        \* request.request_id of each call
  user,       \* the request carries the user ID
  inbox,      \* the asyncio.Queue of each call
  responses,  \* SHVBase._responses: whose queue is under a request ID
  lastRid,    \* RpcMessage._last_request_id
  up, down,   \* messages to the peer and from it
  table,      \* the peer's _requests
  task,       \* the peer's tasks
  ready,      \* what the peer's event loop runs next: first steps, done callbacks
  faults      \* history: resets, losses and early timeouts so far

caller == <<phase, rid, user, inbox, responses, lastRid>>
peer == <<table, task, ready>>
vars == <<caller, up, down, peer, faults>>

Request == [type : {"request"}, rid : Rid, user : BOOLEAN]
Abort == [type : {"abort"}, rid : Rid, abort : BOOLEAN]
\* A result or any error that call raises is "final"; RpcTryAgainLaterError,
\* RpcUserIDRequiredError and RpcRequestInvalidError make it go on.
Outcome == {"final", "again", "user", "invalid"}
Response == [type : {"response"}, rid : Rid, kind : Outcome]
Delay == [type : {"delay"}, rid : Rid]
ResetMsg == [type |-> "reset"]
Up == Request \cup Abort \cup {ResetMsg}
Down == Response \cup Delay \cup {ResetMsg}

NoRequest == [rid |-> NoRid, user |-> FALSE, state |-> "free"]

Init ==
  /\ phase = [c \in Call |-> "idle"]
  /\ rid = [c \in Call |-> NoRid]
  /\ user = [c \in Call |-> FALSE]
  /\ inbox = [c \in Call |-> <<>>]
  /\ responses = [r \in Rid |-> NoCall]
  /\ lastRid = 0
  /\ up = <<>> /\ down = <<>>
  /\ table = [r \in Rid |-> NoTask]
  /\ task = [t \in Task |-> NoRequest]
  /\ ready = <<>>
  /\ faults = 0

SendUp(m) == up' = Append(up, m)
SendDown(m) == down' = Append(down, m)

-----------------------------------------------------------------------------
(* SHVBase.call *)

InCall(c) == phase[c] \in {"waiting", "sleeping"}

\* Bound: what becomes of messages and tasks is followed only while a call is
\* there that could tell.
Followed == \E c \in Call : InCall(c) \/ phase[c] = "aborting"

Fault ==
  /\ faults < MaxFaults
  /\ faults + lastRid < MaxFaults + Cardinality(Call)
  /\ \E c \in Call : InCall(c)
  /\ faults' = faults + 1

AbortOf(c, really) == [type |-> "abort", rid |-> rid[c], abort |-> really]

\* The request as call sends it, first or again.
TheRequest(r, u) == [type |-> "request", rid |-> r, user |-> u]

Start(c) ==
  /\ phase[c] = "idle"
  /\ lastRid < MaxRid
  /\ lastRid' = lastRid + 1
  /\ rid' = [rid EXCEPT ![c] = lastRid']
  /\ responses' = [responses EXCEPT ![lastRid'] = c]
  /\ phase' = [phase EXCEPT ![c] = "waiting"]
  /\ SendUp(TheRequest(lastRid', FALSE))
  /\ UNCHANGED <<user, inbox, down, peer, faults>>

\* A response that ends the call took the registration away already, so the
\* "finally" of call has nothing to do.
Finish(c, how) ==
  /\ phase' = [phase EXCEPT ![c] = IF responses[rid[c]] = c THEN "aborting" ELSE how]
  /\ inbox' = [inbox EXCEPT ![c] = <<>>]
  /\ IF responses[rid[c]] = c THEN SendUp(AbortOf(c, TRUE)) ELSE UNCHANGED up

\* A new ID for the same request, registered for the same queue.
Renumber(c) ==
  /\ lastRid < MaxRid
  /\ lastRid' = lastRid + 1
  /\ rid' = [rid EXCEPT ![c] = lastRid']
  /\ responses' = [responses EXCEPT ![lastRid'] = c]

Resend(c) ==
  /\ SendUp(TheRequest(rid'[c], user'[c]))
  /\ phase' = [phase EXCEPT ![c] = "waiting"]

\* Variant: the ID the peer forgot is not registered again.
AskAnew_Unregistered(c) ==
  /\ UNCHANGED <<rid, user, lastRid, responses>>
  /\ Resend(c)

\* The peer does not know the request: it is sent again under its ID.
AskAnew(c) ==
  /\ responses' = [responses EXCEPT ![rid[c]] = c]
  /\ UNCHANGED <<rid, user, lastRid>>
  /\ Resend(c)

\* The call goes on after a message that does not end it.
GoOn(c, kind) ==
  \/ /\ kind = "user"
     /\ Renumber(c)
     /\ user' = [user EXCEPT ![c] = TRUE]
     /\ Resend(c)
  \/ /\ kind = "again"
     /\ Renumber(c)
     /\ phase' = [phase EXCEPT ![c] = "sleeping"]
     /\ UNCHANGED <<user, up>>
  \/ /\ kind = "invalid"
     /\ AskAnew(c)
  \/ /\ kind = "delay"
     /\ UNCHANGED <<phase, rid, user, responses, lastRid, up>>
  \/ /\ kind = "reset"
     /\ UNCHANGED <<rid, user, lastRid, responses>>
     /\ Resend(c)

\* The call takes a message from its queue.
TakeMessage(c) ==
  /\ phase[c] = "waiting"
  /\ inbox[c] # <<>>
  /\ LET kind == Head(inbox[c]) IN
     \/ /\ kind = "final"
        /\ Finish(c, "returned")
        /\ UNCHANGED <<rid, user, lastRid, responses>>
     \/ /\ GoOn(c, kind)
        /\ inbox' = [inbox EXCEPT ![c] = Tail(@)]
  /\ UNCHANGED <<down, peer, faults>>

\* asyncio.timeout expired, with nothing to take from the queue.  A message that
\* arrives as it expires is the same as one that arrives after it.
TimedOut(c) == phase[c] = "waiting" /\ inbox[c] = <<>>

\* No message is under way, and no task is at work or about to be.
Silent == up = <<>> /\ down = <<>> /\ ready = <<>>
Settled == Silent /\ \A t \in Task : task[t].state = "free"

\* A timer is never sooner than the answer, but for a few faults.
InTime(due) == IF due THEN UNCHANGED faults ELSE Fault

\* The query timeout, before the retry timeout: how is the request doing?
QueryTimeout(c) ==
  /\ TimedOut(c)
  /\ InTime(Silent)
  /\ SendUp(AbortOf(c, FALSE))
  /\ UNCHANGED <<caller, down, peer>>

\* The retry timeout, or the end of the sleep after "try again later".
RetryTimeout(c) ==
  /\ TimedOut(c) \/ phase[c] = "sleeping"
  /\ InTime(Settled \/ phase[c] = "sleeping")
  /\ UNCHANGED <<rid, user, inbox, responses, lastRid, down, peer>>
  /\ Resend(c)

\* The application gives the call up.  A request that is still registered is
\* aborted, and stays registered until the abort is sent.
Cancel(c) ==
  /\ InCall(c)
  /\ Finish(c, "cancelled")
  /\ UNCHANGED <<rid, user, lastRid, responses, down, peer, faults>>

\* Variant: nothing is deleted once the abort is sent.
AbortSent_KeepsId(c) ==
  /\ phase[c] = "aborting"
  /\ phase' = [phase EXCEPT ![c] = "cancelled"]
  /\ UNCHANGED <<rid, user, inbox, responses, lastRid, up, down, peer, faults>>

\* The rest of the "finally": the registration is deleted, and if it is not
\* there any more that raises KeyError.
AbortSent(c) ==
  /\ phase[c] = "aborting"
  /\ phase' = [phase EXCEPT ![c] = IF responses[rid[c]] = c THEN "cancelled" ELSE "keyerror"]
  /\ responses' = [responses EXCEPT ![rid[c]] = NoCall]
  /\ inbox' = [inbox EXCEPT ![c] = <<>>]
  /\ UNCHANGED <<rid, user, lastRid, up, down, peer, faults>>

\* The call is cancelled once more while it sends the abort.
CancelAgain(c) ==
  /\ phase[c] = "aborting"
  /\ phase' = [phase EXCEPT ![c] = "abandoned"]
  /\ UNCHANGED <<rid, user, inbox, responses, lastRid, up, down, peer, faults>>

\* _reset puts None into every queue under _responses.
WithReset ==
  [c \in Call |-> IF \E r \in Rid : responses[r] = c
                  THEN Append(inbox[c], "reset") ELSE inbox[c]]

\* SHVBase.reset.
CallerResets ==
  /\ Fault
  /\ SendUp(ResetMsg)
  /\ inbox' = WithReset
  /\ UNCHANGED <<phase, rid, user, responses, lastRid, down, peer>>

\* _loop and _message: a response takes the registration away, a delay leaves it.
CallerReceives ==
  /\ Followed
  /\ down # <<>>
  /\ down' = Tail(down)
  /\ LET m == Head(down) IN
     \/ /\ m.type = "reset"
        /\ inbox' = WithReset
        /\ UNCHANGED responses
     \/ /\ m.type = "response"
        /\ inbox' = [c \in Call |-> IF responses[m.rid] = c
                                    THEN Append(inbox[c], m.kind) ELSE inbox[c]]
        /\ responses' = [responses EXCEPT ![m.rid] = NoCall]
     \/ /\ m.type = "delay"
        /\ inbox' = [c \in Call |-> IF responses[m.rid] = c
                                    THEN Append(inbox[c], "delay") ELSE inbox[c]]
        /\ UNCHANGED responses
  /\ UNCHANGED <<phase, rid, user, lastRid, up, peer, faults>>

-----------------------------------------------------------------------------
(* The peer's requests *)

Answer(r, kind) == [type |-> "response", rid |-> r, kind |-> kind]
Respond(r, kind) == SendDown(Answer(r, kind))

\* task.cancel(): a task that is done already is left alone.
Cancelled(ts) ==
  [t \in Task |-> IF t \in ts /\ task[t].state \in {"new", "running"}
                  THEN [task[t] EXCEPT !.state = "cancelled"] ELSE task[t]]

\* A request: a task for it, in the place of any other under its ID.
ReceiveRequest(m) ==
  \E t \in Task :
    /\ task[t].state = "free"
    /\ task' = [task EXCEPT ![t] = [rid |-> m.rid, user |-> m.user, state |-> "new"]]
    /\ table' = [table EXCEPT ![m.rid] = t]
    /\ ready' = Append(ready, [what |-> "step", task |-> t])
    /\ UNCHANGED down

\* A query or an abort, answered at once.
ReceiveAbort(m) ==
  /\ IF table[m.rid] # NoTask /\ ~ m.abort
     THEN /\ SendDown([type |-> "delay", rid |-> m.rid])
          /\ UNCHANGED task
     ELSE /\ Respond(m.rid, "invalid")
          /\ task' = Cancelled({table[m.rid]})
  /\ UNCHANGED <<table, ready>>

PeerReceives ==
  /\ Followed
  /\ up # <<>>
  /\ up' = Tail(up)
  /\ LET m == Head(up) IN
     \/ m.type = "request" /\ ReceiveRequest(m)
     \/ m.type = "abort" /\ ReceiveAbort(m)
     \/ /\ m.type = "reset"
        /\ task' = Cancelled({table[r] : r \in Rid})
        /\ UNCHANGED <<table, ready, down>>
  /\ UNCHANGED <<caller, faults>>

\* SHVBase.reset of the peer.
PeerResets ==
  /\ Fault
  /\ task' = Cancelled({table[r] : r \in Rid})
  /\ SendDown(ResetMsg)
  /\ UNCHANGED <<caller, up, table, ready>>

\* A task is done: its callback is scheduled.
Done(t, rest) ==
  /\ task' = [task EXCEPT ![t].state = "done"]
  /\ ready' = Append(rest, [what |-> "callback", task |-> t])

\* The first step of a task looks its request up in the table, and answers
\* with the KeyError if it is not there.
FirstStep(t, rest) ==
  \/ /\ task[t].state = "cancelled"
     /\ Done(t, rest)
     /\ UNCHANGED down
  \/ /\ task[t].state = "new" /\ table[task[t].rid] = NoTask
     /\ Respond(task[t].rid, "final")
     /\ Done(t, rest)
  \/ /\ task[t].state = "new" /\ table[task[t].rid] # NoTask
     /\ task' = [task EXCEPT ![t].state = "running"]
     /\ ready' = rest
     /\ UNCHANGED down

\* The done callback pops what is under the key of the task's request.
Forget(t) ==
  /\ table' = [table EXCEPT ![task[t].rid] = NoTask]
  /\ task' = [task EXCEPT ![t] = NoRequest]

\* The event loop runs what is ready, in order.
RunReady ==
  /\ Followed
  /\ ready # <<>>
  /\ LET t == Head(ready).task
         rest == Tail(ready)
     IN \/ /\ Head(ready).what = "step"
           /\ FirstStep(t, rest)
           /\ UNCHANGED table
        \/ /\ Head(ready).what = "callback"
           /\ Forget(t)
           /\ ready' = rest
           /\ UNCHANGED down
  /\ UNCHANGED <<caller, up, faults>>

\* The method ends, and its outcome is sent.  An outcome that makes the caller
\* take another ID is bounded by MaxRid, and comes before the last fault.
MethodEnds(t, kind) ==
  /\ Followed
  /\ task[t].state = "running"
  /\ kind = "user" => ~ task[t].user
  /\ kind \in {"again", "user"} =>
       task[t].rid + Cardinality(Call) <= MaxRid /\ faults < MaxFaults
  /\ Respond(task[t].rid, kind)
  /\ Done(t, ready)
  /\ UNCHANGED <<caller, up, table, faults>>

\* A running task is told of its cancellation: it ends without an answer.
MethodCancelled(t) ==
  /\ Followed
  /\ task[t].state = "cancelled"
  /\ [what |-> "step", task |-> t] \notin {ready[k] : k \in DOMAIN ready}
  /\ Done(t, ready)
  /\ UNCHANGED <<caller, up, down, table, faults>>

\* The progress of a request in the table is sent when nothing else is, even
\* after its response; it can wait while another report is under way.
Progress(t) ==
  /\ Followed
  /\ task[t].state \in {"running", "cancelled", "done"}
  /\ table[task[t].rid] = t
  /\ \A k \in DOMAIN down : down[k].type # "delay"
  /\ \A c \in Call : \A k \in DOMAIN inbox[c] : inbox[c][k] # "delay"
  /\ SendDown([type |-> "delay", rid |-> task[t].rid])
  /\ UNCHANGED <<caller, up, peer, faults>>

-----------------------------------------------------------------------------

Lose ==
  /\ Fault
  /\ \/ up # <<>> /\ up' = Tail(up) /\ UNCHANGED down
     \/ down # <<>> /\ down' = Tail(down) /\ UNCHANGED up
  /\ UNCHANGED <<caller, peer>>

Next ==
  \/ \E c \in Call : \/ Start(c)
                     \/ TakeMessage(c)
                     \/ QueryTimeout(c)
                     \/ RetryTimeout(c)
                     \/ Cancel(c)
                     \/ AbortSent(c)
                     \/ CancelAgain(c)
  \/ CallerResets
  \/ CallerReceives
  \/ PeerReceives
  \/ PeerResets
  \/ RunReady
  \/ \E t \in Task : \/ \E kind \in Outcome \ {"invalid"} : MethodEnds(t, kind)
                     \/ MethodCancelled(t)
                     \/ Progress(t)
  \/ Lose

\* asyncio runs what is ready, its timers expire, and a method that runs ends
\* or reacts to its cancellation.
Fairness ==
  /\ WF_vars(RunReady) /\ WF_vars(PeerReceives) /\ WF_vars(CallerReceives)
  /\ \A t \in Task :
       WF_vars(MethodCancelled(t) \/ \E kind \in Outcome \ {"invalid"} : MethodEnds(t, kind))
  /\ \A c \in Call : /\ WF_vars(TakeMessage(c) \/ AbortSent(c))
                     /\ WF_vars(RetryTimeout(c) /\ UNCHANGED faults)

Spec == Init /\ [][Next]_vars /\ Fairness

-----------------------------------------------------------------------------
(* Properties *)

\* Every variable holds what the code's fields may hold.
TypeOK ==
  /\ phase \in [Call -> {"idle", "waiting", "sleeping", "returned",
                      "aborting", "cancelled", "keyerror", "abandoned"}]
  /\ rid \in [Call -> Rid \cup {NoRid}]
  /\ user \in [Call -> BOOLEAN]
  /\ inbox \in [Call -> Seq(Outcome \cup {"delay", "reset"})]
  /\ responses \in [Rid -> Call \cup {NoCall}]
  /\ lastRid \in 0 .. MaxRid
  /\ up \in Seq(Up)
  /\ down \in Seq(Down)
  /\ table \in [Rid -> Task \cup {NoTask}]
  /\ task \in [Task -> [rid : Rid \cup {NoRid}, user : BOOLEAN,
                        state : {"free", "new", "running", "cancelled", "done"}]]
  /\ ready \in Seq([what : {"step", "callback"}, task : Task])
  /\ faults \in 0 .. MaxFaults

\* A request ID is registered only by the call that uses it now, and by none
\* that returned, raised or was cancelled once: nothing is left in _responses
\* to catch the response of a later request.
RegisteredIsCurrent ==
  \A r \in Rid : responses[r] # NoCall =>
    /\ rid[responses[r]] = r
    /\ phase[responses[r]] \in {"waiting", "sleeping", "aborting", "abandoned"}

\* A call always has something to wait for: its ID is registered, or what took
\* the registration away is in its queue.
WaitingIsReachable ==
  \A c \in Call : InCall(c) => responses[rid[c]] = c \/ inbox[c] # <<>>

\* A call ends although messages were lost, either side was reset and its
\* requests were sent twice, once no more messages are lost and the timeouts
\* are longer than the answers take.
CallsEnd == \A c \in Call : InCall(c) ~> ~ InCall(c)
=============================================================================
