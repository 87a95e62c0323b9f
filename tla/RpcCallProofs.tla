--------------------------- MODULE RpcCallProofs ---------------------------
(***************************************************************************)
(* Theorems about RpcCall for any number of calls, IDs, tasks and faults.  *)
(* CallInv says how the registration of a call in _responses and the       *)
(* messages in its queue exclude and replace each other.                   *)
(***************************************************************************)
EXTENDS RpcCall, SequenceTheorems, TLAPS

\* A call that began has an ID, and so has the request of a task.
HaveRids ==
  /\ \A c \in Call : phase[c] # "idle" => rid[c] \in Rid
  /\ \A t \in Task : task[t].state # "free" => task[t].rid \in Rid

TypeInv == TypeOK /\ HaveRids

\* IDs were given out up to lastRid, each to one call.
RidsAreUnique ==
  /\ \A c \in Call : rid[c] <= lastRid
  /\ \A c, d \in Call : rid[c] = rid[d] /\ rid[c] # NoRid => c = d

\* What a call finds in its queue is a response only at the end, and then the
\* call is not registered.
ResponseIsLast ==
  \A c \in Call : \A k \in 1 .. Len(inbox[c]) :
    inbox[c][k] \in Outcome =>
      k = Len(inbox[c]) /\ \A r \in Rid : responses[r] # c

\* A call under way is registered or will find a response.
Reachable ==
  \A c \in Call : InCall(c) =>
    \/ responses[rid[c]] = c
    \/ inbox[c] # <<>> /\ inbox[c][Len(inbox[c])] \in Outcome

\* The queue of a call that did not begin is empty.
IdleIsEmpty == \A c \in Call : phase[c] = "idle" => inbox[c] = <<>>

CallInv ==
  RidsAreUnique /\ RegisteredIsCurrent /\ ResponseIsLast /\ Reachable /\ IdleIsEmpty

-----------------------------------------------------------------------------
(* Types *)

\* What the peer's event loop runs next.
Ready == [what : {"step", "callback"}, task : Task]

LEMMA HeadAndTail ==
  ASSUME NEW S, NEW s \in Seq(S), s # <<>>
  PROVE  Head(s) \in S /\ Tail(s) \in Seq(S)
  OBVIOUS

\* What is sent has a type, and so do the channels after it.
LEMMA SendsAreTyped ==
  ASSUME TypeOK
  PROVE  /\ \A m \in Up : SendUp(m) => up' \in Seq(Up)
         /\ \A m \in Down : SendDown(m) => down' \in Seq(Down)
         /\ up # <<>> => Head(up) \in Up /\ Tail(up) \in Seq(Up)
         /\ down # <<>> => Head(down) \in Down /\ Tail(down) \in Seq(Down)
<1>1. \A m \in Up : SendUp(m) => up' \in Seq(Up)
  BY DEF TypeOK, SendUp
<1>2. \A m \in Down : SendDown(m) => down' \in Seq(Down)
  BY DEF TypeOK, SendDown
<1>3. up \in Seq(Up) /\ down \in Seq(Down)
  BY DEF TypeOK
<1> QED BY <1>1, <1>2, <1>3, HeadAndTail

\* What call and the peer send.
LEMMA MessagesAreTyped ==
  /\ \A r \in Rid, b \in BOOLEAN : TheRequest(r, b) \in Up
  /\ \A r \in Rid, k \in Outcome : Answer(r, k) \in Down
  /\ \A r \in Rid : [type |-> "delay", rid |-> r] \in Down
  /\ ResetMsg \in Up /\ ResetMsg \in Down
  /\ \A c \in Call, b \in BOOLEAN : rid[c] \in Rid => AbortOf(c, b) \in Up
  BY DEF TheRequest, Answer, ResetMsg, AbortOf, Up, Down, Request, Abort, Response, Delay

\* A message is of the kind its type says.
LEMMA TypeTellsKind ==
  /\ \A m \in Up : /\ m.type = "request" => m.rid \in Rid /\ m.user \in BOOLEAN
                   /\ m.type = "abort" => m.rid \in Rid /\ m.abort \in BOOLEAN
  /\ \A m \in Down : /\ m.type = "response" => m.rid \in Rid /\ m.kind \in Outcome
                     /\ m.type = "delay" => m.rid \in Rid
  BY DEF Up, Down, Request, Abort, Response, Delay, ResetMsg

\* The initial state has the types.
LEMMA TypeInit == Init => TypeInv
  BY RpcCallAssumption
  DEF Init, TypeInv, TypeOK, HaveRids, NoRequest, Rid, NoRid

LEMMA CancelledIsTyped ==
  ASSUME TypeOK, NEW ts
  PROVE  /\ Cancelled(ts) \in [Task -> [rid : Rid \cup {NoRid}, user : BOOLEAN,
                        state : {"free", "new", "running", "cancelled", "done"}]]
         /\ \A t \in Task : /\ Cancelled(ts)[t].rid = task[t].rid
                            /\ Cancelled(ts)[t].state = "free" <=> task[t].state = "free"
  BY DEF TypeOK, Cancelled

LEMMA CallerKeepsTypes ==
  ASSUME TypeInv, NEW c \in Call,
         \/ Start(c) \/ TakeMessage(c) \/ QueryTimeout(c) \/ RetryTimeout(c)
         \/ Cancel(c) \/ AbortSent(c) \/ CancelAgain(c)
  PROVE  TypeInv'
<1> USE DEF TypeInv
<1>t. UNCHANGED <<down, table, task, ready>>
  BY DEF Start, TakeMessage, QueryTimeout, RetryTimeout, Cancel, AbortSent, CancelAgain, peer
<1>1. CASE Start(c)
  <2>1. lastRid' \in Rid /\ lastRid' \in 0 .. MaxRid
    BY <1>1, RpcCallAssumption DEF Start, TypeOK, Rid
  <2>2. up' \in Seq(Up)
    BY <1>1, <2>1, SendsAreTyped, MessagesAreTyped DEF Start
  <2> QED
    BY <1>1, <1>t, <2>1, <2>2 DEF Start, TypeOK, HaveRids
<1>2. CASE TakeMessage(c)
  <2>1. /\ rid[c] \in Rid /\ Head(inbox[c]) \in Outcome \cup {"delay", "reset"}
        /\ Tail(inbox[c]) \in Seq(Outcome \cup {"delay", "reset"})
    BY <1>2 DEF TakeMessage, TypeOK, HaveRids
  <2>2. CASE Finish(c, "returned") /\ UNCHANGED <<rid, user, lastRid, responses>>
    <3>1. up' \in Seq(Up)
      BY <2>1, <2>2, SendsAreTyped, MessagesAreTyped DEF Finish, TypeOK
    <3> QED
      BY <1>2, <1>t, <2>1, <2>2, <3>1 DEF TakeMessage, Finish, TypeOK, HaveRids
  <2>3. ASSUME NEW kind \in Outcome \cup {"delay", "reset"}, GoOn(c, kind),
               inbox' = [inbox EXCEPT ![c] = Tail(@)]
        PROVE  TypeInv'
    <3>1. /\ inbox' \in [Call -> Seq(Outcome \cup {"delay", "reset"})]
          /\ faults' \in 0 .. MaxFaults
      BY <1>2, <2>1, <2>3 DEF TypeOK, TakeMessage
    <3>2. /\ rid' \in [Call -> Rid \cup {NoRid}] /\ rid'[c] \in Rid
          /\ \A d \in Call \ {c} : rid'[d] = rid[d]
          /\ user' \in [Call -> BOOLEAN]
          /\ responses' \in [Rid -> Call \cup {NoCall}]
          /\ lastRid' \in 0 .. MaxRid
      <4>1. CASE Renumber(c) /\ (user' = [user EXCEPT ![c] = TRUE] \/ UNCHANGED user)
        <5>1. lastRid' \in Rid /\ lastRid' \in 0 .. MaxRid
          BY <4>1, RpcCallAssumption DEF Renumber, TypeOK, Rid
        <5> QED BY <4>1, <5>1 DEF Renumber, TypeOK
      <4>2. CASE /\ UNCHANGED <<rid, user, lastRid>>
                 /\ responses' = [responses EXCEPT ![rid[c]] = c] \/ UNCHANGED responses
        BY <4>2, <2>1 DEF TypeOK
      <4> QED BY <2>3, <4>1, <4>2 DEF GoOn, AskAnew
    <3>3. /\ phase' \in [Call -> {"idle", "waiting", "sleeping", "returned",
                      "aborting", "cancelled", "keyerror", "abandoned"}]
          /\ \A d \in Call \ {c} : phase'[d] = phase[d]
      BY <2>3 DEF GoOn, AskAnew, Resend, TypeOK
    <3>4. up' \in Seq(Up)
      BY <2>3, <3>2, SendsAreTyped, MessagesAreTyped DEF GoOn, AskAnew, Resend, TypeOK
    <3> QED
      BY <1>t, <3>1, <3>2, <3>3, <3>4 DEF TypeOK, HaveRids
  <2> QED BY <1>2, <2>1, <2>2, <2>3 DEF TakeMessage
<1>3. CASE QueryTimeout(c)
  <2>1. rid[c] \in Rid
    BY <1>3 DEF QueryTimeout, TimedOut, HaveRids
  <2>2. up' \in Seq(Up)
    BY <1>3, <2>1, SendsAreTyped, MessagesAreTyped DEF QueryTimeout
  <2>3. faults' \in 0 .. MaxFaults
    BY <1>3, RpcCallAssumption DEF QueryTimeout, InTime, Fault, TypeOK
  <2> QED BY <1>3, <1>t, <2>2, <2>3 DEF QueryTimeout, caller, TypeOK, HaveRids
<1>4. CASE RetryTimeout(c)
  <2>1. rid[c] \in Rid /\ rid'[c] \in Rid /\ user'[c] \in BOOLEAN
    BY <1>4 DEF RetryTimeout, TimedOut, HaveRids, TypeOK
  <2>2. up' \in Seq(Up)
    BY <1>4, <2>1, SendsAreTyped, MessagesAreTyped DEF RetryTimeout, Resend
  <2>3. faults' \in 0 .. MaxFaults
    BY <1>4, RpcCallAssumption DEF RetryTimeout, InTime, Fault, TypeOK
  <2> QED BY <1>4, <1>t, <2>1, <2>2, <2>3 DEF RetryTimeout, Resend, TypeOK, HaveRids
<1>5. CASE Cancel(c)
  <2>1. rid[c] \in Rid
    BY <1>5 DEF Cancel, InCall, HaveRids
  <2>2. up' \in Seq(Up)
    BY <1>5, <2>1, SendsAreTyped, MessagesAreTyped DEF Cancel, Finish, TypeOK
  <2>3. /\ phase' \in [Call -> {"idle", "waiting", "sleeping", "returned",
                      "aborting", "cancelled", "keyerror", "abandoned"}]
        /\ \A d \in Call \ {c} : phase'[d] = phase[d]
        /\ inbox' \in [Call -> Seq(Outcome \cup {"delay", "reset"})]
    BY <1>5 DEF Cancel, Finish, TypeOK
  <2> QED BY <1>5, <1>t, <2>1, <2>2, <2>3 DEF Cancel, TypeOK, HaveRids
<1>6. CASE AbortSent(c)
  <2>1. /\ phase' \in [Call -> {"idle", "waiting", "sleeping", "returned",
                      "aborting", "cancelled", "keyerror", "abandoned"}]
        /\ \A d \in Call \ {c} : phase'[d] = phase[d]
    BY <1>6 DEF AbortSent, TypeOK
  <2>3. inbox' \in [Call -> Seq(Outcome \cup {"delay", "reset"})]
    BY <1>6 DEF AbortSent, TypeOK
  <2>4. responses' \in [Rid -> Call \cup {NoCall}]
    BY <1>6 DEF AbortSent, TypeOK
  <2>2. rid[c] \in Rid /\ UNCHANGED <<rid, user, lastRid, up, faults>>
    BY <1>6 DEF AbortSent, HaveRids
  <2> QED BY <1>t, <2>1, <2>2, <2>3, <2>4 DEF TypeOK, HaveRids
<1>7. CASE CancelAgain(c)
  <2>1. /\ phase' \in [Call -> {"idle", "waiting", "sleeping", "returned",
                      "aborting", "cancelled", "keyerror", "abandoned"}]
        /\ \A d \in Call \ {c} : phase'[d] = phase[d]
    BY <1>7 DEF CancelAgain, TypeOK
  <2>2. rid[c] \in Rid /\ UNCHANGED <<rid, user, inbox, responses, lastRid, up, faults>>
    BY <1>7 DEF CancelAgain, HaveRids
  <2> QED BY <1>t, <2>1, <2>2 DEF TypeOK, HaveRids
<1> QED BY <1>1, <1>2, <1>3, <1>4, <1>5, <1>6, <1>7

LEMMA ResetsKeepTypes ==
  ASSUME TypeInv, CallerResets \/ CallerReceives \/ Lose
  PROVE  TypeInv'
<1> USE DEF TypeInv
<1>1. WithReset \in [Call -> Seq(Outcome \cup {"delay", "reset"})]
  BY DEF WithReset, TypeOK
<1>2. CASE CallerResets
  <2>1. up' \in Seq(Up) /\ faults' \in 0 .. MaxFaults
    BY <1>2, SendsAreTyped, MessagesAreTyped, RpcCallAssumption
    DEF CallerResets, Fault, TypeOK
  <2> QED BY <1>1, <1>2, <2>1 DEF CallerResets, peer, TypeOK, HaveRids
<1>3. CASE CallerReceives
  <2>1. Head(down) \in Down /\ down' \in Seq(Down)
    BY <1>3, SendsAreTyped DEF CallerReceives
  <2>2. /\ inbox' \in [Call -> Seq(Outcome \cup {"delay", "reset"})]
        /\ responses' \in [Rid -> Call \cup {NoCall}]
    <3>1. CASE inbox' = WithReset /\ UNCHANGED responses
      BY <3>1, <1>1 DEF TypeOK
    <3>2. ASSUME NEW r \in Rid, NEW k \in Outcome \cup {"delay"},
                 inbox' = [d \in Call |-> IF responses[r] = d
                                         THEN Append(inbox[d], k) ELSE inbox[d]],
                 responses' = [responses EXCEPT ![r] = NoCall] \/ UNCHANGED responses
          PROVE  /\ inbox' \in [Call -> Seq(Outcome \cup {"delay", "reset"})]
                 /\ responses' \in [Rid -> Call \cup {NoCall}]
      <4>1. responses' \in [Rid -> Call \cup {NoCall}]
        BY <3>2 DEF TypeOK
      <4>2. ASSUME NEW d \in Call
            PROVE  Append(inbox[d], k) \in Seq(Outcome \cup {"delay", "reset"})
        <5>1. inbox[d] \in Seq(Outcome \cup {"delay", "reset"})
          BY DEF TypeOK
        <5> QED BY <5>1
      <4>3. inbox' \in [Call -> Seq(Outcome \cup {"delay", "reset"})]
        BY <3>2, <4>2 DEF TypeOK
      <4> QED BY <4>1, <4>3
    <3>3. \/ inbox' = WithReset /\ UNCHANGED responses
          \/ \E r \in Rid, k \in Outcome \cup {"delay"} :
               /\ inbox' = [d \in Call |-> IF responses[r] = d
                                           THEN Append(inbox[d], k) ELSE inbox[d]]
               /\ responses' = [responses EXCEPT ![r] = NoCall] \/ UNCHANGED responses
      <4> DEFINE m == Head(down)
      <4>1. CASE m.type = "reset"
        BY <1>3, <2>1, <4>1, TypeTellsKind DEF CallerReceives
      <4>2. CASE m.type = "response"
        <5>1. m.rid \in Rid /\ m.kind \in Outcome
          BY <2>1, <4>2, TypeTellsKind
        <5>2. /\ inbox' = [d \in Call |-> IF responses[m.rid] = d
                                          THEN Append(inbox[d], m.kind) ELSE inbox[d]]
              /\ responses' = [responses EXCEPT ![m.rid] = NoCall]
          BY <1>3, <4>2 DEF CallerReceives
        <5> HIDE DEF m
        <5> QED BY <5>1, <5>2
      <4>3. CASE m.type = "delay"
        <5>1. m.rid \in Rid
          BY <2>1, <4>3, TypeTellsKind
        <5>2. /\ inbox' = [d \in Call |-> IF responses[m.rid] = d
                                          THEN Append(inbox[d], "delay") ELSE inbox[d]]
              /\ UNCHANGED responses
          BY <1>3, <4>3 DEF CallerReceives
        <5> HIDE DEF m
        <5> QED BY <5>1, <5>2
      <4>4. m.type \in {"reset", "response", "delay"}
        BY <1>3 DEF CallerReceives
      <4> QED BY <4>1, <4>2, <4>3, <4>4
    <3> QED BY <3>1, <3>2, <3>3
  <2>3. UNCHANGED <<phase, rid, user, lastRid, up, table, task, ready, faults>>
    BY <1>3 DEF CallerReceives, peer
  <2>4. HaveRids'
    BY <2>3 DEF HaveRids
  <2>5. TypeOK'
    BY <2>1, <2>2, <2>3 DEF TypeOK
  <2> QED BY <2>4, <2>5
<1>4. CASE Lose
  <2>1. up' \in Seq(Up) /\ down' \in Seq(Down)
    <3>1. up \in Seq(Up) /\ down \in Seq(Down)
      BY DEF TypeOK
    <3> QED BY <1>4, <3>1, SendsAreTyped DEF Lose
  <2>2. faults' \in 0 .. MaxFaults
    BY <1>4, RpcCallAssumption DEF Lose, Fault, TypeOK
  <2> QED BY <1>4, <2>1, <2>2 DEF Lose, caller, peer, TypeOK, HaveRids
<1> QED BY <1>2, <1>3, <1>4

\* The state of the peer alone has its types.
PeerTyped ==
  /\ table \in [Rid -> Task \cup {NoTask}]
  /\ task \in [Task -> [rid : Rid \cup {NoRid}, user : BOOLEAN,
                        state : {"free", "new", "running", "cancelled", "done"}]]
  /\ ready \in Seq([what : {"step", "callback"}, task : Task])
  /\ \A t \in Task : task[t].state # "free" => task[t].rid \in Rid

LEMMA DoneIsTyped ==
  ASSUME TypeInv, NEW t \in Task, task[t].rid \in Rid,
         NEW rest \in Seq([what : {"step", "callback"}, task : Task]),
         Done(t, rest), UNCHANGED table
  PROVE  PeerTyped'
<1>1. ready' \in Seq([what : {"step", "callback"}, task : Task])
  BY DEF Done
<1>2. task' \in [Task -> [rid : Rid \cup {NoRid}, user : BOOLEAN,
                        state : {"free", "new", "running", "cancelled", "done"}]]
  <2> DEFINE Kept == [rid : Rid \cup {NoRid}, user : BOOLEAN,
                      state : {"free", "new", "running", "cancelled", "done"}]
  <2>1. task \in [Task -> Kept]
    BY DEF TypeInv, TypeOK
  <2>2. [task[t] EXCEPT !.state = "done"] \in Kept
    <3>1. task[t] \in Kept
      BY <2>1
    <3> QED BY <3>1
  <2>3. task' = [task EXCEPT ![t] = [task[t] EXCEPT !.state = "done"]]
    BY <2>1 DEF Done
  <2> HIDE DEF Kept
  <2>4. task' \in [Task -> Kept]
    BY <2>1, <2>2, <2>3
  <2> QED BY <2>4 DEF Kept
<1>3. table' \in [Rid -> Task \cup {NoTask}]
  BY DEF TypeInv, TypeOK
<1>4. \A u \in Task : task'[u].rid = task[u].rid /\ (u # t => task'[u].state = task[u].state)
  BY DEF Done, TypeInv, TypeOK
<1>5. \A u \in Task : task'[u].state # "free" => task'[u].rid \in Rid
  BY <1>4 DEF TypeInv, HaveRids
<1> QED BY <1>1, <1>2, <1>3, <1>5 DEF PeerTyped

LEMMA PeerKeepsTypes ==
  ASSUME TypeInv,
         \/ PeerReceives \/ PeerResets \/ RunReady
         \/ \E t \in Task : \/ \E kind \in Outcome \ {"invalid"} : MethodEnds(t, kind)
                            \/ MethodCancelled(t)
                            \/ Progress(t)
  PROVE  TypeInv'
<1>0. SUFFICES PeerTyped' /\ up' \in Seq(Up) /\ down' \in Seq(Down)
               /\ faults' \in 0 .. MaxFaults
  <2>1. UNCHANGED caller
    BY DEF PeerReceives, PeerResets, RunReady, MethodEnds, MethodCancelled, Progress
  <2> QED BY <2>1 DEF TypeInv, TypeOK, HaveRids, PeerTyped, caller
<1> USE DEF TypeInv
<1>1. CASE PeerReceives
  <2>1. Head(up) \in Up /\ up' \in Seq(Up) /\ faults' \in 0 .. MaxFaults
    BY <1>1, SendsAreTyped DEF PeerReceives, TypeOK
  <2>2. CASE Head(up).type = "request" /\ ReceiveRequest(Head(up))
    <3>1. PICK t \in Task :
             /\ task' = [task EXCEPT ![t] = [rid |-> Head(up).rid, user |-> Head(up).user,
                                            state |-> "new"]]
             /\ table' = [table EXCEPT ![Head(up).rid] = t]
             /\ ready' = Append(ready, [what |-> "step", task |-> t])
             /\ UNCHANGED down
      BY <2>2 DEF ReceiveRequest
    <3>2. Head(up).rid \in Rid /\ Head(up).user \in BOOLEAN
      BY <2>1, <2>2, TypeTellsKind
    <3>3. /\ task' \in [Task -> [rid : Rid \cup {NoRid}, user : BOOLEAN,
                        state : {"free", "new", "running", "cancelled", "done"}]]
          /\ \A u \in Task : task'[u].state # "free" => task'[u].rid \in Rid
      BY <3>1, <3>2 DEF TypeOK, HaveRids
    <3>4. ready' \in Seq([what : {"step", "callback"}, task : Task])
      BY <3>1 DEF TypeOK
    <3>5. table' \in [Rid -> Task \cup {NoTask}]
      BY <3>1, <3>2 DEF TypeOK
    <3>6. PeerTyped'
      BY <3>3, <3>4, <3>5 DEF PeerTyped
    <3> QED BY <2>1, <3>1, <3>6 DEF TypeOK
  <2>3. CASE Head(up).type = "abort" /\ ReceiveAbort(Head(up))
    <3>1. Head(up).rid \in Rid
      BY <2>1, <2>3, TypeTellsKind
    <3>2. down' \in Seq(Down)
      BY <2>3, <3>1, SendsAreTyped, MessagesAreTyped DEF ReceiveAbort, Respond, Outcome
    <3>3. PeerTyped'
      BY <2>3, CancelledIsTyped DEF ReceiveAbort, TypeOK, HaveRids, PeerTyped
    <3> QED BY <2>1, <3>2, <3>3
  <2>4. CASE task' = Cancelled({table[r] : r \in Rid}) /\ UNCHANGED <<table, ready, down>>
    BY <2>1, <2>4, CancelledIsTyped DEF TypeOK, HaveRids, PeerTyped
  <2> QED BY <1>1, <2>2, <2>3, <2>4 DEF PeerReceives
<1>2. CASE PeerResets
  <2>1. down' \in Seq(Down) /\ faults' \in 0 .. MaxFaults
    BY <1>2, SendsAreTyped, MessagesAreTyped, RpcCallAssumption DEF PeerResets, Fault, TypeOK
  <2>2. PeerTyped'
    BY <1>2, CancelledIsTyped DEF PeerResets, TypeOK, HaveRids, PeerTyped
  <2> QED BY <1>2, <2>1, <2>2 DEF PeerResets, TypeOK
<1>3. CASE RunReady
  <2>1. /\ Head(ready).task \in Task
        /\ Tail(ready) \in Seq([what : {"step", "callback"}, task : Task])
    <3>1. ready \in Seq(Ready) /\ ready # <<>>
      BY <1>3 DEF RunReady, TypeOK, Ready
    <3>2. Head(ready) \in Ready /\ Tail(ready) \in Seq(Ready)
      BY <3>1, HeadAndTail
    <3> QED BY <3>2 DEF Ready
  <2> DEFINE t == Head(ready).task
  <2> HIDE DEF t
  <2>2. CASE FirstStep(t, Tail(ready)) /\ UNCHANGED table
    <3>1. task[t].rid \in Rid
      BY <2>1, <2>2 DEF FirstStep, HaveRids, t
    <3>2. down' \in Seq(Down)
      BY <2>2, <3>1, SendsAreTyped, MessagesAreTyped DEF FirstStep, Respond, Outcome, TypeOK
    <3>3. PeerTyped'
      <4>1. CASE Done(t, Tail(ready))
        BY <2>1, <2>2, <3>1, <4>1, DoneIsTyped DEF t
      <4>2. CASE task' = [task EXCEPT ![t].state = "running"] /\ ready' = Tail(ready)
        <5>1. t \in Task /\ ready' \in Seq([what : {"step", "callback"}, task : Task])
          BY <2>1, <4>2 DEF t
        <5>2. /\ task' \in [Task -> [rid : Rid \cup {NoRid}, user : BOOLEAN,
                        state : {"free", "new", "running", "cancelled", "done"}]]
              /\ \A u \in Task : task'[u].rid = task[u].rid
              /\ \A u \in Task \ {t} : task'[u].state = task[u].state
          BY <4>2, <5>1 DEF TypeOK
        <5>3. table' \in [Rid -> Task \cup {NoTask}]
          BY <2>2 DEF TypeOK
        <5> QED BY <3>1, <5>1, <5>2, <5>3 DEF HaveRids, PeerTyped
      <4> QED BY <2>2, <4>1, <4>2 DEF FirstStep
    <3> QED BY <1>3, <3>2, <3>3 DEF RunReady, TypeOK
  <2>3. CASE Forget(t) /\ ready' = Tail(ready) /\ UNCHANGED down
    <3>1. PeerTyped'
      BY <2>1, <2>3 DEF Forget, NoRequest, TypeOK, HaveRids, PeerTyped, t
    <3> QED BY <1>3, <2>3, <3>1 DEF RunReady, TypeOK
  <2> QED BY <1>3, <2>2, <2>3 DEF RunReady, t
<1>4. ASSUME NEW t \in Task,
             \/ \E kind \in Outcome \ {"invalid"} : MethodEnds(t, kind)
             \/ MethodCancelled(t)
      PROVE  PeerTyped' /\ up' \in Seq(Up) /\ down' \in Seq(Down)
             /\ faults' \in 0 .. MaxFaults
  <2>1. /\ task[t].rid \in Rid /\ Done(t, ready)
        /\ UNCHANGED <<up, table, faults>>
    BY <1>4 DEF MethodEnds, MethodCancelled, HaveRids
  <2>2. PeerTyped'
    BY <2>1, DoneIsTyped DEF TypeOK
  <2>3. down' \in Seq(Down)
    BY <1>4, <2>1, SendsAreTyped, MessagesAreTyped
    DEF MethodEnds, MethodCancelled, Respond, TypeOK
  <2> QED BY <2>1, <2>2, <2>3 DEF TypeOK
<1>5. ASSUME NEW t \in Task, Progress(t)
      PROVE  PeerTyped' /\ up' \in Seq(Up) /\ down' \in Seq(Down)
             /\ faults' \in 0 .. MaxFaults
  <2>1. task[t].rid \in Rid
    BY <1>5 DEF Progress, HaveRids
  <2>2. down' \in Seq(Down)
    BY <1>5, <2>1, SendsAreTyped, MessagesAreTyped DEF Progress
  <2> QED BY <1>5, <2>2 DEF Progress, peer, PeerTyped, TypeOK, HaveRids
<1> QED BY <1>1, <1>2, <1>3, <1>4, <1>5

LEMMA TypesAreKept == TypeInv /\ [Next]_vars => TypeInv'
<1> SUFFICES ASSUME TypeInv, [Next]_vars PROVE TypeInv'
  OBVIOUS
<1>1. CASE UNCHANGED vars
  BY <1>1 DEF vars, caller, peer, TypeInv, TypeOK, HaveRids
<1>2. CASE Next
  BY <1>2, CallerKeepsTypes, ResetsKeepTypes, PeerKeepsTypes DEF Next
<1> QED BY <1>1, <1>2

\* Every variable holds what the code's fields may hold, for any number of
\* calls, tasks and faults.
THEOREM TypeCorrect == Spec => []TypeOK
<1>1. TypeInv => TypeOK
  BY DEF TypeInv
<1> QED BY <1>1, TypeInit, TypesAreKept, PTL DEF Spec
-----------------------------------------------------------------------------
(* The registrations *)

LEMMA CallInit == Init => CallInv
  BY RpcCallAssumption DEF Init, CallInv, RidsAreUnique, RegisteredIsCurrent, ResponseIsLast,
     Reachable, InCall, IdleIsEmpty, Rid, NoRid

\* Steps that touch neither the registrations nor the queues, and let no call
\* begin or end.
LEMMA SameCalls ==
  ASSUME TypeInv, CallInv, UNCHANGED <<rid, inbox, responses, lastRid>>,
         \A c \in Call : /\ InCall(c)' => InCall(c)
                         /\ phase'[c] = "idle" => phase[c] = "idle"
                         /\ phase[c] \in {"waiting", "sleeping", "aborting", "abandoned"}
                              => phase'[c] \in {"waiting", "sleeping", "aborting", "abandoned"}
  PROVE  CallInv'
<1>1. RidsAreUnique'
  BY DEF CallInv, RidsAreUnique
<1>2. RegisteredIsCurrent'
  <2>1. \A r \in Rid : responses[r] # NoCall => responses[r] \in Call
    BY DEF TypeInv, TypeOK
  <2> QED BY <2>1 DEF CallInv, RegisteredIsCurrent
<1>3. ResponseIsLast'
  BY DEF CallInv, ResponseIsLast
<1>4. Reachable'
  BY DEF CallInv, Reachable
<1>5. IdleIsEmpty'
  BY DEF CallInv, IdleIsEmpty
<1> QED BY <1>1, <1>2, <1>3, <1>4, <1>5 DEF CallInv

\* A call that is not registered takes the next ID, with an empty queue.
LEMMA NextId ==
  ASSUME TypeInv, CallInv, NEW c \in Call,
         lastRid < MaxRid, lastRid' = lastRid + 1, rid' = [rid EXCEPT ![c] = lastRid'],
         responses' = [responses EXCEPT ![lastRid'] = c], inbox'[c] = <<>>,
         \A d \in Call \ {c} : inbox'[d] = inbox[d] /\ phase'[d] = phase[d],
         \A r \in Rid : responses[r] # c, phase'[c] \in {"waiting", "sleeping"}
  PROVE  CallInv'
<1>t. /\ phase \in [Call -> {"idle", "waiting", "sleeping", "returned",
                      "aborting", "cancelled", "keyerror", "abandoned"}]
      /\ rid \in [Call -> Rid \cup {NoRid}]
      /\ inbox \in [Call -> Seq(Outcome \cup {"delay", "reset"})]
      /\ responses \in [Rid -> Call \cup {NoCall}]
      /\ lastRid \in 0 .. MaxRid
      /\ \A r \in Rid : r \in Int /\ r # NoRid
  BY RpcCallAssumption DEF TypeInv, TypeOK, Rid, NoRid
<1>h. \A d \in Call : phase[d] # "idle" => rid[d] \in Rid
  BY DEF TypeInv, HaveRids
<1>u. \A d, e \in Call : rid[d] = rid[e] /\ rid[d] # NoRid => d = e
  BY DEF CallInv, RidsAreUnique
<1>1. lastRid' \in Rid /\ \A d \in Call : rid[d] # lastRid'
  BY <1>t, RpcCallAssumption DEF CallInv, RidsAreUnique, Rid
<1>2. RidsAreUnique'
  <2>1. \A d \in Call : rid[d] <= lastRid /\ rid[d] \in Int
    BY <1>t DEF CallInv, RidsAreUnique, Rid, NoRid
  <2>2. \A d \in Call : rid'[d] = IF d = c THEN lastRid + 1 ELSE rid[d]
    BY <1>t
  <2>3. \A d \in Call : rid'[d] <= lastRid'
    BY <2>1, <2>2, <1>t
  <2>4. \A d, e \in Call : rid'[d] = rid'[e] /\ rid'[d] # NoRid => d = e
    BY <2>2, <1>1, <1>u
  <2> QED BY <2>3, <2>4 DEF RidsAreUnique
<1>3. RegisteredIsCurrent'
  BY <1>t, <1>1 DEF CallInv, RegisteredIsCurrent
<1>4. ResponseIsLast'
  <2> SUFFICES ASSUME NEW d \in Call, NEW k \in 1 .. Len(inbox'[d]), inbox'[d][k] \in Outcome
               PROVE  k = Len(inbox'[d]) /\ \A r \in Rid : responses'[r] # d
    BY DEF ResponseIsLast
  <2>1. d # c
    OBVIOUS
  <2> QED BY <1>t, <1>1, <2>1 DEF CallInv, ResponseIsLast
<1>5. Reachable'
  <2> SUFFICES ASSUME NEW d \in Call, InCall(d)'
               PROVE  \/ responses'[rid'[d]] = d
                      \/ inbox'[d] # <<>> /\ inbox'[d][Len(inbox'[d])] \in Outcome
    BY DEF Reachable
  <2>1. CASE d = c
    BY <1>t, <1>1, <2>1
  <2>2. CASE d # c
    <3>1. InCall(d) /\ rid'[d] = rid[d] /\ rid[d] \in Rid /\ inbox'[d] = inbox[d]
      BY <1>t, <1>h, <2>2 DEF InCall
    <3>2. responses'[rid[d]] = responses[rid[d]]
      BY <1>t, <1>1, <3>1
    <3> QED BY <3>1, <3>2 DEF CallInv, Reachable
  <2> QED BY <2>1, <2>2
<1>6. IdleIsEmpty'
  BY DEF CallInv, IdleIsEmpty
<1> QED BY <1>2, <1>3, <1>4, <1>5, <1>6 DEF CallInv

\* The registration of one call changes in its own entry, IDs stay.
LEMMA OwnEntry ==
  ASSUME TypeInv, CallInv, NEW c \in Call,
         UNCHANGED <<rid, lastRid>>, rid[c] \in Rid,
         responses' \in {responses, [responses EXCEPT ![rid[c]] = c],
                        [responses EXCEPT ![rid[c]] = NoCall]},
         \A d \in Call \ {c} : inbox'[d] = inbox[d] /\ phase'[d] = phase[d],
         phase'[c] # "idle",
         responses'[rid[c]] = c =>
           /\ phase'[c] \in {"waiting", "sleeping", "aborting", "abandoned"}
           /\ \A k \in 1 .. Len(inbox'[c]) : inbox'[c][k] \notin Outcome,
         \A k \in 1 .. Len(inbox'[c]) : inbox'[c][k] \in Outcome => k = Len(inbox'[c]),
         InCall(c)' => \/ responses'[rid[c]] = c
                       \/ inbox'[c] # <<>> /\ inbox'[c][Len(inbox'[c])] \in Outcome
  PROVE  CallInv'
<1>t. /\ phase \in [Call -> {"idle", "waiting", "sleeping", "returned",
                      "aborting", "cancelled", "keyerror", "abandoned"}]
      /\ rid \in [Call -> Rid \cup {NoRid}]
      /\ inbox \in [Call -> Seq(Outcome \cup {"delay", "reset"})]
      /\ responses \in [Rid -> Call \cup {NoCall}]
      /\ lastRid \in 0 .. MaxRid
      /\ \A r \in Rid : r \in Int /\ r # NoRid
  BY RpcCallAssumption DEF TypeInv, TypeOK, Rid, NoRid
<1>h. \A d \in Call : phase[d] # "idle" => rid[d] \in Rid
  BY DEF TypeInv, HaveRids
<1>u. \A d, e \in Call : rid[d] = rid[e] /\ rid[d] # NoRid => d = e
  BY DEF CallInv, RidsAreUnique
<1>1. RidsAreUnique'
  BY DEF CallInv, RidsAreUnique
<1>2. \A r \in Rid : r # rid[c] => responses'[r] = responses[r] /\ responses[r] # c
  BY <1>t, RpcCallAssumption DEF CallInv, RegisteredIsCurrent
<1>3. responses'[rid[c]] \in {c, NoCall}
  <2>1. responses[rid[c]] \in {c, NoCall}
    BY <1>t, <1>u DEF CallInv, RegisteredIsCurrent
  <2> QED BY <1>t, <2>1
<1>4. RegisteredIsCurrent'
  <2> SUFFICES ASSUME NEW r \in Rid, responses'[r] # NoCall
               PROVE  /\ rid'[responses'[r]] = r
                      /\ phase'[responses'[r]] \in {"waiting", "sleeping", "aborting", "abandoned"}
    BY DEF RegisteredIsCurrent
  <2>1. CASE r = rid[c]
    BY <1>3, <2>1
  <2>2. CASE r # rid[c]
    BY <1>t, <1>2, <2>2 DEF CallInv, RegisteredIsCurrent
  <2> QED BY <2>1, <2>2
<1>5. ResponseIsLast'
  <2> SUFFICES ASSUME NEW d \in Call, NEW k \in 1 .. Len(inbox'[d]), inbox'[d][k] \in Outcome
               PROVE  k = Len(inbox'[d]) /\ \A r \in Rid : responses'[r] # d
    BY DEF ResponseIsLast
  <2>1. CASE d = c
    BY <1>2, <2>1
  <2>2. CASE d # c
    <3>1. inbox'[d] = inbox[d]
      BY <2>2
    <3>2. k = Len(inbox[d]) /\ \A r \in Rid : responses[r] # d
      BY <3>1 DEF CallInv, ResponseIsLast
    <3> QED BY <1>2, <1>3, <2>2, <3>1, <3>2, RpcCallAssumption
  <2> QED BY <2>1, <2>2
<1>6. Reachable'
  <2> SUFFICES ASSUME NEW d \in Call, InCall(d)'
               PROVE  \/ responses'[rid'[d]] = d
                      \/ inbox'[d] # <<>> /\ inbox'[d][Len(inbox'[d])] \in Outcome
    BY DEF Reachable
  <2>1. CASE d = c
    BY <2>1
  <2>2. CASE d # c
    <3>1. InCall(d) /\ rid[d] \in Rid /\ rid[d] # rid[c] /\ inbox'[d] = inbox[d]
      BY <1>t, <1>h, <1>u, <2>2 DEF InCall
    <3> QED BY <1>2, <3>1 DEF CallInv, Reachable
  <2> QED BY <2>1, <2>2
<1>7. IdleIsEmpty'
  BY DEF CallInv, IdleIsEmpty
<1> QED BY <1>1, <1>4, <1>5, <1>6, <1>7 DEF CallInv
\* The messages of a queue after the first was taken.
LEMMA TailOf ==
  ASSUME NEW S, NEW s \in Seq(S), s # <<>>
  PROVE  /\ Len(Tail(s)) = Len(s) - 1 /\ Head(s) = s[1]
         /\ \A k \in 1 .. Len(Tail(s)) : k + 1 \in 1 .. Len(s) /\ Tail(s)[k] = s[k + 1]
  OBVIOUS

LEMMA LengthZero ==
  /\ \A k \in 1 .. Len(<<>>) : FALSE
  /\ \A n \in Nat : n >= 1 /\ n # 1 => n - 1 \in 1 .. n - 1 /\ (n - 1) + 1 = n
  OBVIOUS

LEMMA LengthOne ==
  ASSUME NEW S, NEW s \in Seq(S), Len(s) = 1
  PROVE  Tail(s) = <<>>
<1>1. Tail(s) \in Seq(S) /\ Len(Tail(s)) = 0
  OBVIOUS
<1> QED BY <1>1, EmptySeq

LEMMA TakeMessageKeepsCallInv ==
  ASSUME TypeInv, CallInv, NEW c \in Call, TakeMessage(c)
  PROVE  CallInv'
<1> DEFINE Kind == Outcome \cup {"delay", "reset"}
<1>1. /\ inbox[c] \in Seq(Kind) /\ inbox[c] # <<>> /\ inbox \in [Call -> Seq(Kind)]
      /\ phase[c] = "waiting" /\ rid[c] \in Rid
      /\ responses \in [Rid -> Call \cup {NoCall}]
      /\ phase \in [Call -> {"idle", "waiting", "sleeping", "returned",
                      "aborting", "cancelled", "keyerror", "abandoned"}]
  BY DEF TakeMessage, TypeInv, TypeOK, HaveRids
<1> HIDE DEF Kind
<1>2. /\ Len(Tail(inbox[c])) = Len(inbox[c]) - 1 /\ Head(inbox[c]) = inbox[c][1]
      /\ Len(inbox[c]) \in Nat /\ Len(inbox[c]) >= 1
  BY <1>1
<1>7. \A k \in 1 .. Len(Tail(inbox[c])) :
        k + 1 \in 1 .. Len(inbox[c]) /\ Tail(inbox[c])[k] = inbox[c][k + 1]
  BY <1>1, TailOf
<1>3. \A k \in 1 .. Len(inbox[c]) : inbox[c][k] \in Outcome =>
        k = Len(inbox[c]) /\ \A r \in Rid : responses[r] # c
  BY DEF CallInv, ResponseIsLast
\* The head is a response: nothing is behind it, and the call is not registered.
<1>4. ASSUME Head(inbox[c]) \in Outcome
      PROVE  Tail(inbox[c]) = <<>> /\ \A r \in Rid : responses[r] # c
  <2>1. 1 \in 1 .. Len(inbox[c]) /\ inbox[c][1] \in Outcome
    BY <1>2, <1>4
  <2>2. Len(inbox[c]) = 1 /\ \A r \in Rid : responses[r] # c
    BY <1>3, <2>1
  <2>3. Tail(inbox[c]) = <<>>
    BY <1>1, <2>2, LengthOne
  <2> QED BY <2>2, <2>3
<1>5. CASE Head(inbox[c]) = "final" /\ Finish(c, "returned")
           /\ UNCHANGED <<rid, user, lastRid, responses>>
  <2>1. \A r \in Rid : responses[r] # c
    BY <1>4, <1>5 DEF Outcome
  <2>2. inbox' = [inbox EXCEPT ![c] = <<>>] /\ phase' = [phase EXCEPT ![c] = "returned"]
    BY <1>1, <1>5, <2>1 DEF Finish
  <2>3. inbox'[c] = <<>> /\ phase'[c] = "returned" /\ ~ InCall(c)'
    BY <1>1, <2>2 DEF InCall
  <2> QED BY <1>1, <1>5, <2>1, <2>2, <2>3, OwnEntry
<1>6. CASE GoOn(c, Head(inbox[c])) /\ inbox' = [inbox EXCEPT ![c] = Tail(@)]
  <2>1. inbox'[c] = Tail(inbox[c]) /\ \A d \in Call \ {c} : inbox'[d] = inbox[d]
    BY <1>1, <1>6
  <2>2. CASE Head(inbox[c]) \in {"user", "again"}
    <3>1. Renumber(c) /\ \E p \in {"waiting", "sleeping"} : phase' = [phase EXCEPT ![c] = p]
      BY <1>6, <2>2 DEF GoOn, Resend
    <3>2. phase'[c] \in {"waiting", "sleeping"} /\ \A d \in Call \ {c} : phase'[d] = phase[d]
      BY <1>1, <3>1
    <3>3. inbox'[c] = <<>> /\ \A r \in Rid : responses[r] # c
      BY <1>4, <2>1, <2>2 DEF Outcome
    <3>4. /\ lastRid < MaxRid /\ lastRid' = lastRid + 1
          /\ rid' = [rid EXCEPT ![c] = lastRid']
          /\ responses' = [responses EXCEPT ![lastRid'] = c]
      BY <3>1 DEF Renumber
    <3> QED BY <2>1, <3>2, <3>3, <3>4, NextId
  <2>3. CASE Head(inbox[c]) = "invalid"
    <3>1. AskAnew(c) /\ phase' = [phase EXCEPT ![c] = "waiting"]
      BY <1>6, <2>3 DEF GoOn, AskAnew, Resend
    <3>2. phase'[c] = "waiting" /\ \A d \in Call \ {c} : phase'[d] = phase[d]
      BY <1>1, <3>1
    <3>3. inbox'[c] = <<>>
      BY <1>4, <2>1, <2>3 DEF Outcome
    <3>4. responses'[rid[c]] = c
      BY <1>1, <3>1 DEF AskAnew
    <3> QED BY <1>1, <2>1, <3>1, <3>2, <3>3, <3>4, LengthZero, OwnEntry DEF AskAnew
  <2>4. CASE Head(inbox[c]) \in {"delay", "reset"}
    <3>1. UNCHANGED <<rid, lastRid, responses>>
          /\ (UNCHANGED phase \/ phase' = [phase EXCEPT ![c] = "waiting"])
      BY <1>6, <2>4 DEF GoOn, Resend
    <3>2. phase'[c] = "waiting" /\ \A d \in Call \ {c} : phase'[d] = phase[d]
      BY <1>1, <3>1
    <3>3. \A k \in 1 .. Len(inbox'[c]) : inbox'[c][k] \in Outcome => k = Len(inbox'[c])
      BY <1>2, <1>3, <1>7, <2>1
    <3>4. responses'[rid[c]] = c => \A k \in 1 .. Len(inbox'[c]) : inbox'[c][k] \notin Outcome
      BY <1>1, <1>3, <1>7, <2>1, <3>1
    <3>5. responses[rid[c]] # c => inbox'[c] # <<>> /\ inbox'[c][Len(inbox'[c])] \in Outcome
      <4> SUFFICES ASSUME responses[rid[c]] # c
                   PROVE  inbox'[c] # <<>> /\ inbox'[c][Len(inbox'[c])] \in Outcome
        OBVIOUS
      <4>1. inbox[c][Len(inbox[c])] \in Outcome
        BY <1>1 DEF CallInv, Reachable, InCall
      <4>2. Len(inbox[c]) # 1
        BY <1>2, <2>4, <4>1 DEF Outcome
      <4>3. Len(inbox'[c]) \in 1 .. Len(inbox'[c]) /\ Len(inbox'[c]) + 1 = Len(inbox[c])
        <5>1. Len(inbox'[c]) = Len(inbox[c]) - 1
          BY <1>2, <2>1
        <5> QED BY <1>2, <4>2, <5>1, LengthZero
      <4>4. inbox'[c][Len(inbox'[c])] = inbox[c][Len(inbox[c])]
        BY <1>7, <2>1, <4>3
      <4> QED BY <4>1, <4>3, <4>4
    <3> QED BY <1>1, <2>1, <3>1, <3>2, <3>3, <3>4, <3>5, OwnEntry
  <2> QED BY <1>6, <2>2, <2>3, <2>4 DEF GoOn
<1> QED BY <1>5, <1>6 DEF TakeMessage

LEMMA CallerKeepsCallInv ==
  ASSUME TypeInv, CallInv, NEW c \in Call,
         \/ Start(c) \/ QueryTimeout(c) \/ RetryTimeout(c)
         \/ Cancel(c) \/ AbortSent(c) \/ CancelAgain(c)
  PROVE  CallInv'
<1>0. /\ inbox \in [Call -> Seq(Outcome \cup {"delay", "reset"})]
      /\ phase \in [Call -> {"idle", "waiting", "sleeping", "returned",
                      "aborting", "cancelled", "keyerror", "abandoned"}]
      /\ responses \in [Rid -> Call \cup {NoCall}]
  BY DEF TypeInv, TypeOK
<1>1. CASE Start(c)
  <2>1. inbox[c] = <<>> /\ \A r \in Rid : responses[r] # c
    BY <1>1, RpcCallAssumption DEF Start, CallInv, IdleIsEmpty, RegisteredIsCurrent
  <2>2. phase'[c] = "waiting" /\ \A d \in Call \ {c} : phase'[d] = phase[d]
    BY <1>0, <1>1 DEF Start
  <2>3. /\ lastRid < MaxRid /\ lastRid' = lastRid + 1
        /\ rid' = [rid EXCEPT ![c] = lastRid']
        /\ responses' = [responses EXCEPT ![lastRid'] = c]
        /\ inbox' = inbox
    BY <1>1 DEF Start
  <2> QED BY <2>1, <2>2, <2>3, NextId
<1>2. CASE QueryTimeout(c)
  BY <1>2, SameCalls DEF QueryTimeout, caller, InCall
<1>3. CASE RetryTimeout(c)
  <2>1. InCall(c) /\ phase'[c] = "waiting" /\ \A d \in Call \ {c} : phase'[d] = phase[d]
    BY <1>0, <1>3 DEF RetryTimeout, Resend, TimedOut, InCall
  <2>2. UNCHANGED <<rid, inbox, responses, lastRid>>
    BY <1>3 DEF RetryTimeout
  <2> QED BY <2>1, <2>2, SameCalls DEF InCall
<1>4. CASE Cancel(c)
  <2>1. /\ UNCHANGED <<rid, lastRid, responses>> /\ rid[c] \in Rid
        /\ inbox'[c] = <<>> /\ \A d \in Call \ {c} : inbox'[d] = inbox[d]
    BY <1>0, <1>4 DEF Cancel, Finish, InCall, TypeInv, HaveRids
  <2>2. /\ phase'[c] = IF responses[rid[c]] = c THEN "aborting" ELSE "cancelled"
        /\ \A d \in Call \ {c} : phase'[d] = phase[d]
    BY <1>0, <1>4 DEF Cancel, Finish
  <2>3. ~ InCall(c)'
    BY <2>2 DEF InCall
  <2> QED BY <2>1, <2>2, <2>3, LengthZero, OwnEntry
<1>5. CASE AbortSent(c)
  <2>1. /\ UNCHANGED <<rid, lastRid>> /\ rid[c] \in Rid
        /\ responses' = [responses EXCEPT ![rid[c]] = NoCall]
        /\ inbox'[c] = <<>> /\ \A d \in Call \ {c} : inbox'[d] = inbox[d]
    BY <1>0, <1>5 DEF AbortSent, TypeInv, HaveRids
  <2>2. /\ phase'[c] \in {"cancelled", "keyerror"}
        /\ \A d \in Call \ {c} : phase'[d] = phase[d]
    BY <1>0, <1>5 DEF AbortSent
  <2>3. ~ InCall(c)' /\ responses'[rid[c]] # c
    BY <1>0, <2>1, <2>2, RpcCallAssumption DEF InCall
  <2> QED BY <2>1, <2>2, <2>3, LengthZero, OwnEntry
<1>6. CASE CancelAgain(c)
  <2>1. /\ phase[c] = "aborting" /\ phase'[c] = "abandoned"
        /\ \A d \in Call \ {c} : phase'[d] = phase[d]
    BY <1>0, <1>6 DEF CancelAgain
  <2>2. UNCHANGED <<rid, inbox, responses, lastRid>>
    BY <1>6 DEF CancelAgain
  <2> QED BY <2>1, <2>2, SameCalls DEF InCall
<1> QED BY <1>1, <1>2, <1>3, <1>4, <1>5, <1>6
\* A queue with one more message.
LEMMA LastOf ==
  ASSUME NEW S, NEW s \in Seq(S), NEW k \in S
  PROVE  /\ Len(Append(s, k)) = Len(s) + 1 /\ Len(s) \in Nat
         /\ Append(s, k)[Len(s) + 1] = k
         /\ \A i \in 1 .. Len(s) : Append(s, k)[i] = s[i]
         /\ Append(s, k) # <<>>
  OBVIOUS

\* The queue of a registered call gets a message: nothing but a response may
\* take the registration away.
LEMMA OneMessage ==
  ASSUME TypeInv, CallInv, UNCHANGED <<phase, rid, lastRid>>,
         NEW r \in Rid, NEW k \in Outcome \cup {"delay"},
         inbox' = [d \in Call |-> IF responses[r] = d THEN Append(inbox[d], k) ELSE inbox[d]],
         \/ k \in Outcome /\ responses' = [responses EXCEPT ![r] = NoCall]
         \/ k \notin Outcome /\ UNCHANGED responses
  PROVE  CallInv'
<1>1. /\ inbox \in [Call -> Seq(Outcome \cup {"delay", "reset"})]
      /\ responses \in [Rid -> Call \cup {NoCall}]
  BY DEF TypeInv, TypeOK
<1>2. CASE responses[r] = NoCall
  <2>1. inbox' = inbox
    BY <1>1, <1>2, RpcCallAssumption
  <2>2. responses' = responses
    BY <1>1, <1>2
  <2> QED BY <2>1, <2>2, SameCalls DEF InCall
<1>3. CASE responses[r] # NoCall
  <2> DEFINE c == responses[r]
  <2>1. c \in Call /\ rid[c] = r /\ phase[c] \in {"waiting", "sleeping", "aborting", "abandoned"}
    BY <1>1, <1>3 DEF CallInv, RegisteredIsCurrent
  <2>2. /\ inbox'[c] = Append(inbox[c], k)
        /\ \A d \in Call \ {c} : inbox'[d] = inbox[d] /\ phase'[d] = phase[d]
    BY <1>1, <2>1
  <2>3. \A i \in 1 .. Len(inbox[c]) : inbox[c][i] \notin Outcome
    BY <2>1 DEF CallInv, ResponseIsLast
  <2>4. /\ Len(inbox'[c]) = Len(inbox[c]) + 1 /\ Len(inbox[c]) \in Nat
        /\ inbox'[c][Len(inbox[c]) + 1] = k /\ inbox'[c] # <<>>
        /\ \A i \in 1 .. Len(inbox[c]) : inbox'[c][i] = inbox[c][i]
    <3>1. inbox[c] \in Seq(Outcome \cup {"delay", "reset"}) /\ k \in Outcome \cup {"delay", "reset"}
      BY <1>1, <2>1
    <3>2. /\ Len(Append(inbox[c], k)) = Len(inbox[c]) + 1 /\ Len(inbox[c]) \in Nat
          /\ Append(inbox[c], k)[Len(inbox[c]) + 1] = k
          /\ \A i \in 1 .. Len(inbox[c]) : Append(inbox[c], k)[i] = inbox[c][i]
          /\ Append(inbox[c], k) # <<>>
      BY <3>1, LastOf
    <3> HIDE DEF c
    <3> QED BY <2>2, <3>2
  <2>5. ASSUME NEW i \in 1 .. Len(inbox'[c]), inbox'[c][i] \in Outcome
        PROVE  i = Len(inbox'[c]) /\ k \in Outcome
    <3> HIDE DEF c
    <3>1. i \in 1 .. Len(inbox[c]) \/ i = Len(inbox[c]) + 1
      BY <2>4
    <3>2. i \notin 1 .. Len(inbox[c])
      BY <2>3, <2>4, <2>5
    <3> QED BY <2>4, <2>5, <3>1, <3>2
  <2>6. responses'[r] = c => k \notin Outcome
    BY <1>1, <1>3
  <2>7. k \notin Outcome => responses'[r] = c
    OBVIOUS
  <2>8. responses' \in {responses, [responses EXCEPT ![rid[c]] = c],
                        [responses EXCEPT ![rid[c]] = NoCall]}
    BY <2>1
  <2>9. /\ phase'[c] # "idle"
        /\ phase'[c] \in {"waiting", "sleeping", "aborting", "abandoned"}
        /\ rid[c] \in Rid
    BY <2>1
  <2>10. responses'[rid[c]] = c => \A i \in 1 .. Len(inbox'[c]) : inbox'[c][i] \notin Outcome
    BY <2>1, <2>5, <2>6
  <2>11. \/ responses'[rid[c]] = c
         \/ inbox'[c] # <<>> /\ inbox'[c][Len(inbox'[c])] \in Outcome
    BY <2>1, <2>4, <2>7
  <2> HIDE DEF c
  <2> QED BY <2>1, <2>2, <2>5, <2>8, <2>9, <2>10, <2>11, OwnEntry
<1> QED BY <1>2, <1>3

\* Every registered call gets None.
LEMMA ResetMessages ==
  ASSUME TypeInv, CallInv, UNCHANGED <<phase, rid, lastRid, responses>>, inbox' = WithReset
  PROVE  CallInv'
<1>1. /\ inbox \in [Call -> Seq(Outcome \cup {"delay", "reset"})]
      /\ responses \in [Rid -> Call \cup {NoCall}]
  BY DEF TypeInv, TypeOK
<1>2. ASSUME NEW c \in Call
      PROVE  \/ inbox'[c] = inbox[c]
             \/ /\ \E r \in Rid : responses[r] = c
                /\ Len(inbox'[c]) = Len(inbox[c]) + 1 /\ Len(inbox[c]) \in Nat
                /\ inbox'[c][Len(inbox[c]) + 1] \notin Outcome
                /\ \A i \in 1 .. Len(inbox[c]) : inbox'[c][i] = inbox[c][i]
  <2>1. inbox[c] \in Seq(Outcome \cup {"delay", "reset"}) /\ "reset" \in Outcome \cup {"delay", "reset"}
    BY <1>1
  <2>2. "reset" \notin Outcome
    BY DEF Outcome
  <2>3. CASE \E r \in Rid : responses[r] = c
    <3>1. inbox'[c] = Append(inbox[c], "reset")
      BY <2>3 DEF WithReset
    <3> QED BY <2>1, <2>2, <2>3, <3>1, LastOf
  <2>4. CASE ~ \E r \in Rid : responses[r] = c
    BY <2>4 DEF WithReset
  <2> QED BY <2>3, <2>4
<1>3. RidsAreUnique' /\ RegisteredIsCurrent'
  BY DEF CallInv, RidsAreUnique, RegisteredIsCurrent
<1>4. ResponseIsLast'
  <2> SUFFICES ASSUME NEW c \in Call, NEW k \in 1 .. Len(inbox'[c]), inbox'[c][k] \in Outcome
               PROVE  k = Len(inbox'[c]) /\ \A r \in Rid : responses[r] # c
    BY DEF ResponseIsLast
  <2>1. CASE inbox'[c] = inbox[c]
    BY <2>1 DEF CallInv, ResponseIsLast
  <2>2. CASE inbox'[c] # inbox[c]
    <3>1. /\ \E r \in Rid : responses[r] = c
          /\ k \in 1 .. Len(inbox[c]) /\ inbox[c][k] \in Outcome
      BY <1>2, <2>2
    <3> QED BY <3>1 DEF CallInv, ResponseIsLast
  <2> QED BY <2>1, <2>2
<1>5. Reachable'
  <2> SUFFICES ASSUME NEW c \in Call, InCall(c), responses[rid[c]] # c
               PROVE  inbox'[c] # <<>> /\ inbox'[c][Len(inbox'[c])] \in Outcome
    BY DEF Reachable, InCall
  <2>1. \A r \in Rid : responses[r] # c
    BY RpcCallAssumption DEF CallInv, RegisteredIsCurrent
  <2>2. inbox'[c] = inbox[c]
    BY <1>2, <2>1
  <2> QED BY <2>2 DEF CallInv, Reachable
<1>6. IdleIsEmpty'
  <2> SUFFICES ASSUME NEW c \in Call, phase[c] = "idle"
               PROVE  inbox'[c] = <<>>
    BY DEF IdleIsEmpty
  <2>1. \A r \in Rid : responses[r] # c
    BY RpcCallAssumption DEF CallInv, RegisteredIsCurrent
  <2>2. inbox'[c] = inbox[c]
    BY <1>2, <2>1
  <2> QED BY <2>2 DEF CallInv, IdleIsEmpty
<1> QED BY <1>3, <1>4, <1>5, <1>6 DEF CallInv

LEMMA CallsAreKept ==
  ASSUME TypeInv, CallInv, [Next]_vars
  PROVE  CallInv'
<1>1. ASSUME NEW c \in Call,
             \/ Start(c) \/ QueryTimeout(c) \/ RetryTimeout(c)
             \/ Cancel(c) \/ AbortSent(c) \/ CancelAgain(c)
      PROVE  CallInv'
  BY <1>1, CallerKeepsCallInv
<1>2. ASSUME NEW c \in Call, TakeMessage(c)
      PROVE  CallInv'
  BY <1>2, TakeMessageKeepsCallInv
<1>3. CASE CallerResets
  BY <1>3, ResetMessages DEF CallerResets
<1>4. CASE CallerReceives
  <2>1. Head(down) \in Down /\ UNCHANGED <<phase, rid, lastRid>>
    BY <1>4, SendsAreTyped DEF CallerReceives, TypeInv
  <2>2. CASE Head(down).type = "reset" /\ inbox' = WithReset /\ UNCHANGED responses
    BY <2>1, <2>2, ResetMessages
  <2>3. ASSUME NEW r \in Rid, NEW k \in Outcome \cup {"delay"},
               inbox' = [d \in Call |-> IF responses[r] = d THEN Append(inbox[d], k) ELSE inbox[d]],
               \/ k \in Outcome /\ responses' = [responses EXCEPT ![r] = NoCall]
               \/ k \notin Outcome /\ UNCHANGED responses
        PROVE  CallInv'
    BY <2>1, <2>3, OneMessage
  <2>4. CASE /\ Head(down).type = "response"
             /\ inbox' = [d \in Call |-> IF responses[Head(down).rid] = d
                                         THEN Append(inbox[d], Head(down).kind) ELSE inbox[d]]
             /\ responses' = [responses EXCEPT ![Head(down).rid] = NoCall]
    <3>1. Head(down).rid \in Rid /\ Head(down).kind \in Outcome
      BY <2>1, <2>4, TypeTellsKind
    <3> QED BY <2>3, <2>4, <3>1
  <2>5. CASE /\ Head(down).type = "delay"
             /\ inbox' = [d \in Call |-> IF responses[Head(down).rid] = d
                                         THEN Append(inbox[d], "delay") ELSE inbox[d]]
             /\ UNCHANGED responses
    <3>1. Head(down).rid \in Rid /\ "delay" \notin Outcome
      BY <2>1, <2>5, TypeTellsKind DEF Outcome
    <3> QED BY <2>3, <2>5, <3>1
  <2> QED BY <1>4, <2>2, <2>4, <2>5 DEF CallerReceives
<1>5. CASE UNCHANGED caller
  BY <1>5, SameCalls DEF caller, InCall
<1> QED BY <1>1, <1>2, <1>3, <1>4, <1>5
        DEF Next, vars, PeerReceives, PeerResets, RunReady, MethodEnds, MethodCancelled,
            Progress, Lose

LEMMA CallInvHolds == Spec => []CallInv
<1>1. TypeInv /\ CallInv /\ [Next]_vars => CallInv'
  BY CallsAreKept
<1> QED BY <1>1, CallInit, TypeInit, TypesAreKept, PTL DEF Spec

\* However calls are retried, renumbered, reset and cancelled, for any number of
\* them: _responses holds nothing of a call that is over, but for one cancelled
\* a second time.
THEOREM NothingStaysRegistered == Spec => []RegisteredIsCurrent
<1>1. CallInv => RegisteredIsCurrent
  BY DEF CallInv
<1> QED BY <1>1, CallInvHolds, PTL

\* No call waits for a response that can no longer reach it.
THEOREM CallsStayReachable == Spec => []WaitingIsReachable
<1>1. CallInv => WaitingIsReachable
  BY DEF CallInv, Reachable, WaitingIsReachable
<1> QED BY <1>1, CallInvHolds, PTL
=============================================================================
