--------------------------- MODULE SendLoopProofs ---------------------------
(***************************************************************************)
(* Theorems about SendLoop for any set of messages and any bounds.  The    *)
(* two invariants are inductive once the types are known.                  *)
(***************************************************************************)
EXTENDS SendLoop, SequenceTheorems, TLAPS

State == {"none", "pending", "sent", "failed", "cancelled"}

LEMMA HeadAndTail ==
  ASSUME NEW S, NEW s \in Seq(S), s # <<>>
  PROVE  /\ Head(s) \in S /\ Tail(s) \in Seq(S)
         /\ Len(s) \in Nat /\ Len(s) >= 1 /\ Len(Tail(s)) = Len(s) - 1
  OBVIOUS

\* Who is in the queue after a message was added and one was taken.
LEMMA QueueMembers ==
  ASSUME NEW s \in Seq(Msg), NEW m \in Msg
  PROVE  /\ ToSet(Append(s, m)) = ToSet(s) \cup {m}
         /\ s # <<>> => ToSet(s) = {Head(s)} \cup ToSet(Tail(s))
<1>1. ToSet(Append(s, m)) = ToSet(s) \cup {m}
  <2>1. /\ DOMAIN Append(s, m) = 1 .. Len(s) + 1 /\ DOMAIN s = 1 .. Len(s) /\ Len(s) \in Nat
        /\ \A i \in 1 .. Len(s) : Append(s, m)[i] = s[i]
        /\ Append(s, m)[Len(s) + 1] = m
    OBVIOUS
  <2>2. ToSet(Append(s, m)) \subseteq ToSet(s) \cup {m}
    BY <2>1 DEF ToSet
  <2>3. ToSet(s) \cup {m} \subseteq ToSet(Append(s, m))
    <3>1. \A i \in DOMAIN s : i \in DOMAIN Append(s, m) /\ Append(s, m)[i] = s[i]
      BY <2>1
    <3>2. Len(s) + 1 \in DOMAIN Append(s, m)
      BY <2>1
    <3> QED BY <2>1, <3>1, <3>2 DEF ToSet
  <2> QED BY <2>2, <2>3
<1>2. ASSUME s # <<>>
      PROVE  ToSet(s) = {Head(s)} \cup ToSet(Tail(s))
  <2>1. /\ DOMAIN s = 1 .. Len(s) /\ Len(s) \in Nat /\ Len(s) >= 1 /\ Head(s) = s[1]
        /\ DOMAIN Tail(s) = 1 .. Len(s) - 1
        /\ \A i \in 1 .. Len(s) - 1 : Tail(s)[i] = s[i + 1]
    BY <1>2
  <2>2. ToSet(s) \subseteq {Head(s)} \cup ToSet(Tail(s))
    <3> SUFFICES ASSUME NEW i \in DOMAIN s
                 PROVE  s[i] \in {Head(s)} \cup ToSet(Tail(s))
      BY DEF ToSet
    <3>1. CASE i = 1
      BY <2>1, <3>1
    <3>2. CASE i # 1
      <4>1. i - 1 \in DOMAIN Tail(s) /\ Tail(s)[i - 1] = s[i]
        BY <2>1, <3>2
      <4> QED BY <4>1 DEF ToSet
    <3> QED BY <3>1, <3>2
  <2>3. {Head(s)} \cup ToSet(Tail(s)) \subseteq ToSet(s)
    <3>1. 1 \in DOMAIN s /\ \A i \in DOMAIN Tail(s) : i + 1 \in DOMAIN s /\ Tail(s)[i] = s[i + 1]
      BY <2>1
    <3> QED BY <2>1, <3>1 DEF ToSet
  <2> QED BY <2>2, <2>3
<1> QED BY <1>1, <1>2

-----------------------------------------------------------------------------
(* Types *)

LEMMA CancelledIsTyped ==
  ASSUME TypeOK, NEW ms
  PROVE  /\ Cancelled(ms) \in [Msg -> State]
         /\ \A m \in Msg : Cancelled(ms)[m] = "pending" => fut[m] = "pending"
  BY DEF TypeOK, Cancelled, State

LEMMA EnqueueIsTyped ==
  ASSUME TypeOK, NEW m \in Msg, NEW futures \in [Msg -> State], Enqueue(m, futures)
  PROVE  queue' \in Seq(Msg) /\ permits' \in Nat /\ fut' \in [Msg -> State]
  BY DEF TypeOK, Enqueue, State

LEMMA SendersKeepTypes ==
  ASSUME TypeOK,
         \/ \E m \in Caller : CallSends(m) \/ CallCancelled(m)
         \/ \E m \in Handler : HandlerSends(m)
         \/ \E r \in Reply : LoopReplies(r)
         \/ \E m \in Handler, r \in Reply : PeerAborts(m, r)
         \/ Reset
  PROVE  TypeOK'
<1>1. UNCHANGED <<idle, loop, item, recv, link>>
  BY DEF CallSends, CallCancelled, HandlerSends, LoopReplies, PeerAborts, Reset
<1>2. SUFFICES queue' \in Seq(Msg) /\ permits' \in Nat /\ fut' \in [Msg -> State]
  BY <1>1 DEF TypeOK, State
<1>3. ASSUME NEW m \in Msg, NEW ms, Enqueue(m, fut) \/ Enqueue(m, Cancelled(ms))
      PROVE  queue' \in Seq(Msg) /\ permits' \in Nat /\ fut' \in [Msg -> State]
  <2>1. fut \in [Msg -> State] /\ Cancelled(ms) \in [Msg -> State]
    BY CancelledIsTyped DEF TypeOK, State
  <2> QED BY <1>3, <2>1, EnqueueIsTyped
<1>4. ASSUME NEW ms, fut' = Cancelled(ms), UNCHANGED <<queue, permits>>
      PROVE  queue' \in Seq(Msg) /\ permits' \in Nat /\ fut' \in [Msg -> State]
  BY <1>4, CancelledIsTyped DEF TypeOK
<1>5. \/ \E m \in Msg, ms \in SUBSET Msg : Enqueue(m, fut) \/ Enqueue(m, Cancelled(ms))
      \/ \E ms \in SUBSET Msg : fut' = Cancelled(ms) /\ UNCHANGED <<queue, permits>>
  <2>1. Handler \in SUBSET Msg /\ \A m \in Msg : {m} \in SUBSET Msg
    BY DEF Msg
  <2> QED
    BY <2>1 DEF Msg, CallSends, CallCancelled, HandlerSends, LoopReplies, PeerAborts, Reset
<1> QED BY <1>3, <1>4, <1>5

LEMMA LoopKeepsTypes ==
  ASSUME TypeOK,
         \/ IdleReady \/ IdleWithdrawn \/ Acquire \/ Transmitted
         \/ LinkLost \/ Disconnect \/ LoopEnds
  PROVE  TypeOK'
<1>1. CASE IdleReady \/ IdleWithdrawn
  BY <1>1, SendLoopAssumption DEF IdleReady, IdleWithdrawn, TypeOK
<1>2. CASE Acquire
  <2>1. permits' \in Nat /\ UNCHANGED <<fut, recv, link>>
    BY <1>2 DEF Acquire, TypeOK
  <2>2. CASE queue # <<>> /\ item' = Head(queue) /\ queue' = Tail(queue)
             /\ loop' = "sending" /\ UNCHANGED idle
    <3>1. Head(queue) \in Msg /\ Tail(queue) \in Seq(Msg)
      BY <2>2, HeadAndTail DEF TypeOK
    <3> QED BY <2>1, <2>2, <3>1 DEF TypeOK
  <2>3. CASE queue = <<>> /\ idle > 0 /\ item' = Idle /\ idle' = idle - 1
             /\ loop' = "sending" /\ UNCHANGED queue
    BY <2>1, <2>3, SendLoopAssumption DEF TypeOK
  <2>4. CASE UNCHANGED <<queue, idle, loop, item>>
    BY <2>1, <2>4 DEF TypeOK
  <2> QED BY <1>2, <2>2, <2>3, <2>4 DEF Acquire
<1>3. CASE Transmitted
  <2>1. loop' \in {"crashed", "acquire"} /\ UNCHANGED <<queue, permits, idle, item, recv, link>>
    BY <1>3 DEF Transmitted
  <2>2. fut' = fut \/ \E f \in {"sent", "failed"} : fut' = [fut EXCEPT ![item] = f]
    BY <1>3 DEF Transmitted
  <2>3. fut' \in [Msg -> {"none", "pending", "sent", "failed", "cancelled"}]
    BY <2>2 DEF TypeOK
  <2> QED BY <2>1, <2>3 DEF TypeOK
<1>4. CASE LinkLost
  BY <1>4 DEF LinkLost, TypeOK
<1>5. CASE Disconnect
  BY <1>5, CancelledIsTyped DEF Disconnect, TypeOK, State
<1>6. CASE LoopEnds
  <2>1. fut' \in [Msg -> State] /\ loop' \in {"acquire", "sending", "crashed", "ended"}
    BY <1>6, CancelledIsTyped DEF LoopEnds, TypeOK
  <2> QED BY <1>6, <2>1 DEF LoopEnds, TypeOK, State
<1> QED BY <1>1, <1>2, <1>3, <1>4, <1>5, <1>6

LEMMA TypesHold == Spec => []TypeOK
<1>1. Init => TypeOK
  BY SendLoopAssumption DEF Init, TypeOK
<1>2. TypeOK /\ [Next]_vars => TypeOK'
  <2> SUFFICES ASSUME TypeOK, [Next]_vars PROVE TypeOK'
    OBVIOUS
  <2>1. CASE UNCHANGED vars
    BY <2>1 DEF vars, TypeOK
  <2>2. CASE Next
    BY <2>2, SendersKeepTypes, LoopKeepsTypes DEF Next
  <2> QED BY <2>1, <2>2
<1> QED BY <1>1, <1>2, PTL DEF Spec

\* Every variable holds what the code's fields may hold, for any messages.
THEOREM TypeCorrect == Spec => []TypeOK
  BY TypesHold

-----------------------------------------------------------------------------
(* Permits *)

\* One permit of the semaphore for every message at least, as long as the send
\* loop runs: whatever is queued, dropped, withdrawn or announced.
THEOREM PermitsAlwaysCoverWork == Spec => []PermitsCoverWork
<1>1. Init => PermitsCoverWork
  BY DEF Init, PermitsCoverWork
<1>2. TypeOK /\ PermitsCoverWork /\ [Next]_vars => PermitsCoverWork'
  <2> SUFFICES ASSUME TypeOK, PermitsCoverWork, [Next]_vars, Alive'
               PROVE  permits' >= Len(queue') + idle'
    BY DEF PermitsCoverWork
  <2>1. /\ queue \in Seq(Msg) /\ Len(queue) \in Nat
        /\ permits \in Nat /\ idle \in Nat /\ IdleMax \in Nat
    BY SendLoopAssumption DEF TypeOK
  <2>2. Alive
    BY DEF Alive, vars, Next, CallSends, CallCancelled, HandlerSends, LoopReplies,
       PeerAborts, Reset, IdleReady, IdleWithdrawn, Acquire, Transmitted, LinkLost,
       Disconnect, LoopEnds
  <2>3. permits >= Len(queue) + idle
    BY <2>2 DEF PermitsCoverWork
  <2>4. ASSUME NEW m \in Msg, NEW futures, Enqueue(m, futures), UNCHANGED idle
        PROVE  permits' >= Len(queue') + idle'
    BY <2>1, <2>3, <2>4 DEF Enqueue
  <2>5. CASE \/ \E m \in Caller : CallSends(m)
             \/ \E m \in Handler : HandlerSends(m)
             \/ \E r \in Reply : LoopReplies(r)
             \/ \E m \in Handler, r \in Reply : PeerAborts(m, r)
    BY <2>4, <2>5 DEF Msg, CallSends, HandlerSends, LoopReplies, PeerAborts
  <2>6. CASE IdleReady \/ IdleWithdrawn
    BY <2>1, <2>3, <2>6 DEF IdleReady, IdleWithdrawn
  <2>7. CASE Acquire
    <3>1. queue # <<>> => Len(queue) >= 1 /\ Len(Tail(queue)) = Len(queue) - 1
      BY <2>1, HeadAndTail
    <3>2. queue = <<>> => Len(queue) = 0
      OBVIOUS
    <3> QED BY <2>1, <2>3, <2>7, <3>1, <3>2 DEF Acquire
  <2>8. CASE UNCHANGED <<queue, permits, idle>>
    BY <2>3, <2>8
  <2> QED
    BY <2>5, <2>6, <2>7, <2>8
    DEF vars, Next, CallCancelled, Reset, Transmitted, LinkLost, Disconnect, LoopEnds
<1> QED BY <1>1, <1>2, TypesHold, PTL DEF Spec

-----------------------------------------------------------------------------
(* Waiting senders *)

LEMMA EnqueuedIsQueued ==
  ASSUME TypeOK, WaitingIsQueued, Alive,
         NEW m \in Msg, NEW futures \in [Msg -> State], Enqueue(m, futures),
         \A n \in Msg : futures[n] = "pending" => fut[n] = "pending",
         UNCHANGED <<loop, item>>
  PROVE  \A n \in Msg : fut'[n] = "pending" => n \in ToSet(queue') \/ InFlight(n)'
<1> SUFFICES ASSUME NEW n \in Msg, fut'[n] = "pending"
             PROVE  n \in ToSet(queue') \/ InFlight(n)'
  OBVIOUS
<1>1. ToSet(queue') = ToSet(queue) \cup {m}
  BY QueueMembers DEF Enqueue, TypeOK
<1>2. n # m => fut[n] = "pending"
  BY DEF Enqueue
<1>3. n # m => n \in ToSet(queue) \/ InFlight(n)
  BY <1>2 DEF WaitingIsQueued
<1> QED BY <1>1, <1>3 DEF InFlight

\* No send is forgotten: as long as the send loop runs, whoever waits in _send
\* has its message in the queue or under way.
THEOREM NoSendIsForgotten == Spec => []WaitingIsQueued
<1>1. Init => WaitingIsQueued
  BY DEF Init, WaitingIsQueued
<1>2. TypeOK /\ WaitingIsQueued /\ [Next]_vars => WaitingIsQueued'
  <2> SUFFICES ASSUME TypeOK, WaitingIsQueued, [Next]_vars, Alive'
               PROVE  \A m \in Msg : fut'[m] = "pending" =>
                                      m \in ToSet(queue') \/ InFlight(m)'
    BY DEF WaitingIsQueued
  <2>2. Alive
    BY DEF Alive, vars, Next, CallSends, CallCancelled, HandlerSends, LoopReplies,
       PeerAborts, Reset, IdleReady, IdleWithdrawn, Acquire, Transmitted, LinkLost,
       Disconnect, LoopEnds
  <2>3. \A m \in Msg : fut[m] = "pending" => m \in ToSet(queue) \/ InFlight(m)
    BY <2>2 DEF WaitingIsQueued
  <2>4. CASE \/ \E m \in Caller : CallSends(m)
             \/ \E m \in Handler : HandlerSends(m)
             \/ \E r \in Reply : LoopReplies(r)
             \/ \E m \in Handler, r \in Reply : PeerAborts(m, r)
    <3>1. fut \in [Msg -> State]
      BY DEF TypeOK, State
    <3>2. PICK m \in Msg, ms \in SUBSET Msg :
            /\ Enqueue(m, fut) \/ Enqueue(m, Cancelled(ms))
            /\ UNCHANGED <<loop, item>>
      <4>1. \A m \in Handler : {m} \in SUBSET Msg
        BY DEF Msg
      <4> QED BY <2>4, <4>1 DEF Msg, CallSends, HandlerSends, LoopReplies, PeerAborts
    <3> QED BY <2>2, <3>1, <3>2, CancelledIsTyped, EnqueuedIsQueued
  <2>5. ASSUME NEW ms, fut' = Cancelled(ms) \/ fut' = fut, UNCHANGED <<queue, loop, item>>
        PROVE  \A m \in Msg : fut'[m] = "pending" =>
                                m \in ToSet(queue') \/ InFlight(m)'
    BY <2>3, <2>5, CancelledIsTyped DEF InFlight
  <2>6. CASE Acquire
    <3> SUFFICES ASSUME NEW m \in Msg, fut'[m] = "pending"
                 PROVE  m \in ToSet(queue') \/ InFlight(m)'
      OBVIOUS
    <3>1. m \in ToSet(queue)
      BY <2>3, <2>6 DEF Acquire, InFlight
    <3>2. CASE queue # <<>> /\ item' = Head(queue) /\ queue' = Tail(queue) /\ loop' = "sending"
      <4>1. ToSet(queue) = {Head(queue)} \cup ToSet(Tail(queue))
        BY <3>2, QueueMembers DEF TypeOK
      <4> QED BY <3>1, <3>2, <4>1 DEF InFlight
    <3>3. CASE UNCHANGED queue
      BY <3>1, <3>3
    <3> QED BY <2>6, <3>2, <3>3 DEF Acquire
  <2>7. CASE Transmitted
    <3> SUFFICES ASSUME NEW m \in Msg, fut'[m] = "pending"
                 PROVE  m \in ToSet(queue')
      OBVIOUS
    <3>1. /\ loop' = "acquire" /\ UNCHANGED queue
          /\ fut' = IF item = Idle THEN fut
                    ELSE [fut EXCEPT ![item] = IF link = "up" THEN "sent" ELSE "failed"]
      BY <2>7 DEF Transmitted, Alive
    <3>2. item # m /\ fut[m] = "pending"
      BY <3>1, SendLoopAssumption DEF TypeOK
    <3> QED BY <2>3, <3>1, <3>2 DEF InFlight
  <2>8. CASE IdleReady \/ IdleWithdrawn \/ LinkLost \/ UNCHANGED vars
    BY <2>5, <2>8 DEF IdleReady, IdleWithdrawn, LinkLost, vars
  <2>9. CASE Reset \/ Disconnect \/ LoopEnds \/ \E m \in Caller : CallCancelled(m)
    <3>1. \E ms \in SUBSET Msg : fut' = Cancelled(ms)
      <4>1. Handler \in SUBSET Msg /\ Reply \in SUBSET Msg /\ \A m \in Caller : {m} \in SUBSET Msg
        BY DEF Msg
      <4> QED BY <2>9, <4>1 DEF Reset, Disconnect, LoopEnds, CallCancelled
    <3>2. UNCHANGED <<queue, loop, item>>
      BY <2>2, <2>9 DEF Reset, Disconnect, LoopEnds, CallCancelled, Alive
    <3> QED BY <2>5, <3>1, <3>2
  <2> QED BY <2>4, <2>6, <2>7, <2>8, <2>9 DEF Next
<1> QED BY <1>1, <1>2, TypesHold, PTL DEF Spec
=============================================================================
