------------------------- MODULE ValueClientProofs -------------------------
(***************************************************************************)
(* Theorems about ValueClient for any number of tasks and changes: what is *)
(* on its way for a task, and that the handler saw what is cached.         *)
(***************************************************************************)
EXTENDS ValueClient, SequenceTheorems, TLAPS

States == {"idle", "asked", "waiting", "found", "sleeping"} \cup Over
Message == [to : Task \cup {Signal}, value : Nat]

TypeOK ==
  /\ device \in Nat /\ told \in BOOLEAN /\ subscribed \in BOOLEAN /\ loop \in BOOLEAN
  /\ requests \in Seq(Task) /\ wire \in Seq(Message) /\ ready \in Seq(Task)
  /\ cache \in Nat \cup {None} /\ seen \in Nat \cup {None}
  /\ job \in [Task -> Job \cup {None}] /\ state \in [Task -> States]
  /\ answer \in [Task -> Nat \cup {None}]

\* What is on its way for a task: it waits for it, or was a poll and is over.
Awaits(t) == state[t] = "asked" \/ (job[t] = "change" /\ state[t] \in Over)
Asked ==
  /\ \A i \in DOMAIN requests : Awaits(requests[i])
  /\ \A i \in DOMAIN wire : wire[i].to # Signal => Awaits(wire[i].to)
  /\ \A i \in DOMAIN ready : state[ready[i]] = "asked" /\ answer[ready[i]] \in Nat

\* Only who waits for a change has a future.
Waiters ==
  /\ future \in [Task -> {"none", "pending", "set", "cancelled"}] /\ futures \in Seq(Task)
  /\ \A t \in Task :
       future[t] # "none" \/ (\E i \in DOMAIN futures : futures[i] = t) =>
         job[t] \in {"wait", "change"} /\ state[t] # "idle"
  /\ \A t \in Task : job[t] = "wait" => state[t] \notin {"asked", "found", "sleeping"}

\* A task is in one place of the way.
OneAnswer ==
  /\ \A i, j \in DOMAIN requests : requests[i] = requests[j] => i = j
  /\ \A i, j \in DOMAIN wire : wire[i].to = wire[j].to /\ wire[i].to # Signal => i = j
  /\ \A i, j \in DOMAIN ready : ready[i] = ready[j] => i = j
  /\ \A i \in DOMAIN requests, j \in DOMAIN wire : requests[i] # wire[j].to
  /\ \A i \in DOMAIN requests, j \in DOMAIN ready : requests[i] # ready[j]
  /\ \A i \in DOMAIN wire, j \in DOMAIN ready : wire[i].to # ready[j]

\* What is not subscribed is not cached, unless a snapshot left it there.
Uncached == ~subscribed => cache = None \/ origin = "leftover"

WayInv == TypeOK /\ Asked /\ OneAnswer
HandlerInv == Uncached /\ HandlerSawIt

\* An answer that switches the subscription, and what it says of it before.
Mark(t) == t # Signal /\ job[t] \in {"subscribe", "unsubscribe"}
Truth(b) == IF b THEN 1 ELSE 0

-----------------------------------------------------------------------------
(* Sequences *)

LEMMA Appended ==
  ASSUME NEW S, NEW s \in Seq(S), NEW e \in S
  PROVE  /\ Append(s, e) \in Seq(S) /\ Len(Append(s, e)) = Len(s) + 1
         /\ Append(s, e)[Len(s) + 1] = e
         /\ \A i \in 1 .. Len(s) : Append(s, e)[i] = s[i]
  OBVIOUS

LEMMA Added ==
  ASSUME NEW S, NEW s \in Seq(S), NEW e \in S
  PROVE  /\ s \o <<e>> \in Seq(S) /\ Len(s) \in Nat /\ Len(s \o <<e>>) = Len(s) + 1
         /\ (s \o <<e>>)[Len(s) + 1] = e
         /\ \A i \in 1 .. Len(s) : (s \o <<e>>)[i] = s[i]
  OBVIOUS

\* The same of what is on the wire.
LEMMA WireAdded ==
  ASSUME NEW w \in Seq(Message), NEW m \in Message
  PROVE  /\ w \o <<m>> \in Seq(Message) /\ Len(w \o <<m>>) = Len(w) + 1
         /\ (w \o <<m>>)[Len(w) + 1] = m
         /\ \A i \in 1 .. Len(w) : (w \o <<m>>)[i] = w[i]
  BY Added

LEMMA Taken ==
  ASSUME NEW S, NEW s \in Seq(S), s # <<>>
  PROVE  /\ Tail(s) \in Seq(S) /\ Len(Tail(s)) = Len(s) - 1
         /\ Len(s) \in Nat /\ Len(s) >= 1 /\ Head(s) = s[1] /\ Head(s) \in S
         /\ \A i \in 1 .. Len(s) - 1 : Tail(s)[i] = s[i + 1]
  OBVIOUS

LEMMA Removed ==
  ASSUME NEW S, NEW s \in Seq(S), NEW k \in 1 .. Len(s)
  PROVE  /\ RemoveAt(s, k) \in Seq(S) /\ Len(RemoveAt(s, k)) = Len(s) - 1
         /\ \A i \in 1 .. Len(s) - 1 : RemoveAt(s, k)[i] = IF i < k THEN s[i] ELSE s[i + 1]
<1> DEFINE a == SubSeq(s, 1, k - 1)
           b == SubSeq(s, k + 1, Len(s))
<1>1. a \in Seq(S) /\ Len(a) = k - 1 /\ \A i \in 1 .. k - 1 : a[i] = s[i]
  OBVIOUS
<1>2. b \in Seq(S) /\ Len(b) = Len(s) - k /\ \A i \in 1 .. Len(s) - k : b[i] = s[i + k]
  OBVIOUS
<1>3. RemoveAt(s, k) = a \o b
  BY DEF RemoveAt
<1> HIDE DEF a, b
<1>4. /\ a \o b \in Seq(S) /\ Len(a \o b) = Len(a) + Len(b)
      /\ \A i \in 1 .. Len(a) + Len(b) :
           (a \o b)[i] = IF i <= Len(a) THEN a[i] ELSE b[i - Len(a)]
  BY <1>1, <1>2, ConcatProperties
<1>5. Len(s) \in Nat /\ k \in Int
  OBVIOUS
<1>6. ASSUME NEW i \in 1 .. Len(s) - 1
      PROVE  (a \o b)[i] = IF i < k THEN s[i] ELSE s[i + 1]
  <2>1. i \in 1 .. Len(a) + Len(b) /\ (a \o b)[i] = IF i <= Len(a) THEN a[i] ELSE b[i - Len(a)]
    BY <1>1, <1>2, <1>4, <1>5
  <2>2. CASE i < k
    <3>1. i <= Len(a) /\ a[i] = s[i]
      BY <1>1, <1>5, <2>2
    <3> QED BY <2>2, <2>1, <3>1
  <2>3. CASE ~ (i < k)
    <3> DEFINE j == i - (k - 1)
    <3>1. j \in 1 .. Len(s) - k /\ j + k = i + 1 /\ ~ (i <= Len(a)) /\ i - Len(a) = j
      BY <1>1, <1>5, <2>3
    <3> HIDE DEF j
    <3>2. b[j] = s[j + k]
      BY <1>2, <3>1
    <3> QED BY <2>3, <2>1, <3>1, <3>2
  <2> QED BY <2>2, <2>3
<1> QED BY <1>1, <1>2, <1>3, <1>4, <1>5, <1>6

-----------------------------------------------------------------------------
(* Steps *)

LEMMA Constants ==
  Signal \notin Task /\ None \notin Nat /\ None \notin Job
BY ValueClientAssumption DEF ValueClientAssumption

\* What a job of a task is stays, and so does its end.
Stays ==
  /\ job' = job
  /\ \A u \in Task : state[u] \in Over => state'[u] = state[u]

\* Nothing but the wire changes for the client: what was on it is still first.
Grows ==
  /\ wire' \in Seq(Message) /\ Len(wire') >= Len(wire)
  /\ \A i \in 1 .. Len(wire) : wire'[i] = wire[i]
  /\ UNCHANGED <<ready, subscribed, cache, seen, tasks, future, futures, loop, histories>>

LEMMA WireGrows ==
  ASSUME wire \in Seq(Message), NEW m \in Message, wire' = wire \o <<m>>,
         UNCHANGED <<ready, subscribed, cache, seen, tasks, future, futures, loop, histories>>
  PROVE  Grows /\ Len(wire') = Len(wire) + 1 /\ wire'[Len(wire) + 1] = m
<1>1. /\ wire' \in Seq(Message) /\ Len(wire') = Len(wire) + 1 /\ wire'[Len(wire) + 1] = m
      /\ \A i \in 1 .. Len(wire) : wire'[i] = wire[i]
  BY WireAdded
<1>2. Len(wire) \in Nat
  OBVIOUS
<1> QED BY <1>1, <1>2 DEF Grows

LEMMA ChangeSends ==
  ASSUME TypeOK, Change
  PROVE  /\ Grows /\ requests' = requests /\ told' = told /\ device' = device + 1
         /\ told => /\ Len(wire') = Len(wire) + 1
                    /\ wire'[Len(wire) + 1] = [to |-> Signal, value |-> device']
         /\ ~ told => wire' = wire
<1>1. /\ requests' = requests /\ told' = told /\ device' = device + 1 /\ device' \in Nat
      /\ wire' = wire \o Signals(device') /\ wire \in Seq(Message)
      /\ UNCHANGED <<ready, subscribed, cache, seen, tasks, future, futures, loop, histories>>
  BY DEF Change, TypeOK
<1>2. CASE told
  <2> DEFINE m == [to |-> Signal, value |-> device']
  <2>1. m \in Message /\ wire' = wire \o <<m>>
    BY <1>1, <1>2 DEF Signals, Message
  <2> HIDE DEF m
  <2>2. Grows /\ Len(wire') = Len(wire) + 1 /\ wire'[Len(wire) + 1] = m
    BY <1>1, <2>1, WireGrows
  <2>3. Len(wire') = Len(wire) + 1 /\ wire'[Len(wire) + 1] = [to |-> Signal, value |-> device']
    BY <2>2 DEF m
  <2> QED BY <1>1, <1>2, <2>2, <2>3, Zenon
<1>3. CASE ~ told
  <2>1. wire' = wire
    BY <1>1, <1>3, ConcatEmptySeq DEF Signals
  <2>2. Len(wire) \in Nat
    BY <1>1
  <2>3. /\ wire \in Seq(Message)
        /\ UNCHANGED <<ready, subscribed, cache, seen, tasks, future, futures, loop, histories>>
    BY <1>1
  <2>4. Grows
    BY <2>1, <2>2, <2>3 DEF Grows
  <2> QED BY <1>1, <1>3, <2>1, <2>4, Zenon
<1> QED BY <1>2, <1>3

\* The client is sent the answer to the oldest request, and a signal with it if
\* the value was set.
Served(t) ==
  LET L == Len(wire)
  IN \/ /\ Len(wire') = L + 1 /\ wire'[L + 1].to = t
        /\ \/ job[t] \in {"get", "snapshot", "change"} /\ UNCHANGED remote
           \/ job[t] = "set" /\ ~ told /\ ~ told'
        /\ wire'[L + 1].value = device'
     \/ /\ Len(wire') = L + 1 /\ wire'[L + 1].to = t
        /\ Mark(t) /\ told' = (job[t] = "subscribe") /\ device' = device
        /\ wire'[L + 1].value = Truth(told)
     \/ /\ Len(wire') = L + 2 /\ job[t] = "set" /\ told /\ told'
        /\ wire'[L + 1].value = device' /\ wire'[L + 2].value = device'
        /\ \/ wire'[L + 1].to = t /\ wire'[L + 2].to = Signal
           \/ wire'[L + 1].to = Signal /\ wire'[L + 2].to = t

LEMMA ServeSends ==
  ASSUME TypeOK, Serve
  PROVE  /\ requests # <<>> /\ requests' = Tail(requests) /\ Head(requests) \in Task
         /\ Grows /\ Served(Head(requests))
         /\ device' \in Nat /\ told' \in BOOLEAN
<1> DEFINE t == Head(requests)
<1>1. /\ requests # <<>> /\ requests' = Tail(requests) /\ t \in Task
      /\ UNCHANGED <<ready, subscribed, cache, seen, tasks, future, futures, loop, histories>>
      /\ wire \in Seq(Message) /\ device \in Nat /\ told \in BOOLEAN /\ Len(wire) \in Nat
  BY DEF Serve, TypeOK
<1>2. ASSUME NEW m \in Message, wire' = wire \o <<m>>
      PROVE  Grows /\ Len(wire') = Len(wire) + 1 /\ wire'[Len(wire) + 1] = m
  BY <1>1, <1>2, WireGrows
<1>3. CASE job[t] \in {"get", "snapshot", "change"}
  <2> DEFINE m == [to |-> t, value |-> device]
  <2>1. m \in Message /\ wire' = wire \o <<m>> /\ UNCHANGED remote
    BY <1>1, <1>3 DEF Serve, Message
  <2>2. m.to = t /\ m.value = device
    OBVIOUS
  <2> HIDE DEF m
  <2>3. Grows /\ Len(wire') = Len(wire) + 1 /\ wire'[Len(wire) + 1] = m
    BY <1>2, <2>1
  <2> QED BY <1>1, <1>3, <2>1, <2>2, <2>3 DEF Served, remote
<1>4. CASE job[t] \in {"subscribe", "unsubscribe"}
  <2> DEFINE m == [to |-> t, value |-> IF told THEN 1 ELSE 0]
  <2>1. /\ m \in Message /\ wire' = wire \o <<m>> /\ device' = device
        /\ told' = (job[t] = "subscribe")
    BY <1>1, <1>4 DEF Serve, Message
  <2>2. m.to = t /\ m.value = Truth(told) /\ Mark(t)
    BY <1>1, <1>4, Constants DEF Truth, Mark
  <2> HIDE DEF m
  <2>3. Grows /\ Len(wire') = Len(wire) + 1 /\ wire'[Len(wire) + 1] = m
    BY <1>2, <2>1
  <2> QED BY <1>1, <2>1, <2>2, <2>3 DEF Served
<1>5. CASE job[t] = "set"
  <2> DEFINE m == [to |-> t, value |-> device']
             n == [to |-> Signal, value |-> device']
  <2>1. /\ device' = device + 1 /\ told' = told
        /\ wire' \in {wire \o Signals(device') \o <<m>>, wire \o <<m>> \o Signals(device')}
    BY <1>5, Zenon DEF Serve
  <2>2. m \in Message /\ n \in Message
    BY <1>1, <2>1 DEF Message
  <2>3. /\ device' = device + 1 /\ told' = told /\ m \in Message /\ n \in Message
        /\ wire' \in {wire \o Signals(device') \o <<m>>, wire \o <<m>> \o Signals(device')}
    BY <2>1, <2>2
  <2>4. m.to = t /\ m.value = device' /\ n.to = Signal /\ n.value = device'
    OBVIOUS
  <2>5. Signals(device') = IF told THEN <<n>> ELSE <<>>
    BY DEF Signals
  <2> HIDE DEF m, n
  <2>6. CASE ~ told
    <3>1. wire \o <<m>> \in Seq(Message)
      BY <1>1, <2>3
    <3>2. wire' = wire \o <<m>>
      BY <1>1, <2>3, <2>5, <2>6, <3>1, ConcatEmptySeq
    <3>3. Grows /\ Len(wire') = Len(wire) + 1 /\ wire'[Len(wire) + 1] = m
      BY <1>2, <2>3, <3>2
    <3> QED BY <1>1, <1>5, <2>3, <2>4, <2>6, <3>3 DEF Served
  <2>7. CASE told
    <3>1. ASSUME NEW x \in Message, NEW y \in Message, wire' = (wire \o <<x>>) \o <<y>>
          PROVE  /\ Grows /\ Len(wire') = Len(wire) + 2
                 /\ wire'[Len(wire) + 1] = x /\ wire'[Len(wire) + 2] = y
      <4> DEFINE w == wire \o <<x>>
      <4>1. /\ w \in Seq(Message) /\ Len(w) = Len(wire) + 1 /\ w[Len(wire) + 1] = x
            /\ \A i \in 1 .. Len(wire) : w[i] = wire[i]
        BY <1>1, WireAdded
      <4>2. wire' = w \o <<y>>
        BY <3>1
      <4> HIDE DEF w
      <4>3. /\ wire' \in Seq(Message) /\ Len(wire') = Len(w) + 1 /\ wire'[Len(w) + 1] = y
            /\ \A i \in 1 .. Len(w) : wire'[i] = w[i]
        BY <4>1, <4>2, WireAdded
      <4>4. Len(wire) \in Nat /\ Len(wire') = Len(wire) + 2
        BY <1>1, <4>1, <4>3
      <4>5. \A i \in 1 .. Len(wire) : wire'[i] = wire[i]
        BY <4>1, <4>3, <4>4
      <4>6. wire'[Len(wire) + 1] = x
        BY <4>1, <4>3, <4>4
      <4>7. wire'[Len(wire) + 2] = y
        <5>1. Len(w) + 1 = Len(wire) + 2
          BY <4>1, <4>4
        <5> QED BY <4>3, <5>1
      <4>8. Grows
        BY <1>1, <4>3, <4>4, <4>5 DEF Grows
      <4> QED BY <4>4, <4>6, <4>7, <4>8
    <3>2. \/ wire' = (wire \o <<n>>) \o <<m>>
          \/ wire' = (wire \o <<m>>) \o <<n>>
      BY <2>3, <2>5, <2>7
    <3>3. CASE wire' = (wire \o <<n>>) \o <<m>>
      <4>1. /\ Grows /\ Len(wire') = Len(wire) + 2
            /\ wire'[Len(wire) + 1] = n /\ wire'[Len(wire) + 2] = m
        BY <2>3, <3>1, <3>3
      <4>2. Served(t)
        BY <1>5, <2>3, <2>4, <2>7, <4>1 DEF Served
      <4>3. device' \in Nat /\ told' \in BOOLEAN
        BY <1>1, <2>3
      <4> QED BY <1>1, <4>1, <4>2, <4>3
    <3>4. CASE wire' = (wire \o <<m>>) \o <<n>>
      <4>1. /\ Grows /\ Len(wire') = Len(wire) + 2
            /\ wire'[Len(wire) + 1] = m /\ wire'[Len(wire) + 2] = n
        BY <2>3, <3>1, <3>4
      <4>2. Served(t)
        BY <1>5, <2>3, <2>4, <2>7, <4>1 DEF Served
      <4>3. device' \in Nat /\ told' \in BOOLEAN
        BY <1>1, <2>3
      <4> QED BY <1>1, <4>1, <4>2, <4>3
    <3> QED BY <3>2, <3>3, <3>4
  <2> QED BY <1>1, <2>6, <2>7
<1> QED BY <1>3, <1>4, <1>5 DEF Serve

LEMMA ResponseIs ==
  ASSUME TypeOK, GotResponse
  PROVE  /\ loop /\ wire # <<>> /\ wire' = Tail(wire)
         /\ Head(wire).to \in Task /\ Head(wire).value \in Nat
         /\ IF state[Head(wire).to] = "asked"
            THEN /\ ready' = Append(ready, Head(wire).to)
                 /\ answer' = [answer EXCEPT ![Head(wire).to] = Head(wire).value]
            ELSE UNCHANGED <<ready, answer>>
         /\ UNCHANGED <<device, told, requests, subscribed, cache, seen, job, state, loop>>
<1>1. PICK t \in Task, v \in Value :
        /\ Receive([to |-> t, value |-> v])
        /\ IF state[t] = "asked"
           THEN /\ ready' = Append(ready, t)
                /\ answer' = [answer EXCEPT ![t] = v]
           ELSE UNCHANGED <<ready, answer>>
  BY DEF GotResponse
<1>2. wire # <<>> /\ wire' = Tail(wire) /\ Head(wire) = [to |-> t, value |-> v] /\ loop
  BY <1>1 DEF Receive
<1>3. Head(wire) \in Message
  BY <1>2, Taken DEF TypeOK
<1>4. Head(wire).to = t /\ Head(wire).value = v /\ v \in Nat
  BY <1>2, <1>3 DEF Message
<1>5. UNCHANGED <<device, told, requests, subscribed, cache, seen, job, state, loop>>
  BY <1>1 DEF GotResponse, Receive, remote
<1> QED BY <1>1, <1>2, <1>4, <1>5

LEMMA SignalIs ==
  ASSUME TypeOK, GotSignal
  PROVE  /\ loop /\ wire # <<>> /\ wire' = Tail(wire)
         /\ Head(wire).to = Signal /\ Head(wire).value \in Nat
         /\ seen' = IF Notices(Head(wire).value) THEN Head(wire).value ELSE seen
         /\ cache' = Kept(Head(wire).value) /\ loop' = ~ Raises
         /\ UNCHANGED <<device, told, requests, subscribed, job, state, answer, ready>>
<1>1. PICK v \in Value : Receive([to |-> Signal, value |-> v]) /\ Update(v)
  BY DEF GotSignal
<1>2. wire # <<>> /\ wire' = Tail(wire) /\ Head(wire) = [to |-> Signal, value |-> v] /\ loop
  BY <1>1 DEF Receive
<1>3. Head(wire) \in Message
  BY <1>2, Taken DEF TypeOK
<1>4. Head(wire).to = Signal /\ Head(wire).value = v /\ v \in Nat
  BY <1>2, <1>3 DEF Message
<1>5. UNCHANGED <<device, told, requests, subscribed, job, state, answer, ready>>
  BY <1>1 DEF GotSignal, Receive, remote, tasks
<1>6. /\ seen' = IF Notices(v) THEN v ELSE seen
      /\ cache' = Kept(v) /\ loop' = ~ Raises
  BY <1>1 DEF GotSignal, Update, Tell
<1> QED BY <1>2, <1>4, <1>5, <1>6

\* A task goes on with its answer.
Acts(t) == Get(t) \/ Snapshot(t) \/ Set(t) \/ Subscribe(t) \/ Unsubscribe(t) \/ Polled(t)
Ends1(t) == \E how \in {"done", "broken", "found", "sleeping"} :
              state' = [state EXCEPT ![t] = how]

LEMMA ActsIs ==
  ASSUME TypeOK, Asked, NEW t \in Task, Acts(t)
  PROVE  /\ ready # <<>> /\ t = Head(ready) /\ ready' = Tail(ready)
         /\ state[t] = "asked" /\ answer[t] \in Nat
         /\ UNCHANGED <<device, told, requests, wire, job, answer, loop>>
         /\ Ends1(t)
         /\ subscribed' \in BOOLEAN
         /\ cache' \in {cache, None, answer[t]} /\ seen' \in {seen, answer[t]}
<1>1. PICK j \in Job : Resumes(t, j)
  BY DEF Acts, Get, Snapshot, Set, Subscribe, Unsubscribe, Polled, Job
<1>2. /\ ready # <<>> /\ t = Head(ready) /\ ready' = Tail(ready)
      /\ UNCHANGED <<device, told, requests, wire, job, answer, loop>>
  BY <1>1 DEF Resumes, remote
<1>3. t = ready[1] /\ 1 \in DOMAIN ready
  BY <1>2, Taken DEF TypeOK
<1>4. state[t] = "asked" /\ answer[t] \in Nat
  BY <1>3 DEF Asked
<1>5. Ends1(t)
  BY DEF Acts, Get, Snapshot, Set, Subscribe, Unsubscribe, Polled, Ends, Ends1
<1>6. subscribed' \in BOOLEAN
  BY DEF Acts, Get, Snapshot, Set, Subscribe, Unsubscribe, Polled, TypeOK
<1>7. cache' \in {cache, None, answer[t]}
  BY DEF Acts, Get, Snapshot, Set, Subscribe, Unsubscribe, Polled, Update, Kept, Cleaned
<1>8. seen' \in {seen, answer[t]}
  BY DEF Acts, Get, Snapshot, Set, Subscribe, Unsubscribe, Polled, GotValue, Update, Tell
<1> QED BY <1>2, <1>4, <1>5, <1>6, <1>7, <1>8

\* A task that starts or polls puts a request after the others, if it does not
\* only wait.
Requests(t) ==
  /\ UNCHANGED <<device, told, wire, ready, subscribed, cache, seen, answer, loop, origin>>
  /\ \/ state' = [state EXCEPT ![t] = "asked"] /\ requests' = Append(requests, t)
     \/ state' = [state EXCEPT ![t] = "waiting"] /\ requests' = requests

LEMMA StartIs ==
  ASSUME NEW t \in Task, NEW j \in Job, Start(t, j)
  PROVE  /\ Requests(t) /\ state[t] = "idle" /\ job' = [job EXCEPT ![t] = j]
<1>1. Requests(t)
  BY DEF Start, Requests, remote, histories
<1> QED BY <1>1 DEF Start

\* A task ends, and with it what it got.
Leaves(t) ==
  /\ UNCHANGED <<device, told, requests, wire, subscribed, cache, seen, job, answer, loop, origin>>
  /\ \E how \in {"done", "cancelled"} : state' = [state EXCEPT ![t] = how]
  /\ state[t] \notin Over

LEMMA LeavesIs ==
  ASSUME NEW t \in Task, Woken(t) \/ Cancel(t)
  PROVE  Leaves(t) /\ ready' = Withdrawn(t)
BY DEF Woken, Cancel, Ends, Leaves, remote

LEMMA WithdrawnIs ==
  ASSUME TypeOK, OneAnswer, NEW t \in Task
  PROVE  /\ Withdrawn(t) \in Seq(Task) /\ Len(Withdrawn(t)) <= Len(ready)
         /\ \A i \in 1 .. Len(Withdrawn(t)) :
              \E j \in 1 .. Len(ready) : Withdrawn(t)[i] = ready[j] /\ ready[j] # t
         /\ \A i, j \in 1 .. Len(Withdrawn(t)) : Withdrawn(t)[i] = Withdrawn(t)[j] => i = j
<1>1. ready \in Seq(Task) /\ DOMAIN ready = 1 .. Len(ready) /\ Len(ready) \in Nat
  BY DEF TypeOK
<1>2. \A i, j \in 1 .. Len(ready) : ready[i] = ready[j] => i = j
  BY <1>1 DEF OneAnswer
<1>3. CASE \E k \in DOMAIN ready : ready[k] = t
  <2> DEFINE k == CHOOSE k \in DOMAIN ready : ready[k] = t
             w == RemoveAt(ready, k)
  <2>1. k \in 1 .. Len(ready) /\ ready[k] = t /\ Withdrawn(t) = w
    BY <1>1, <1>3 DEF Withdrawn
  <2> HIDE DEF k
  <2>2. /\ w \in Seq(Task) /\ Len(w) = Len(ready) - 1
        /\ \A i \in 1 .. Len(ready) - 1 : w[i] = IF i < k THEN ready[i] ELSE ready[i + 1]
    BY <1>1, <2>1, Removed
  <2> HIDE DEF w
  <2>3. ASSUME NEW i \in 1 .. Len(w)
        PROVE  /\ w[i] = ready[IF i < k THEN i ELSE i + 1]
               /\ (IF i < k THEN i ELSE i + 1) \in 1 .. Len(ready)
               /\ (IF i < k THEN i ELSE i + 1) # k
    BY <1>1, <2>1, <2>2
  <2>4. \A i \in 1 .. Len(w) : \E j \in 1 .. Len(ready) : w[i] = ready[j] /\ ready[j] # t
    BY <1>2, <2>1, <2>3
  <2>5. ASSUME NEW i \in 1 .. Len(w), NEW j \in 1 .. Len(w), w[i] = w[j]
        PROVE  i = j
    <3>1. (IF i < k THEN i ELSE i + 1) = (IF j < k THEN j ELSE j + 1)
      BY <1>2, <2>3, <2>5
    <3> QED BY <1>1, <2>1, <3>1
  <2> QED BY <1>1, <2>1, <2>2, <2>4, <2>5
<1>4. CASE ~ \E k \in DOMAIN ready : ready[k] = t
  <2>1. Withdrawn(t) = ready
    BY <1>4 DEF Withdrawn
  <2> QED BY <1>1, <1>2, <1>4, <2>1
<1> QED BY <1>3, <1>4

-----------------------------------------------------------------------------
(* What is on its way *)

LEMMA InitWay ==
  Init => WayInv
<1>1. Init => TypeOK
  <2> SUFFICES ASSUME Init
               PROVE  TypeOK
    OBVIOUS
  <2>1. device \in Nat /\ told \in BOOLEAN /\ subscribed \in BOOLEAN /\ loop \in BOOLEAN
    BY DEF Init
  <2>2. requests \in Seq(Task) /\ wire \in Seq(Message) /\ ready \in Seq(Task)
    BY DEF Init
  <2>3. job \in [Task -> Job \cup {None}] /\ answer \in [Task -> Nat \cup {None}]
    BY DEF Init
  <2>4. state \in [Task -> States] /\ cache \in Nat \cup {None} /\ seen \in Nat \cup {None}
    BY DEF Init, States
  <2> QED BY <2>1, <2>2, <2>3, <2>4 DEF TypeOK
<1>2. Init => Asked /\ OneAnswer
  BY DEF Init, Asked, OneAnswer
<1> QED BY <1>1, <1>2 DEF WayInv

\* What states and places have to do with each other is the same for the tasks
\* that nothing happens to.
LEMMA GrowsWay ==
  ASSUME WayInv, Change \/ Serve
  PROVE  WayInv'
<1>1. TypeOK /\ Asked /\ OneAnswer
  BY DEF WayInv
<1>2. /\ Grows /\ device' \in Nat /\ told' \in BOOLEAN
      /\ \/ requests' = requests /\ \A i \in DOMAIN wire' : i \notin DOMAIN wire => wire'[i].to = Signal
         \/ /\ requests # <<>> /\ requests' = Tail(requests)
            /\ \E k \in DOMAIN wire' : \A i \in DOMAIN wire' : i \notin DOMAIN wire =>
                 IF i = k THEN wire'[i].to = Head(requests) ELSE wire'[i].to = Signal
  <2>1. wire \in Seq(Message) /\ Len(wire) \in Nat /\ DOMAIN wire = 1 .. Len(wire)
    BY <1>1 DEF TypeOK
  <2>2. CASE Change
    <3>1. Grows /\ requests' = requests /\ told' = told /\ device' = device + 1
      BY <1>1, <2>2, ChangeSends
    <3>2. wire' \in Seq(Message) /\ DOMAIN wire' = 1 .. Len(wire')
      BY <3>1 DEF Grows
    <3>3. ASSUME NEW i \in DOMAIN wire', i \notin DOMAIN wire
          PROVE  wire'[i].to = Signal
      <4>1. told
        BY <1>1, <2>2, <3>3, ChangeSends
      <4>2. /\ Len(wire') = Len(wire) + 1
            /\ wire'[Len(wire) + 1] = [to |-> Signal, value |-> device']
        BY <1>1, <2>2, <4>1, ChangeSends
      <4>3. i = Len(wire) + 1
        BY <2>1, <3>2, <3>3, <4>2
      <4> QED BY <4>2, <4>3
    <3> QED BY <1>1, <3>1, <3>3 DEF TypeOK
  <2>3. CASE Serve
    <3>1. /\ requests # <<>> /\ requests' = Tail(requests)
          /\ Grows /\ Served(Head(requests)) /\ device' \in Nat /\ told' \in BOOLEAN
      BY <1>1, <2>3, ServeSends
    <3>2. wire' \in Seq(Message) /\ DOMAIN wire' = 1 .. Len(wire')
      BY <3>1 DEF Grows
    <3>3. \/ Len(wire') = Len(wire) + 1 /\ wire'[Len(wire) + 1].to = Head(requests)
          \/ /\ Len(wire') = Len(wire) + 2
             /\ wire'[Len(wire) + 1].to = Head(requests) /\ wire'[Len(wire) + 2].to = Signal
          \/ /\ Len(wire') = Len(wire) + 2
             /\ wire'[Len(wire) + 1].to = Signal /\ wire'[Len(wire) + 2].to = Head(requests)
      BY <3>1 DEF Served
    <3>4. \E k \in DOMAIN wire' : \A i \in DOMAIN wire' : i \notin DOMAIN wire =>
            IF i = k THEN wire'[i].to = Head(requests) ELSE wire'[i].to = Signal
      <4>1. CASE Len(wire') = Len(wire) + 1 /\ wire'[Len(wire) + 1].to = Head(requests)
        <5>1. Len(wire) + 1 \in DOMAIN wire'
          BY <2>1, <3>2, <4>1
        <5>2. \A i \in DOMAIN wire' : i \notin DOMAIN wire => i = Len(wire) + 1
          BY <2>1, <3>2, <4>1
        <5> QED BY <4>1, <5>1, <5>2
      <4>2. CASE /\ Len(wire') = Len(wire) + 2
                 /\ wire'[Len(wire) + 1].to = Head(requests) /\ wire'[Len(wire) + 2].to = Signal
        <5>1. Len(wire) + 1 \in DOMAIN wire'
          BY <2>1, <3>2, <4>2
        <5>2. \A i \in DOMAIN wire' : i \notin DOMAIN wire => i \in {Len(wire) + 1, Len(wire) + 2}
          BY <2>1, <3>2, <4>2
        <5> QED BY <2>1, <4>2, <5>1, <5>2
      <4>3. CASE /\ Len(wire') = Len(wire) + 2
                 /\ wire'[Len(wire) + 1].to = Signal /\ wire'[Len(wire) + 2].to = Head(requests)
        <5>1. Len(wire) + 2 \in DOMAIN wire'
          BY <2>1, <3>2, <4>3
        <5>2. \A i \in DOMAIN wire' : i \notin DOMAIN wire => i \in {Len(wire) + 1, Len(wire) + 2}
          BY <2>1, <3>2, <4>3
        <5> QED BY <2>1, <4>3, <5>1, <5>2
      <4> QED BY <3>3, <4>1, <4>2, <4>3
    <3> QED BY <3>1, <3>4
  <2> QED BY <2>2, <2>3
<1>3. /\ wire' \in Seq(Message) /\ DOMAIN wire \subseteq DOMAIN wire'
      /\ \A i \in DOMAIN wire : wire'[i] = wire[i]
      /\ UNCHANGED <<ready, subscribed, cache, seen, job, state, answer, loop>>
  BY <1>1, <1>2 DEF Grows, TypeOK, tasks
<1>4. TypeOK'
  <2>1. requests \in Seq(Task)
    BY <1>1 DEF TypeOK
  <2>2. requests # <<>> => Tail(requests) \in Seq(Task)
    BY <2>1, Taken
  <2>3. requests' \in Seq(Task)
    BY <1>2, <2>1, <2>2, Zenon
  <2> QED BY <1>1, <1>2, <1>3, <2>3 DEF TypeOK
<1>5. CASE /\ requests' = requests
           /\ \A i \in DOMAIN wire' : i \notin DOMAIN wire => wire'[i].to = Signal
  <2>1. Asked'
    BY <1>1, <1>3, <1>5 DEF Asked, Awaits
  <2>2. OneAnswer'
    <3>1. \A i \in DOMAIN requests : requests[i] \in Task
      BY <1>1 DEF TypeOK
    <3>2. \A i \in DOMAIN ready : ready[i] \in Task
      BY <1>1 DEF TypeOK
    <3>3. \A i \in DOMAIN wire' : i \in DOMAIN wire \/ wire'[i].to = Signal
      BY <1>5
    <3> QED BY <1>1, <1>3, <1>5, <3>1, <3>2, <3>3, Constants DEF OneAnswer
  <2> QED BY <1>4, <2>1, <2>2 DEF WayInv
<1>6. ASSUME requests # <<>>, requests' = Tail(requests), NEW k \in DOMAIN wire',
             \A i \in DOMAIN wire' : i \notin DOMAIN wire =>
               IF i = k THEN wire'[i].to = Head(requests) ELSE wire'[i].to = Signal
      PROVE  WayInv'
  <2>1. /\ Head(requests) = requests[1] /\ 1 \in DOMAIN requests
        /\ \A i \in DOMAIN requests' :
             i + 1 \in DOMAIN requests /\ requests'[i] = requests[i + 1] /\ i + 1 # 1
        /\ \A i \in DOMAIN requests' : i \in Nat
    BY <1>1, <1>6, Taken DEF TypeOK
  <2>2. \A i \in DOMAIN requests, j \in DOMAIN ready : requests[i] \in Task /\ ready[j] \in Task
    BY <1>1 DEF TypeOK
  <2>3. \A i \in DOMAIN wire' : i \in DOMAIN wire \/ i = k \/ wire'[i].to = Signal
    BY <1>6
  <2>4. k \notin DOMAIN wire => wire'[k].to = requests[1]
    BY <1>6, <2>1
  <2>5. Asked'
    BY <1>1, <1>3, <2>1, <2>3, <2>4 DEF Asked, Awaits
  <2>6. OneAnswer'
    <3>1. \A i, j \in DOMAIN requests' : requests'[i] = requests'[j] => i = j
      BY <1>1, <2>1 DEF OneAnswer
    <3>2. \A i, j \in DOMAIN wire' : wire'[i].to = wire'[j].to /\ wire'[i].to # Signal => i = j
      BY <1>1, <1>3, <2>1, <2>3, <2>4 DEF OneAnswer
    <3>3. \A i \in DOMAIN requests', j \in DOMAIN wire' : requests'[i] # wire'[j].to
      <4> SUFFICES ASSUME NEW i \in DOMAIN requests', NEW j \in DOMAIN wire'
                   PROVE  requests'[i] # wire'[j].to
        OBVIOUS
      <4>1. i + 1 \in DOMAIN requests /\ requests'[i] = requests[i + 1] /\ i + 1 # 1
        BY <2>1
      <4>2. requests[i + 1] # requests[1] /\ requests[i + 1] # Signal
        BY <1>1, <2>1, <2>2, <4>1, Constants DEF OneAnswer, TypeOK
      <4>3. CASE j \in DOMAIN wire
        BY <1>1, <1>3, <4>1, <4>3 DEF OneAnswer
      <4>4. CASE j \notin DOMAIN wire
        BY <2>3, <2>4, <4>1, <4>2, <4>4
      <4> QED BY <4>3, <4>4
    <3>4. \A i \in DOMAIN requests', j \in DOMAIN ready : requests'[i] # ready[j]
      BY <1>1, <2>1 DEF OneAnswer
    <3>5. \A i \in DOMAIN wire', j \in DOMAIN ready : wire'[i].to # ready[j]
      BY <1>1, <1>3, <2>1, <2>2, <2>3, <2>4, Constants DEF OneAnswer
    <3> QED BY <1>1, <1>3, <3>1, <3>2, <3>3, <3>4, <3>5 DEF OneAnswer
  <2> QED BY <1>4, <2>5, <2>6 DEF WayInv
<1> QED BY <1>2, <1>5, <1>6

\* A message is taken off the wire, and what is left was behind it.
LEMMA WireTaken ==
  ASSUME TypeOK, wire # <<>>, wire' = Tail(wire)
  PROVE  /\ wire' \in Seq(Message) /\ 1 \in DOMAIN wire /\ Head(wire) = wire[1]
         /\ \A i \in DOMAIN wire' :
              i + 1 \in DOMAIN wire /\ wire'[i] = wire[i + 1] /\ i + 1 # 1 /\ i \in Nat
BY Taken DEF TypeOK

LEMMA ReadyTaken ==
  ASSUME TypeOK, ready # <<>>, ready' = Tail(ready)
  PROVE  /\ ready' \in Seq(Task) /\ 1 \in DOMAIN ready /\ Head(ready) = ready[1]
         /\ \A i \in DOMAIN ready' :
              i + 1 \in DOMAIN ready /\ ready'[i] = ready[i + 1] /\ i + 1 # 1 /\ i \in Nat
BY Taken DEF TypeOK

LEMMA ResponseWay ==
  ASSUME WayInv, GotResponse
  PROVE  WayInv'
<1> DEFINE t == Head(wire).to
<1>1. TypeOK /\ Asked /\ OneAnswer
  BY DEF WayInv
<1>2. /\ wire # <<>> /\ wire' = Tail(wire) /\ t \in Task /\ Head(wire).value \in Nat
      /\ IF state[t] = "asked"
         THEN /\ ready' = Append(ready, t) /\ answer' = [answer EXCEPT ![t] = Head(wire).value]
         ELSE UNCHANGED <<ready, answer>>
      /\ UNCHANGED <<device, told, requests, subscribed, cache, seen, job, state, loop>>
  BY <1>1, ResponseIs
<1>3. /\ wire' \in Seq(Message) /\ 1 \in DOMAIN wire /\ t = wire[1].to
      /\ \A i \in DOMAIN wire' :
           i + 1 \in DOMAIN wire /\ wire'[i] = wire[i + 1] /\ i + 1 # 1 /\ i \in Nat
  BY <1>1, <1>2, WireTaken
<1> HIDE DEF t
<1>4. \A i \in DOMAIN wire' : wire'[i].to # t
  BY <1>1, <1>2, <1>3, Constants DEF OneAnswer
<1>5. /\ \A i, j \in DOMAIN wire' : wire'[i].to = wire'[j].to /\ wire'[i].to # Signal => i = j
      /\ \A i \in DOMAIN requests, j \in DOMAIN wire' : requests[i] # wire'[j].to
      /\ \A i \in DOMAIN wire', j \in DOMAIN ready : wire'[i].to # ready[j]
  BY <1>1, <1>3 DEF OneAnswer
<1>6. \A i \in DOMAIN wire' : wire'[i].to # Signal => Awaits(wire'[i].to)
  BY <1>1, <1>3 DEF Asked
<1>7. CASE state[t] = "asked"
  <2>1. /\ ready \in Seq(Task) /\ ready' \in Seq(Task) /\ Len(ready) \in Nat
        /\ DOMAIN ready = 1 .. Len(ready) /\ DOMAIN ready' = 1 .. Len(ready) + 1
        /\ ready'[Len(ready) + 1] = t /\ \A i \in 1 .. Len(ready) : ready'[i] = ready[i]
    <3>1. ready \in Seq(Task) /\ ready' = Append(ready, t)
      BY <1>1, <1>2, <1>7 DEF TypeOK
    <3>2. /\ ready' \in Seq(Task) /\ Len(ready') = Len(ready) + 1
          /\ ready'[Len(ready) + 1] = t /\ \A i \in 1 .. Len(ready) : ready'[i] = ready[i]
      BY <1>2, <3>1, Appended
    <3> QED BY <3>1, <3>2
  <2>2. answer' \in [Task -> Nat \cup {None}]
    BY <1>1, <1>2, <1>7 DEF TypeOK
  <2>3. TypeOK'
    BY <1>1, <1>2, <1>3, <2>1, <2>2 DEF TypeOK
  <2>4. \A j \in DOMAIN ready : ready[j] # t
    BY <1>1, <1>3 DEF OneAnswer
  <2>5. \A i \in DOMAIN requests : requests[i] # t
    BY <1>1, <1>3 DEF OneAnswer
  <2>6. \A i \in DOMAIN ready' :
          (i \in DOMAIN ready /\ ready'[i] = ready[i]) \/ (i = Len(ready) + 1 /\ ready'[i] = t)
    BY <2>1
  <2>7. answer'[t] \in Nat /\ \A u \in Task : u # t => answer'[u] = answer[u]
    BY <1>1, <1>2, <1>7 DEF TypeOK
  <2>8. \A i \in DOMAIN ready : ready[i] \in Task
    BY <1>1 DEF TypeOK
  <2>9. Asked'
    BY <1>1, <1>2, <1>6, <1>7, <2>4, <2>6, <2>7, <2>8 DEF Asked, Awaits
  <2>10. \A i, j \in DOMAIN ready' : ready'[i] = ready'[j] => i = j
    BY <1>1, <2>4, <2>6 DEF OneAnswer
  <2>11. OneAnswer'
    BY <1>1, <1>2, <1>4, <1>5, <2>5, <2>6, <2>10 DEF OneAnswer
  <2> QED BY <2>3, <2>9, <2>11 DEF WayInv
<1>8. CASE state[t] # "asked"
  <2>1. TypeOK'
    BY <1>1, <1>2, <1>3, <1>8 DEF TypeOK
  <2>2. Asked'
    BY <1>1, <1>2, <1>6, <1>8 DEF Asked, Awaits
  <2>3. OneAnswer'
    BY <1>1, <1>2, <1>5, <1>8 DEF OneAnswer
  <2> QED BY <2>1, <2>2, <2>3 DEF WayInv
<1> QED BY <1>7, <1>8

LEMMA SignalWay ==
  ASSUME WayInv, GotSignal
  PROVE  WayInv'
<1>1. TypeOK /\ Asked /\ OneAnswer
  BY DEF WayInv
<1>2. /\ wire # <<>> /\ wire' = Tail(wire) /\ Head(wire).value \in Nat
      /\ seen' \in {seen, Head(wire).value} /\ cache' \in {cache, Head(wire).value}
      /\ loop' \in BOOLEAN
      /\ UNCHANGED <<device, told, requests, subscribed, job, state, answer, ready>>
  BY <1>1, SignalIs DEF Kept, Raises
<1>3. /\ wire' \in Seq(Message)
      /\ \A i \in DOMAIN wire' :
           i + 1 \in DOMAIN wire /\ wire'[i] = wire[i + 1] /\ i \in Nat
  BY <1>1, <1>2, WireTaken
<1>4. TypeOK'
  BY <1>1, <1>2, <1>3 DEF TypeOK
<1>5. Asked'
  BY <1>1, <1>2, <1>3 DEF Asked, Awaits
<1>6. OneAnswer'
  BY <1>1, <1>2, <1>3 DEF OneAnswer
<1> QED BY <1>4, <1>5, <1>6 DEF WayInv

LEMMA ActsWay ==
  ASSUME WayInv, NEW t \in Task, Acts(t)
  PROVE  WayInv'
<1>1. TypeOK /\ Asked /\ OneAnswer
  BY DEF WayInv
<1>2. /\ ready # <<>> /\ t = Head(ready) /\ ready' = Tail(ready)
      /\ answer[t] \in Nat /\ subscribed' \in BOOLEAN
      /\ UNCHANGED <<device, told, requests, wire, job, answer, loop>>
      /\ cache' \in {cache, None, answer[t]} /\ seen' \in {seen, answer[t]}
  BY <1>1, ActsIs
<1>3. PICK how \in {"done", "broken", "found", "sleeping"} : state' = [state EXCEPT ![t] = how]
  BY <1>1, ActsIs DEF Ends1
<1>4. /\ ready' \in Seq(Task) /\ 1 \in DOMAIN ready /\ t = ready[1]
      /\ \A i \in DOMAIN ready' :
           i + 1 \in DOMAIN ready /\ ready'[i] = ready[i + 1] /\ i + 1 # 1 /\ i \in Nat
  BY <1>1, <1>2, ReadyTaken
<1>5. TypeOK'
  <2>1. state' \in [Task -> States]
    BY <1>1, <1>3 DEF TypeOK, States, Over
  <2> QED BY <1>1, <1>2, <1>4, <2>1 DEF TypeOK
<1>6. \A u \in Task : u # t => state'[u] = state[u]
  BY <1>3
<1>7. /\ \A i \in DOMAIN requests : requests[i] # t /\ requests[i] \in Task
      /\ \A i \in DOMAIN wire : wire[i].to # t /\ (wire[i].to # Signal => wire[i].to \in Task)
      /\ \A i \in DOMAIN ready' : ready'[i] # t /\ ready'[i] \in Task
  <2>1. \A i \in DOMAIN wire : wire[i] \in Message
    BY <1>1 DEF TypeOK
  <2>2. \A i \in DOMAIN requests : requests[i] \in Task
    BY <1>1 DEF TypeOK
  <2>3. \A i \in DOMAIN ready' : ready'[i] \in Task
    BY <1>4
  <2> QED BY <1>1, <1>4, <2>1, <2>2, <2>3 DEF OneAnswer, Message
<1>8. Asked'
  BY <1>1, <1>2, <1>4, <1>6, <1>7 DEF Asked, Awaits
<1>9. OneAnswer'
  BY <1>1, <1>2, <1>4 DEF OneAnswer
<1> QED BY <1>5, <1>8, <1>9 DEF WayInv

LEMMA RequestsWay ==
  ASSUME WayInv, NEW t \in Task, Requests(t), state[t] \in {"idle", "sleeping"},
         job' \in [Task -> Job \cup {None}], \A u \in Task : u # t => job'[u] = job[u]
  PROVE  WayInv'
<1>1. TypeOK /\ Asked /\ OneAnswer
  BY DEF WayInv
<1>2. /\ UNCHANGED <<device, told, wire, ready, subscribed, cache, seen, answer, loop>>
      /\ \A u \in Task : u # t => state'[u] = state[u]
      /\ state' \in [Task -> States]
      /\ \/ state'[t] = "asked" /\ requests' = Append(requests, t)
         \/ requests' = requests
  BY <1>1 DEF Requests, TypeOK, States
<1>3. /\ \A i \in DOMAIN requests : requests[i] \in Task
      /\ \A i \in DOMAIN wire : wire[i] \in Message
      /\ \A i \in DOMAIN ready : ready[i] \in Task
      /\ requests \in Seq(Task) /\ DOMAIN requests = 1 .. Len(requests) /\ Len(requests) \in Nat
  BY <1>1 DEF TypeOK
<1>4. ~ Awaits(t) /\ state[t] # "asked"
  BY DEF Awaits, Over
<1>5. /\ \A i \in DOMAIN requests : requests[i] # t
      /\ \A i \in DOMAIN wire : wire[i].to # t
      /\ \A i \in DOMAIN ready : ready[i] # t
  BY <1>1, <1>4, Constants DEF Asked
<1>6. /\ requests' \in Seq(Task)
      /\ \A i \in DOMAIN requests' :
           \/ i \in DOMAIN requests /\ requests'[i] = requests[i]
           \/ i = Len(requests) + 1 /\ requests'[i] = t /\ state'[t] = "asked"
  <2>1. CASE state'[t] = "asked" /\ requests' = Append(requests, t)
    <3>1. /\ requests' \in Seq(Task) /\ Len(requests') = Len(requests) + 1
          /\ requests'[Len(requests) + 1] = t
          /\ \A i \in 1 .. Len(requests) : requests'[i] = requests[i]
      BY <1>3, <2>1, Appended
    <3> QED BY <1>3, <2>1, <3>1
  <2>2. CASE requests' = requests
    BY <1>3, <2>2
  <2> QED BY <1>2, <2>1, <2>2
<1>7. TypeOK'
  BY <1>1, <1>2, <1>6 DEF TypeOK
<1>8. Asked'
  BY <1>1, <1>2, <1>3, <1>5, <1>6 DEF Asked, Awaits, Message
<1>9. OneAnswer'
  BY <1>1, <1>2, <1>3, <1>5, <1>6 DEF OneAnswer
<1> QED BY <1>7, <1>8, <1>9 DEF WayInv

LEMMA LeavesWay ==
  ASSUME WayInv, NEW t \in Task, Leaves(t),
         \/ /\ ready' = Withdrawn(t)
            /\ job[t] = "change" \/ state[t] # "asked"
         \/ ready' = ready /\ state[t] = "found"
  PROVE  WayInv'
<1>1. TypeOK /\ Asked /\ OneAnswer
  BY DEF WayInv
<1>2. /\ UNCHANGED <<device, told, requests, wire, subscribed, cache, seen, job, answer, loop>>
      /\ \A u \in Task : u # t => state'[u] = state[u]
      /\ state' \in [Task -> States] /\ state'[t] \in Over
  BY <1>1 DEF Leaves, TypeOK, States, Over
<1>3. /\ ready' \in Seq(Task)
      /\ \A i \in DOMAIN ready' : \E j \in DOMAIN ready : ready'[i] = ready[j] /\ ready[j] # t
      /\ \A i, j \in DOMAIN ready' : ready'[i] = ready'[j] => i = j
  <2>1. ready \in Seq(Task) /\ DOMAIN ready = 1 .. Len(ready)
    BY <1>1 DEF TypeOK
  <2>2. CASE ready' = Withdrawn(t)
    <3> DEFINE w == Withdrawn(t)
    <3>1. /\ w \in Seq(Task)
          /\ \A i \in 1 .. Len(w) : \E j \in 1 .. Len(ready) : w[i] = ready[j] /\ ready[j] # t
          /\ \A i, j \in 1 .. Len(w) : w[i] = w[j] => i = j
      BY <1>1, WithdrawnIs, Zenon
    <3> HIDE DEF w
    <3>2. DOMAIN w = 1 .. Len(w)
      BY <3>1
    <3>3. /\ \A i \in DOMAIN w : \E j \in DOMAIN ready : w[i] = ready[j] /\ ready[j] # t
          /\ \A i, j \in DOMAIN w : w[i] = w[j] => i = j
      BY <2>1, <3>1, <3>2, Zenon
    <3>4. ready' = w
      BY <2>2 DEF w
    <3> QED BY <3>1, <3>3, <3>4, Zenon
  <2>3. CASE ready' = ready /\ state[t] = "found"
    <3>1. \A i \in DOMAIN ready : ready[i] # t
      BY <1>1, <2>3 DEF Asked
    <3> QED BY <1>1, <2>1, <2>3, <3>1 DEF OneAnswer
  <2> QED BY <2>2, <2>3
<1>4. /\ \A i \in DOMAIN requests : requests[i] \in Task
      /\ \A i \in DOMAIN wire : wire[i] \in Message
      /\ \A i \in DOMAIN ready : ready[i] \in Task
  BY <1>1 DEF TypeOK
<1>5. Awaits(t) => Awaits(t)'
  BY <1>2 DEF Awaits, Leaves
<1>6. TypeOK'
  BY <1>1, <1>2, <1>3 DEF TypeOK
<1>7. Asked'
  <2>1. \A u \in Task : Awaits(u) => Awaits(u)'
    BY <1>2, <1>5 DEF Awaits
  <2>2. \A i \in DOMAIN ready' : state'[ready'[i]] = "asked" /\ answer'[ready'[i]] \in Nat
    BY <1>1, <1>2, <1>3, <1>4 DEF Asked
  <2> QED BY <1>1, <1>2, <1>4, <2>1, <2>2 DEF Asked, Message
<1>8. OneAnswer'
  BY <1>1, <1>2, <1>3 DEF OneAnswer
<1> QED BY <1>6, <1>7, <1>8 DEF WayInv

-----------------------------------------------------------------------------
(* Who waits *)

LEMMA InitWaiters ==
  Init => Waiters
BY DEF Init, Waiters

\* Telling the futures makes an end of the list.
LEMMA TellWaiters ==
  ASSUME Waiters, job' = job, \A u \in Task : state'[u] = "idle" => state[u] = "idle",
         \A u \in Task : job[u] = "wait" => state'[u] = state[u],
         UNCHANGED <<future, futures>> \/ \E v : Tell(v)
  PROVE  Waiters'
<1>1. CASE UNCHANGED <<future, futures>>
  BY <1>1 DEF Waiters
<1>2. ASSUME NEW v, Tell(v)
      PROVE  Waiters'
  <2>1. /\ future' = [t \in Task |-> IF \E i \in Told(v) : futures[i] = t THEN "set" ELSE future[t]]
        /\ futures' = <<>>
    BY <1>2 DEF Tell
  <2>2. \A i \in Told(v) : i \in DOMAIN futures
    BY DEF Told
  <2>3. future' \in [Task -> {"none", "pending", "set", "cancelled"}] /\ futures' \in Seq(Task)
    BY <2>1 DEF Waiters
  <2>4. \A t \in Task : future'[t] # "none" =>
          future[t] # "none" \/ \E i \in DOMAIN futures : futures[i] = t
    BY <2>1, <2>2
  <2>5. \A i \in DOMAIN futures' : FALSE
    BY <2>1
  <2> QED BY <2>3, <2>4, <2>5 DEF Waiters
<1> QED BY <1>1, <1>2

LEMMA NextWaiters ==
  ASSUME WayInv, Waiters, Next
  PROVE  Waiters'
<1>1. TypeOK /\ Asked
  BY DEF WayInv
<1>2. ASSUME Change \/ Serve
      PROVE  Waiters'
  BY <1>2, TellWaiters DEF Change, Serve, tasks
<1>3. ASSUME GotResponse
      PROVE  Waiters'
  BY <1>3, TellWaiters DEF GotResponse
<1>4. ASSUME GotSignal
      PROVE  Waiters'
  BY <1>4, TellWaiters DEF GotSignal, Update, tasks
<1>5. ASSUME NEW t \in Task, NEW j \in Job, Start(t, j)
      PROVE  Waiters'
  <2>1. /\ job' = [job EXCEPT ![t] = j] /\ state[t] = "idle" /\ state'[t] # "idle"
        /\ \A u \in Task : u # t => state'[u] = state[u] /\ job'[u] = job[u]
        /\ job'[t] = j /\ (j = "wait" => state'[t] = "waiting")
    BY <1>1, <1>5 DEF Start, TypeOK
  <2>2. CASE j \in {"wait", "change"} /\ future' = [future EXCEPT ![t] = "pending"]
             /\ futures' = Append(futures, t)
    <3>1. /\ futures' \in Seq(Task)
          /\ \A i \in DOMAIN futures' : (i \in DOMAIN futures /\ futures'[i] = futures[i]) \/ futures'[i] = t
      <4>1. /\ futures \in Seq(Task) /\ futures' \in Seq(Task)
            /\ Len(futures') = Len(futures) + 1 /\ futures'[Len(futures) + 1] = t
            /\ \A i \in 1 .. Len(futures) : futures'[i] = futures[i]
        BY <2>2, Appended DEF Waiters
      <4>2. DOMAIN futures' = 1 .. Len(futures) + 1 /\ DOMAIN futures = 1 .. Len(futures)
            /\ Len(futures) \in Nat
        BY <4>1
      <4>3. \A i \in DOMAIN futures' : i \in DOMAIN futures \/ i = Len(futures) + 1
        BY <4>2
      <4> QED BY <4>1, <4>2, <4>3
    <3>2. /\ future' \in [Task -> {"none", "pending", "set", "cancelled"}]
          /\ \A u \in Task : u # t => future'[u] = future[u]
      BY <2>2 DEF Waiters
    <3> QED BY <2>1, <2>2, <3>1, <3>2 DEF Waiters
  <2>3. CASE UNCHANGED <<future, futures>>
    <3>1. \A u \in Task : future[u] # "none" \/ (\E i \in DOMAIN futures : futures[i] = u) => u # t
      BY <2>1 DEF Waiters
    <3> QED BY <2>1, <2>3, <3>1 DEF Waiters
  <2> QED BY <1>5, <2>2, <2>3 DEF Start, Listed
<1>6. ASSUME NEW t \in Task, Acts(t)
      PROVE  Waiters'
  <2>1. job' = job
    BY <1>1, <1>6, ActsIs
  <2>2. \A u \in Task : state'[u] = "idle" => state[u] = "idle"
    BY <1>1, <1>6, ActsIs DEF Ends1, TypeOK
  <2>3. \A u \in Task : job[u] = "wait" => state'[u] = state[u]
    <3>1. job[t] # "wait" /\ \A u \in Task : u # t => state'[u] = state[u]
      <4>1. state[t] = "asked" /\ Ends1(t)
        BY <1>1, <1>6, ActsIs
      <4> QED BY <4>1 DEF Ends1, Waiters
    <3> QED BY <3>1
  <2>4. UNCHANGED <<future, futures>> \/ \E v : Tell(v)
    BY <1>6 DEF Acts, Get, Snapshot, Set, Subscribe, Unsubscribe, Polled, GotValue, Update
  <2> QED BY <2>1, <2>2, <2>4, <2>3, TellWaiters
<1>7. ASSUME NEW t \in Task, Poll(t)
      PROVE  Waiters'
  BY <1>1, <1>7 DEF Poll, Waiters, TypeOK
<1>8. ASSUME NEW t \in Task, Found(t) \/ Woken(t) \/ Cancel(t)
      PROVE  Waiters'
  <2>1. /\ job' = job /\ futures' = futures
        /\ \A u \in Task : state'[u] = "idle" => state[u] = "idle"
        /\ \A u \in Task : state'[u] \in {"asked", "found", "sleeping"} => state'[u] = state[u]
    BY <1>1, <1>8 DEF Found, Woken, Cancel, Ends, TypeOK
  <2>2. \/ future' = [future EXCEPT ![t] = IF @ = "pending" THEN "cancelled" ELSE @]
        \/ future' = future
    BY <1>8 DEF Found, Woken, Cancel
  <2>3. /\ future' \in [Task -> {"none", "pending", "set", "cancelled"}]
        /\ \A u \in Task : future'[u] # "none" => future[u] # "none"
    BY <2>2 DEF Waiters
  <2> QED BY <2>1, <2>3 DEF Waiters
<1> QED
  BY <1>2, <1>3, <1>4, <1>5, <1>6, <1>7, <1>8 DEF Next, Step, Acts

-----------------------------------------------------------------------------
(* Every step *)

LEMMA NextWay ==
  ASSUME WayInv, Waiters, Next
  PROVE  WayInv'
<1>1. TypeOK
  BY DEF WayInv
<1>2. ASSUME NEW t \in Task, NEW j \in Job, Start(t, j)
      PROVE  WayInv'
  <2>1. /\ Requests(t) /\ state[t] = "idle" /\ job' = [job EXCEPT ![t] = j]
    BY <1>2, StartIs
  <2>2. job' \in [Task -> Job \cup {None}] /\ \A u \in Task : u # t => job'[u] = job[u]
    BY <1>1, <2>1 DEF TypeOK
  <2> QED BY <2>1, <2>2, RequestsWay
<1>3. ASSUME NEW t \in Task, Poll(t)
      PROVE  WayInv'
  <2>1. Requests(t) /\ state[t] = "sleeping" /\ job' = job
    BY <1>3 DEF Poll, Requests, remote, histories
  <2>2. job' \in [Task -> Job \cup {None}] /\ \A u \in Task : u # t => job'[u] = job[u]
    BY <1>1, <2>1 DEF TypeOK
  <2> QED BY <2>1, <2>2, RequestsWay
<1>4. ASSUME NEW t \in Task, Woken(t) \/ Cancel(t)
      PROVE  WayInv'
  <2>1. job[t] = "change" \/ state[t] # "asked"
    BY <1>4 DEF Woken, Cancel, Waiters
  <2> QED BY <1>4, <2>1, LeavesIs, LeavesWay
<1>5. ASSUME NEW t \in Task, Found(t)
      PROVE  WayInv'
  <2>1. Leaves(t) /\ ready' = ready /\ state[t] = "found"
    BY <1>5 DEF Found, Ends, Leaves, Over, remote, histories
  <2> QED BY <2>1, LeavesWay
<1> QED
  BY <1>2, <1>3, <1>4, <1>5, GrowsWay, ResponseWay, SignalWay, ActsWay DEF Next, Step, Acts

\* A task that is over does nothing more.
LEMMA NextEnds ==
  ASSUME WayInv, Waiters, Next
  PROVE  /\ \A u \in Task : state[u] \in Over => state'[u] = state[u]
         /\ job' = job \/ \E t \in Task, j \in Job : Start(t, j)
<1>1. TypeOK /\ Asked
  BY DEF WayInv
<1>2. CASE Change \/ Serve \/ GotResponse \/ GotSignal
  BY <1>2 DEF Change, Serve, GotResponse, GotSignal, tasks
<1>3. ASSUME NEW t \in Task, NEW j \in Job, Start(t, j)
      PROVE  \A u \in Task : state[u] \in Over => state'[u] = state[u]
  <2>1. Requests(t) /\ state[t] = "idle"
    BY <1>3, StartIs
  <2>2. /\ state[t] \notin Over
        /\ \/ state' = [state EXCEPT ![t] = "asked"]
           \/ state' = [state EXCEPT ![t] = "waiting"]
    BY <2>1 DEF Requests, Over
  <2>3. \A u \in Task : u # t => state'[u] = state[u]
    BY <1>1, <2>2 DEF TypeOK
  <2> QED BY <2>2, <2>3
<1>4. ASSUME NEW t \in Task, Acts(t)
      PROVE  job' = job /\ \A u \in Task : state[u] \in Over => state'[u] = state[u]
  <2>1. job' = job /\ state[t] = "asked" /\ Ends1(t)
    BY <1>1, <1>4, ActsIs
  <2> QED BY <2>1 DEF Ends1, Over
<1>5. ASSUME NEW t \in Task, Found(t) \/ Poll(t) \/ Woken(t) \/ Cancel(t)
      PROVE  job' = job /\ \A u \in Task : state[u] \in Over => state'[u] = state[u]
  <2>1. /\ job' = job /\ state[t] \notin Over
        /\ \/ state' = [state EXCEPT ![t] = "done"]
           \/ state' = [state EXCEPT ![t] = "asked"]
           \/ state' = [state EXCEPT ![t] = "cancelled"]
    BY <1>5 DEF Found, Poll, Woken, Cancel, Ends, Over
  <2>2. \A u \in Task : u # t => state'[u] = state[u]
    BY <1>1, <2>1 DEF TypeOK
  <2> QED BY <2>1, <2>2
<1> QED BY <1>2, <1>3, <1>4, <1>5 DEF Next, Step, Acts

-----------------------------------------------------------------------------
(* What the handler saw *)

LEMMA InitHandler ==
  Init => HandlerInv
BY DEF Init, HandlerInv, Uncached, HandlerSawIt

\* A step that leaves the cache.
LEMMA IdleHandler ==
  ASSUME HandlerInv, UNCHANGED <<subscribed, cache, seen, origin>>,
         loop' => loop, \A u \in Task : state[u] \in Over => state'[u] = state[u]
  PROVE  HandlerInv'
<1>1. Uncached'
  BY DEF HandlerInv, Uncached
<1>2. HandlerSawIt'
  BY DEF HandlerInv, HandlerSawIt, Over
<1> QED BY <1>1, <1>2 DEF HandlerInv

\* What the cache is given the handler was called with, or it was there before.
LEMMA ActsHandler ==
  ASSUME WayInv, HandlerInv, NEW t \in Task, Acts(t)
  PROVE  HandlerInv'
<1> DEFINE v == answer[t]
<1>1. TypeOK /\ Asked
  BY DEF WayInv
<1>2. state[t] = "asked" /\ v \in Nat /\ UNCHANGED <<job, loop>> /\ Ends1(t)
  BY <1>1, ActsIs
<1>3. /\ state' \in [Task -> States] /\ \A u \in Task : u # t => state'[u] = state[u]
      /\ state[t] \notin Over
  BY <1>1, <1>2 DEF Ends1, TypeOK, States, Over
<1>4. v # None /\ cache \in Nat \cup {None} /\ subscribed \in BOOLEAN
  BY <1>1, <1>2, Constants DEF TypeOK
<1> HIDE DEF v
<1>5. ASSUME loop', \A u \in Task : state'[u] # "broken", origin # "leftover"
      PROVE  /\ cache \in {seen, None} /\ state'[t] # "broken"
  BY <1>2, <1>3, <1>5 DEF HandlerInv, HandlerSawIt, Over
<1>6. ASSUME \E how : CameAs(how), cache' = cache
      PROVE  origin' = origin
  BY <1>6 DEF CameAs
<1>7. CASE Get(t) \/ Polled(t)
  <2>1. /\ cache' = Kept(v) /\ subscribed' = subscribed
        /\ \/ cache # v /\ seen' = v
           \/ cache = v /\ seen' = seen
        /\ Fails(t) => state'[t] = "broken"
        /\ CameAs(Manner(t))
    BY <1>1, <1>7 DEF Get, Polled, GotValue, Tell, Notices, Ends, TypeOK, v
  <2>2. Uncached'
    BY <1>6, <2>1 DEF HandlerInv, Uncached, Kept
  <2>3. HandlerSawIt'
    BY <1>4, <1>5, <1>6, <2>1 DEF HandlerSawIt, HandlerInv, Uncached, Kept, Fails, v
  <2> QED BY <2>2, <2>3 DEF HandlerInv
<1>8. CASE Snapshot(t)
  <2>1. /\ cache' = (IF Fails(t) THEN cache ELSE v) /\ subscribed' = subscribed
        /\ \/ cache # v /\ seen' = v
           \/ cache = v /\ seen' = seen
        /\ Fails(t) => state'[t] = "broken"
        /\ CameAs(IF subscribed THEN Manner(t) ELSE "leftover")
    BY <1>1, <1>8 DEF Snapshot, GotValue, Tell, Notices, Ends, TypeOK, v
  <2>2. Uncached'
    <3>1. CASE cache' = cache
      BY <1>6, <2>1, <3>1 DEF HandlerInv, Uncached
    <3>2. CASE cache' # cache
      BY <2>1, <3>2 DEF CameAs, Uncached
    <3> QED BY <3>1, <3>2
  <2>3. HandlerSawIt'
    <3>1. CASE cache' = cache
      BY <1>4, <1>5, <1>6, <2>1, <3>1 DEF HandlerSawIt
    <3>2. CASE cache' # cache
      BY <2>1, <3>2 DEF HandlerSawIt
    <3> QED BY <3>1, <3>2
  <2> QED BY <2>2, <2>3 DEF HandlerInv
<1>9. CASE Set(t)
  <2>1. /\ subscribed' = subscribed
        /\ \/ /\ cache' = Kept(v) /\ seen' = (IF Notices(v) THEN v ELSE seen)
              /\ Raises => state'[t] = "broken"
           \/ UNCHANGED <<cache, seen>>
        /\ CameAs(Manner(t))
    BY <1>1, <1>9 DEF Set, Update, Tell, Ends, TypeOK, v
  <2>2. Uncached'
    BY <1>6, <2>1 DEF HandlerInv, Uncached, Kept
  <2>3. HandlerSawIt'
    BY <1>4, <1>5, <1>6, <2>1 DEF HandlerSawIt, HandlerInv, Uncached, Kept, Notices
  <2> QED BY <2>2, <2>3 DEF HandlerInv
<1>10. CASE Subscribe(t)
  <2>1. subscribed' /\ UNCHANGED <<cache, seen, origin>>
    BY <1>10 DEF Subscribe
  <2>2. HandlerSawIt'
    BY <1>5, <2>1 DEF HandlerSawIt
  <2> QED BY <2>1, <2>2 DEF HandlerInv, Uncached
<1>11. CASE Unsubscribe(t)
  <2>1. /\ seen' = seen
        /\ \/ subscribed' = FALSE /\ cache' = None
           \/ subscribed' = subscribed /\ cache' = cache
        /\ CameAs("timely")
    BY <1>4, <1>11 DEF Unsubscribe, Cleaned
  <2>2. Uncached'
    BY <1>6, <2>1 DEF HandlerInv, Uncached
  <2>3. HandlerSawIt'
    BY <1>5, <1>6, <2>1 DEF HandlerSawIt
  <2> QED BY <2>2, <2>3 DEF HandlerInv
<1> QED BY <1>7, <1>8, <1>9, <1>10, <1>11 DEF Acts

LEMMA NextHandler ==
  ASSUME WayInv, Waiters, HandlerInv, Next
  PROVE  HandlerInv'
<1>1. TypeOK
  BY DEF WayInv
<1>2. \A u \in Task : state[u] \in Over => state'[u] = state[u]
  BY NextEnds
<1>3. CASE Change \/ Serve
  BY <1>2, <1>3, IdleHandler DEF Change, Serve, histories
<1>4. CASE GotResponse
  <2>1. UNCHANGED <<subscribed, cache, seen, loop, origin>>
    BY <1>1, <1>4, ResponseIs DEF GotResponse, histories
  <2> QED BY <1>2, <2>1, IdleHandler
<1>5. CASE GotSignal
  <2> DEFINE v == Head(wire).value
  <2>1. /\ v \in Nat /\ seen' = (IF Notices(v) THEN v ELSE seen)
        /\ cache' = Kept(v) /\ loop /\ loop' = ~ Raises
        /\ UNCHANGED <<subscribed, job, state>>
    BY <1>1, <1>5, SignalIs
  <2> HIDE DEF v
  <2>2. cache' = cache => origin' = origin
    BY <1>5 DEF GotSignal, CameAs
  <2>3. Uncached'
    BY <2>1, <2>2 DEF HandlerInv, Uncached, Kept
  <2>4. HandlerSawIt'
    BY <1>1, <2>1, <2>2 DEF HandlerInv, HandlerSawIt, Uncached, Kept, Notices
  <2> QED BY <2>3, <2>4 DEF HandlerInv
<1>6. ASSUME NEW t \in Task, NEW j \in Job, Start(t, j)
      PROVE  HandlerInv'
  <2>1. UNCHANGED <<subscribed, cache, seen, loop, origin>>
    BY <1>6, StartIs DEF Requests
  <2> QED BY <1>2, <2>1, IdleHandler
<1>7. ASSUME NEW t \in Task, Acts(t)
      PROVE  HandlerInv'
  BY <1>7, ActsHandler
<1>8. ASSUME NEW t \in Task, Found(t) \/ Poll(t) \/ Woken(t) \/ Cancel(t)
      PROVE  HandlerInv'
  BY <1>2, <1>8, IdleHandler DEF Found, Poll, Woken, Cancel, histories
<1> QED BY <1>3, <1>4, <1>5, <1>6, <1>7, <1>8 DEF Next, Step, Acts

-----------------------------------------------------------------------------
(* Theorems *)

LEMMA Stutters ==
  ASSUME UNCHANGED vars
  PROVE  /\ WayInv /\ Waiters => WayInv' /\ Waiters'
         /\ HandlerInv => HandlerInv'
<1>1. UNCHANGED <<device, told, requests, wire, ready, subscribed, cache, seen, job, state,
                  answer, basis, future, futures, loop, origin>>
  BY DEF vars, remote, tasks, histories
<1>2. WayInv /\ Waiters => WayInv' /\ Waiters'
  BY <1>1 DEF WayInv, TypeOK, Asked, Awaits, OneAnswer, Waiters
<1>3. HandlerInv => HandlerInv'
  BY <1>1 DEF HandlerInv, Uncached, HandlerSawIt
<1> QED BY <1>2, <1>3

\* The variables keep their types, and at any time a task has at most one
\* request, answer on the wire or answer it did not act on yet, which it waits
\* for unless it polled for a change and gave up: request IDs and the queues of
\* the client keep the answers of calls apart.
THEOREM WayKept == Spec => [](WayInv /\ Waiters)
<1>1. Init => WayInv /\ Waiters
  BY InitWay, InitWaiters
<1>2. WayInv /\ Waiters /\ [Next]_vars => WayInv' /\ Waiters'
  BY NextWay, NextWaiters, Stutters
<1> QED BY <1>1, <1>2, PTL DEF Spec

\* Whatever gets into the cache of SHVValueClient the handler of on_change was
\* called with, unless an update raised: _value_update calls it before it fills
\* the cache (valueclient.py:57-68).  Only get_snapshot can leave a value there
\* that it did not see, when the path was not subscribed any more.
THEOREM HandlerSaw == Spec => []HandlerSawIt
<1>1. Init => HandlerInv
  BY InitHandler
<1>2. WayInv /\ Waiters /\ HandlerInv /\ [Next]_vars => HandlerInv'
  BY NextHandler, Stutters
<1>3. HandlerInv => HandlerSawIt
  BY DEF HandlerInv
<1> QED BY <1>1, <1>2, <1>3, WayKept, PTL DEF Spec
=============================================================================
