----------------------------- MODULE ValueClient -----------------------------
(***************************************************************************)
(* SHVValueClient: a cache of the latest value of one property, kept by    *)
(* change signals and by gets, with a handler and futures of those who     *)
(* wait for a change.  Tasks of the application run between the messages   *)
(* the receive loop handles: a task gets its answer in one step and acts   *)
(* on it in a later one.  Values are counted by the changes of the device. *)
(***************************************************************************)
EXTENDS Integers, Sequences, FiniteSets, SequencesExt

CONSTANTS
  Task,        \* tasks of the application, each for one operation
  Signal, None,
  MaxChanges   \* bound: changes the device makes by itself start below it

Job == {"get", "set", "subscribe", "unsubscribe", "snapshot", "wait", "change"}

ASSUME ValueClientAssumption ==
  Signal \notin Task /\ MaxChanges \in Nat /\ None \notin Nat /\ None \notin Job

\* Every task may set it once more.
Value == 0 .. MaxChanges + Cardinality(Task)
Over == {"done", "cancelled", "broken"}

VARIABLES
  device,      \* the value of the property
  told,        \* the broker sends its signals to this client
  requests,    \* tasks whose requests are on their way
  wire,        \* answers and signals on their way to the client
  ready,       \* tasks that got their answer and did not go on yet
  subscribed,  \* the RI is in _subscribes
  cache,       \* _cache[path]
  seen,        \* the value the handler was called with last
  job, state, answer,  \* of each task
  basis,       \* the value prop_change_wait compares with
  future,      \* the future of wait_for_change: "none", "pending", "set", "cancelled"
  futures,     \* _futures[path]
  loop,        \* the receive loop runs
  overtaken,   \* history: tasks for which a signal was handled after their answer
  origin       \* history: how the cached value got there, "late" if it was in an
               \* overtaken answer, "leftover" if the path was not subscribed

remote == <<device, told>>
tasks == <<job, state, answer, basis>>
histories == <<overtaken, origin>>
vars == <<remote, requests, wire, ready, subscribed, cache, seen, tasks, future, futures, loop,
          histories>>

Init ==
  /\ device = 0 /\ told = FALSE /\ requests = <<>> /\ wire = <<>> /\ ready = <<>>
  /\ subscribed = FALSE /\ cache = None /\ seen = None
  /\ job = [t \in Task |-> None] /\ state = [t \in Task |-> "idle"]
  /\ answer = [t \in Task |-> None] /\ basis = [t \in Task |-> None]
  /\ future = [t \in Task |-> "none"] /\ futures = <<>>
  /\ loop = TRUE /\ overtaken = {} /\ origin = "timely"

-----------------------------------------------------------------------------
(* The device and the broker *)

Signals(v) == IF told THEN <<[to |-> Signal, value |-> v]>> ELSE <<>>

\* The value changes by itself.
Change ==
  /\ device < MaxChanges
  /\ device' = device + 1
  /\ wire' = wire \o Signals(device')
  /\ UNCHANGED <<told, requests, ready, subscribed, cache, seen, tasks, future, futures, loop,
                 histories>>

\* The oldest request is served.
Serve ==
  /\ requests # <<>>
  /\ requests' = Tail(requests)
  /\ LET t == Head(requests)
         reply(v) == <<[to |-> t, value |-> v]>>
     IN
     \/ /\ job[t] \in {"get", "snapshot", "change"}
        /\ wire' = wire \o reply(device)
        /\ UNCHANGED remote
     \/ /\ job[t] = "set"
        /\ device' = device + 1
        /\ wire' \in {wire \o Signals(device') \o reply(device'),
                      wire \o reply(device') \o Signals(device')}
        /\ UNCHANGED told
     \/ /\ job[t] \in {"subscribe", "unsubscribe"}
        /\ told' = (job[t] = "subscribe")
        /\ wire' = wire \o reply(IF told THEN 1 ELSE 0)
        /\ UNCHANGED device
  /\ UNCHANGED <<ready, subscribed, cache, seen, tasks, future, futures, loop, histories>>

-----------------------------------------------------------------------------
(* The cache *)

\* Variant: it is called only with the first value.
Notices_First(v) == cache = None

\* The handler is called with a value that differs from the cached one.
Notices(v) == cache # v

\* The futures that get the value: set_result raises at one that was cancelled.
Told(v) == {i \in DOMAIN futures : \A k \in 1 .. i : future[futures[k]] # "cancelled"}

Raises == \E i \in DOMAIN futures : future[futures[i]] = "cancelled"

\* Variant: values of paths that are not subscribed are cached too.
Kept_Always(v) == IF Raises THEN cache ELSE v

\* What the cache is updated to.
Kept(v) == IF ~ Raises /\ subscribed THEN v ELSE cache

\* The handler and the futures are told.
Tell(v) ==
  /\ seen' = IF Notices(v) THEN v ELSE seen
  /\ future' = [t \in Task |-> IF \E i \in Told(v) : futures[i] = t THEN "set" ELSE future[t]]
  /\ futures' = <<>>

\* _value_update: the handler, the futures, then the cache, unless it raised.
Update(v) == Tell(v) /\ cache' = Kept(v)

CameAs(how) == origin' = IF cache' = cache THEN origin ELSE how
Manner(t) == IF t \in overtaken THEN "late" ELSE "timely"

-----------------------------------------------------------------------------
(* The operations *)

\* Variant: who waits replaces who waited before.
Listed_Alone(t) == <<t>>

Listed(t) == Append(futures, t)

\* A task calls a method.  get_snapshot passes over a path that is not
\* subscribed; prop_change_wait waits for a signal too if it is.
Start(t, j) ==
  /\ state[t] = "idle"
  /\ j = "snapshot" => subscribed
  /\ job' = [job EXCEPT ![t] = j]
  /\ IF j = "wait"
     THEN state' = [state EXCEPT ![t] = "waiting"] /\ UNCHANGED requests
     ELSE state' = [state EXCEPT ![t] = "asked"] /\ requests' = Append(requests, t)
  /\ basis' = IF j = "change" THEN [basis EXCEPT ![t] = cache] ELSE basis
  /\ IF j = "wait" \/ (j = "change" /\ subscribed)
     THEN future' = [future EXCEPT ![t] = "pending"] /\ futures' = Listed(t)
     ELSE UNCHANGED <<future, futures>>
  /\ UNCHANGED <<remote, wire, ready, subscribed, cache, seen, answer, loop, histories>>

\* The receive loop takes the next message, also before tasks that can go on do.
Receive(m) ==
  /\ loop /\ wire # <<>> /\ m = Head(wire)
  /\ wire' = Tail(wire)
  /\ UNCHANGED <<remote, requests, subscribed>>

\* A response: the task that waits for it can go on.
GotResponse ==
  /\ \E t \in Task, v \in Value :
       /\ Receive([to |-> t, value |-> v])
       /\ IF state[t] = "asked"
          THEN /\ ready' = Append(ready, t)
               /\ answer' = [answer EXCEPT ![t] = v]
          ELSE UNCHANGED <<ready, answer>>
  /\ UNCHANGED <<cache, seen, job, state, basis, future, futures, loop, histories>>

\* A signal: what _value_update raises ends the receive loop.
GotSignal ==
  /\ \E v \in Value : Receive([to |-> Signal, value |-> v]) /\ Update(v)
  /\ loop' = ~ Raises
  /\ overtaken' = overtaken \cup ToSet(ready) /\ CameAs("timely")
  /\ UNCHANGED <<tasks, ready>>

\* A task goes on with the answer it got, in the order of the answers.
Resumes(t, j) ==
  /\ ready # <<>> /\ t = Head(ready) /\ job[t] = j
  /\ ready' = Tail(ready) /\ overtaken' = overtaken \ {t}
  /\ UNCHANGED <<remote, requests, wire, job, answer, basis, loop>>

Ends(t, how) == state' = [state EXCEPT ![t] = how]

\* prop_get updates the cache if the value differs from it, and may raise.
GotValue(t) == IF cache # answer[t] THEN Tell(answer[t]) ELSE UNCHANGED <<seen, future, futures>>
Fails(t) == cache # answer[t] /\ Raises

Get(t) ==
  /\ Resumes(t, "get")
  /\ GotValue(t) /\ cache' = Kept(answer[t]) /\ CameAs(Manner(t))
  /\ Ends(t, IF Fails(t) THEN "broken" ELSE "done")
  /\ UNCHANGED subscribed

\* get_snapshot puts the value in the cache, whether still subscribed or not.
Snapshot(t) ==
  /\ Resumes(t, "snapshot")
  /\ GotValue(t) /\ cache' = IF Fails(t) THEN cache ELSE answer[t]
  /\ CameAs(IF subscribed THEN Manner(t) ELSE "leftover")
  /\ Ends(t, IF Fails(t) THEN "broken" ELSE "done")
  /\ UNCHANGED subscribed

\* prop_set updates the cache if it was told to.
Set(t) ==
  /\ Resumes(t, "set")
  /\ \/ Update(answer[t]) /\ Ends(t, IF Raises THEN "broken" ELSE "done")
     \/ Ends(t, "done") /\ UNCHANGED <<cache, seen, future, futures>>
  /\ CameAs(Manner(t))
  /\ UNCHANGED subscribed

Subscribe(t) ==
  /\ Resumes(t, "subscribe") /\ Ends(t, "done")
  /\ subscribed' = TRUE
  /\ UNCHANGED <<cache, seen, future, futures, origin>>

\* clean_cache, when the only subscription is gone.
Cleaned == None

\* unsubscribe: the RI is forgotten if the broker knew it.
Unsubscribe(t) ==
  /\ Resumes(t, "unsubscribe") /\ Ends(t, "done")
  /\ subscribed' = (subscribed /\ answer[t] = 0)
  /\ cache' = IF answer[t] = 0 THEN cache ELSE Cleaned
  /\ CameAs("timely")
  /\ UNCHANGED <<seen, future, futures>>

\* The poll of prop_change_wait compares with the value that was cached.
Differs(t) == answer[t] # basis[t]

Polled(t) ==
  /\ Resumes(t, "change")
  /\ GotValue(t) /\ cache' = Kept(answer[t]) /\ CameAs(Manner(t))
  /\ Ends(t, IF Fails(t) THEN "broken" ELSE IF Differs(t) THEN "found" ELSE "sleeping")
  /\ UNCHANGED subscribed

\* It found a change: prop_change_wait cancels the other task and returns.
Found(t) ==
  /\ state[t] = "found"
  /\ Ends(t, "done")
  /\ future' = [future EXCEPT ![t] = IF @ = "pending" THEN "cancelled" ELSE @]
  /\ UNCHANGED <<remote, requests, wire, ready, subscribed, cache, seen, job, answer, basis,
                 futures, loop, histories>>

\* The poll asks again.
Poll(t) ==
  /\ state[t] = "sleeping"
  /\ state' = [state EXCEPT ![t] = "asked"]
  /\ requests' = Append(requests, t)
  /\ UNCHANGED <<remote, wire, ready, subscribed, cache, seen, job, answer, basis, future, futures, loop,
                 histories>>

\* The answer a task does not act on any more: it waits for one at a time.
Withdrawn(t) ==
  IF \E k \in DOMAIN ready : ready[k] = t
  THEN RemoveAt(ready, CHOOSE k \in DOMAIN ready : ready[k] = t)
  ELSE ready

\* The future was set: wait_for_change returns, and prop_change_wait with it,
\* which cancels its poll.
Woken(t) ==
  /\ future[t] = "set" /\ state[t] \notin Over
  /\ Ends(t, "done")
  /\ ready' = Withdrawn(t) /\ overtaken' = overtaken \ {t}
  /\ UNCHANGED <<remote, requests, wire, subscribed, cache, seen, job, answer, basis, future,
                 futures, loop, origin>>

\* A wait is cancelled or its timeout expires: its future stays listed.
Cancel(t) ==
  /\ job[t] \in {"wait", "change"} /\ state[t] \notin Over
  /\ Ends(t, "cancelled")
  /\ ready' = Withdrawn(t) /\ overtaken' = overtaken \ {t}
  /\ future' = [future EXCEPT ![t] = IF @ = "pending" THEN "cancelled" ELSE @]
  /\ UNCHANGED <<remote, requests, wire, subscribed, cache, seen, job, answer, basis, futures, loop,
                 origin>>

-----------------------------------------------------------------------------
Step(t) == \/ Get(t) \/ Snapshot(t) \/ Set(t) \/ Subscribe(t) \/ Unsubscribe(t)
           \/ Polled(t) \/ Found(t) \/ Poll(t)

Next ==
  \/ Change \/ Serve \/ GotResponse \/ GotSignal
  \/ \E t \in Task : (\E j \in Job : Start(t, j)) \/ Step(t) \/ Woken(t) \/ Cancel(t)

\* Requests are served, messages arrive, and tasks that can go on do.
Fairness == /\ WF_vars(Serve) /\ WF_vars(GotResponse) /\ WF_vars(GotSignal)
            /\ \A t \in Task : WF_vars(Step(t)) /\ WF_vars(Woken(t))

Spec == Init /\ [][Next]_vars /\ Fairness

-----------------------------------------------------------------------------
(* Properties *)

Quiet == loop /\ subscribed /\ requests = <<>> /\ wire = <<>> /\ ready = <<>>

\* While no message is on its way the cached value of a subscribed property is
\* the value of the device, unless a task put it there that was overtaken by a
\* signal, or get_snapshot did when the path was not subscribed any more.
CacheIsLatest == Quiet /\ cache # None /\ origin = "timely" => cache = device

\* valueclient.py:26 "automatically provides you with cached latest value as
\* received through signals or fetched", without these exceptions.
AlwaysLatest == Quiet /\ cache # None => cache = device

\* The handler of on_change was called with every value that got into the
\* cache, unless get_snapshot left it there or an update raised on the way.
HandlerSawIt ==
  (loop /\ origin # "leftover" /\ \A t \in Task : state[t] # "broken") => cache \in {seen, None}

\* Who waits for a change and is listed when a signal comes is woken, and
\* prop_change_wait notices a change even without a signal, unless an update
\* raised on the way.
Undone(t) == state[t] \notin Over /\ loop /\ \A u \in Task : state[u] # "broken"
ChangeIsNoticed == \A t \in Task :
  /\ (future[t] = "pending" /\ wire # <<>> /\ Last(wire).to = Signal) ~> ~ Undone(t)
  /\ (job[t] = "change" /\ basis[t] # device) ~> ~ Undone(t)
=============================================================================
