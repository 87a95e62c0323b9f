----------------------------- MODULE BrokerSubs -----------------------------
(***************************************************************************)
(* How the broker passes the subscriptions of its clients on to the        *)
(* brokers mounted under it: RpcBroker._subs_loop, a task that every login,*)
(* leave, subscribe and unsubscribe notifies.  A sub-broker is given every *)
(* subscription for two minutes (Lease) and again each minute (Period).    *)
(*                                                                         *)
(* The task gives way to the rest of the broker only where it awaits:      *)
(* while it asks a peer what it is, and asleep.  Its other steps are marked*)
(* by `Runs`, and nothing else happens between them.  Times are what is    *)
(* left of them, in ticks; peers answer within a tick.                     *)
(***************************************************************************)
EXTENDS Integers, FiniteSets, FiniteSetsExt

CONSTANTS
  Peer,             \* connections whose clients have a mount point
  RI,               \* resource identifiers
  Relevant,         \* pairs <<p, ri>>: ri may match below the mount point of p
  Period, Lease,    \* 60 s and 120 s in ticks
  MaxLogins         \* bound: registrations

None == -1
Far == Lease + 1    \* a deadline that is not reached

ASSUME BrokerSubsAssumption ==
  /\ IsFiniteSet(Peer) /\ Relevant \subseteq Peer \X RI
  /\ Period \in Nat \ {0} /\ Lease \in Nat /\ Lease >= 2 * Period
  /\ MaxLogins \in Nat

VARIABLES
  id,        \* broker_client_id of a peer, 0 for None: mounts are in this order
  nextId,
  kind,      \* what a peer is cached to be (peer_shv_version, peer_is_broker):
             \* "unknown" until it was asked, "broker" or "other"
  subs,      \* _subs: what the subscription has for a deadline
  changed,   \* __subs_changed
  task,      \* what the task does
  pass,      \* its iteration over _mounts: [who, at, left, size, nsubbrokers]
  subbrokers, subsubs,   \* variables of _subs_loop
  deadline,
  sent,      \* ticks since peer p was given ri in this registration
  late       \* RIs subscribed while a pass was under way (a history variable)

loop == <<task, pass, subbrokers, subsubs, deadline>>
vars == <<id, nextId, kind, subs, changed, task, pass, subbrokers, subsubs, deadline, sent, late>>

Over == {"none", "done", "failed"}
Waits == Over \cup {"created", "asking", "asleep", "hung"}
Mounted == {p \in Peer : id[p] # 0}
Wanted == {ri \in RI : subs[ri] # "none"}
NewPass == [who |-> None, at |-> 0, left |-> 0, size |-> 0, nsubbrokers |-> {}]
Untold == [ri \in RI |-> None]

Init ==
  /\ id = [p \in Peer |-> 0] /\ nextId = 1 /\ kind = [p \in Peer |-> "unknown"]
  /\ subs = [ri \in RI |-> "none"] /\ changed = FALSE
  /\ task = "none" /\ pass = NewPass /\ subbrokers = {} /\ subsubs = Untold
  /\ deadline = Far /\ sent = [p \in Peer |-> Untold] /\ late = {}

-----------------------------------------------------------------------------
(* The clients *)

\* Variant: a task that sleeps is not woken.
NotifyFinished ==
  IF task \in Over
  THEN /\ task' = "created" /\ subbrokers' = {} /\ subsubs' = Untold
       /\ UNCHANGED <<changed, pass, deadline>>
  ELSE UNCHANGED <<changed, loop>>

\* The task is created anew when it ended; its variables are its own.
Notify ==
  IF task \in Over
  THEN /\ task' = "created" /\ subbrokers' = {} /\ subsubs' = Untold
       /\ UNCHANGED <<changed, pass, deadline>>
  ELSE changed' = TRUE /\ UNCHANGED loop

Login(p) ==
  /\ task \in Waits /\ id[p] = 0 /\ nextId <= MaxLogins
  /\ id' = [id EXCEPT ![p] = nextId] /\ nextId' = nextId + 1
  /\ Notify
  /\ UNCHANGED <<kind, subs, sent, late>>

\* A reset ends the registration; the other end forgets what it was given.
Reset(p) ==
  /\ task \in Waits /\ id[p] # 0
  /\ id' = [id EXCEPT ![p] = 0] /\ kind' = [kind EXCEPT ![p] = "unknown"]
  /\ sent' = [sent EXCEPT ![p] = Untold]
  /\ Notify
  /\ UNCHANGED <<nextId, subs, late>>

\* The connection ends: a question that is asked over it is never answered,
\* and base.py:297 waits for ever to ask it again.  A new connection is a new
\* client.
Eof(p) ==
  /\ task \in Waits /\ id[p] # 0
  /\ id' = [id EXCEPT ![p] = 0] /\ kind' = [kind EXCEPT ![p] = "unknown"]
  /\ sent' = [sent EXCEPT ![p] = Untold]
  /\ IF task = "asking" /\ pass.who = p
     THEN /\ task' = "hung" /\ changed' = TRUE
          /\ UNCHANGED <<pass, subbrokers, subsubs, deadline>>
     ELSE Notify
  /\ UNCHANGED <<nextId, subs, late>>

\* A deadline of a subscription is made with time.time(), far beyond what
\* loop.time() reaches: it never passes.
Subscribe(ri, deadlined) ==
  /\ task \in Waits
  /\ subs' = [subs EXCEPT ![ri] = IF deadlined THEN "far" ELSE "kept"]
  /\ late' = IF task = "asking" /\ ri \notin Wanted THEN late \cup {ri} ELSE late
  /\ Notify
  /\ UNCHANGED <<id, nextId, kind, sent>>
Unsubscribe(ri) ==
  /\ task \in Waits /\ ri \in Wanted
  /\ subs' = [subs EXCEPT ![ri] = "none"]
  /\ Notify
  /\ UNCHANGED <<id, nextId, kind, sent, late>>

-----------------------------------------------------------------------------
(* The task *)

Due(ri) == subsubs[ri] \in {None, 0}
Begin ==
  /\ task \in {"created", "again"}
  /\ task' = "next"
  /\ pass' = [NewPass EXCEPT !.size = Cardinality(Mounted), !.left = Cardinality(Mounted)]
  /\ late' = {ri \in late : ~Due(ri)}
  /\ UNCHANGED <<id, nextId, kind, subs, changed, subbrokers, subsubs, deadline, sent>>

\* The iterator over a dict raises RuntimeError when the size of the dict
\* changed, or when it finds more entries than there were.
Further == {p \in Mounted : id[p] > pass.at}
Broken == Cardinality(Mounted) # pass.size \/ (Further # {} /\ pass.left = 0)
NextMount ==
  /\ task = "next" /\ ~Broken /\ Further # {}
  /\ LET p == CHOOSE q \in Further : \A r \in Further : id[q] <= id[r]
     IN /\ pass' = [pass EXCEPT !.who = p, !.at = id[p], !.left = @ - 1]
        /\ task' = IF kind[p] = "unknown" THEN "asking" ELSE "knows"
  /\ UNCHANGED <<id, nextId, kind, subs, changed, subbrokers, subsubs, deadline, sent, late>>
Raise ==
  /\ task = "next" /\ Broken
  /\ task' = "failed"
  /\ UNCHANGED <<id, nextId, kind, subs, changed, pass, subbrokers, subsubs, deadline, sent, late>>

Answered ==
  /\ task = "asking"
  /\ \E k \in {"broker", "other"} : kind' = [kind EXCEPT ![pass.who] = k]
  /\ task' = "knows"
  /\ UNCHANGED <<id, nextId, subs, changed, pass, subbrokers, subsubs, deadline, sent, late>>

Given(p) == {ri \in Wanted : (id[p] \notin subbrokers \/ Due(ri)) /\ <<p, ri>> \in Relevant}
PassOn ==
  /\ task = "knows" /\ kind[pass.who] = "broker"
  /\ LET p == pass.who
     IN /\ sent' = [sent EXCEPT ![p] = [ri \in RI |-> IF ri \in Given(p) /\ id[p] # 0
                                                      THEN 0 ELSE @[ri]]]
        /\ task' = IF id[p] = 0 THEN "failed" ELSE "next"   \* the assertion
        /\ pass' = [pass EXCEPT !.nsubbrokers = @ \cup {id[p]}]
  /\ UNCHANGED <<id, nextId, kind, subs, changed, subbrokers, subsubs, deadline, late>>
PassOver ==
  /\ task = "knows" /\ kind[pass.who] = "other"
  /\ task' = "next"
  /\ UNCHANGED <<id, nextId, kind, subs, changed, pass, subbrokers, subsubs, deadline, sent, late>>

\* Variant: as long as the lease.
AtLeaseEnd(ri) == IF subsubs[ri] \in {None, 0} THEN Lease ELSE subsubs[ri]
NextTime(ri) == IF Due(ri) THEN Period ELSE subsubs[ri]
\* nmin gives the greatest number (utils.py:31).
nmin(times) == IF times = {} THEN Far ELSE Max(times)
Finish ==
  /\ task = "next" /\ ~Broken /\ Further = {}
  /\ LET leased == \E ri \in RI : subs[ri] = "far"
     IN /\ subbrokers' = pass.nsubbrokers
        /\ subsubs' = [ri \in RI |-> IF ri \in Wanted THEN NextTime(ri) ELSE None]
        /\ deadline' = nmin({NextTime(ri) : ri \in Wanted} \cup IF leased THEN {Far} ELSE {})
        /\ IF ~leased /\ pass.nsubbrokers = {}
           THEN task' = "done" /\ UNCHANGED changed
           ELSE task' = (IF changed THEN "again" ELSE "asleep") /\ changed' = FALSE
        /\ pass' = NewPass
  /\ UNCHANGED <<id, nextId, kind, subs, sent, late>>

\* A timeout may come with the event, that stays set then.
Wake ==
  /\ task = "asleep" /\ (changed \/ deadline = 0)
  /\ task' = "again"
  /\ IF deadline = 0 THEN changed' \in {changed, FALSE} ELSE changed' = FALSE
  /\ UNCHANGED <<id, nextId, kind, subs, pass, subbrokers, subsubs, deadline, sent, late>>

-----------------------------------------------------------------------------
Older(t) == IF t = None THEN None ELSE Min({t + 1, Lease})
Less(t) == IF t \in {None, 0} THEN t ELSE t - 1
Tick ==
  /\ task \in Over \cup {"hung"} \/ (task = "asleep" /\ ~changed /\ deadline # 0)
  /\ sent' = [p \in Peer |-> [ri \in RI |-> Older(sent[p][ri])]]
  /\ subsubs' = [ri \in RI |-> Less(subsubs[ri])]
  /\ deadline' = IF deadline \in {0, Far} THEN deadline ELSE deadline - 1
  /\ UNCHANGED <<id, nextId, kind, subs, changed, task, pass, subbrokers, late>>

TaskStep == Begin \/ NextMount \/ Raise \/ PassOn \/ PassOver \/ Finish \/ Wake
Next ==
  \/ \E p \in Peer : Login(p) \/ Reset(p) \/ Eof(p)
  \/ \E ri \in RI : Unsubscribe(ri) \/ \E d \in BOOLEAN : Subscribe(ri, d)
  \/ TaskStep \/ Answered \/ Tick

\* The task goes on, peers answer, and time passes: clients do not act without
\* end in one tick.
Fairness == WF_vars(TaskStep) /\ WF_vars(Answered) /\ SF_vars(Tick)
Spec == Init /\ [][Next]_vars /\ Fairness

-----------------------------------------------------------------------------
(* Properties *)

Leased == \E ri \in RI : subs[ri] = "far"

\* While the task sleeps with nothing to take in, no sub-broker forgets a
\* subscription: what it was given is given again before its two minutes are
\* over.  What was subscribed while a pass was under way may have missed it, and
\* is given within a minute.  Neither holds while a subscription has a deadline:
\* the task then sleeps until that (broker.py:776).
LeasesAreKept ==
  (task = "asleep" /\ ~changed /\ ~Leased) =>
    \A p \in Mounted, ri \in Wanted :
      <<p, ri>> \in Relevant /\ kind[p] # "other" =>
        IF ri \in late THEN subsubs[ri] <= deadline /\ deadline <= Period
        ELSE sent[p][ri] \in 0..(Lease - 1)

\* A subscription gets to every sub-broker that is mounted, unless the task was
\* ended by an exception or waits for a connection that ended, or sleeps until
\* a deadline.
SubsReachBrokers ==
  \A p \in Peer, ri \in RI :
    (id[p] # 0 /\ ri \in Wanted /\ <<p, ri>> \in Relevant)
      ~> \/ id[p] = 0 \/ kind[p] = "other" \/ ri \notin Wanted \/ sent[p][ri] # None
         \/ task \in {"failed", "hung"} \/ Leased
=============================================================================
