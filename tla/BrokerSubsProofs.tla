-------------------------- MODULE BrokerSubsProofs --------------------------
(***************************************************************************)
(* Theorems about BrokerSubs for any number of peers and resource          *)
(* identifiers and for any lease of at least two periods: what the task    *)
(* knows of what every sub-broker was given, at each place it stands.      *)
(***************************************************************************)
EXTENDS BrokerSubs, FiniteSetTheorems, WellFoundedInduction, TLAPS

Tasks == {"none", "done", "failed", "created", "again", "next", "asking", "knows",
          "asleep", "hung"}

Passes == [who : Peer \cup {None}, at : Nat, left : Int, size : Int,
           nsubbrokers : SUBSET Nat]

TypeOK ==
  /\ id \in [Peer -> Nat] /\ nextId \in Nat \ {0}
  /\ kind \in [Peer -> {"unknown", "broker", "other"}]
  /\ subs \in [RI -> {"none", "kept", "far"}]
  /\ changed \in BOOLEAN /\ task \in Tasks
  /\ pass \in Passes
  /\ task \in {"asking", "knows"} => pass.who \in Peer
  /\ subbrokers \subseteq Nat
  /\ subsubs \in [RI -> None .. Period]
  /\ deadline \in 0 .. Far
  /\ sent \in [Peer -> [RI -> None .. Lease]]
  /\ late \subseteq RI

\* An ID is given once, and is greater than all before it.
IdsAreNew ==
  /\ \A p \in Peer : id[p] < nextId
  /\ \A p, q \in Mounted : id[p] = id[q] => p = q
  /\ \A n \in subbrokers \cup pass.nsubbrokers : n < nextId
  /\ pass.at < nextId

\* What of the last pass is not due again a sub-broker was given since its
\* period began.
GivenLately ==
  \A p \in Mounted, ri \in RI \ late :
    id[p] \in subbrokers /\ <<p, ri>> \in Relevant /\ ~Due(ri) =>
      sent[p][ri] \in 0 .. (Period - subsubs[ri])

\* The pass has come to the mounts before `at`, and to that of `at` unless it is
\* still at it.
Visited == {p \in Mounted : id[p] < pass.at \/ (id[p] = pass.at /\ task = "next")}

\* It stands at one peer, which may have been reset and logged in again since.
AtOne ==
  task \in {"asking", "knows"} =>
    /\ \A q \in Mounted : id[q] = pass.at => q = pass.who
    /\ id[pass.who] = 0 \/ id[pass.who] >= pass.at

InPass == task \in {"next", "asking", "knows"}

VisitedAreKnown ==
  InPass => \A p \in Visited : kind[p] = "other" \/ id[p] \in pass.nsubbrokers

\* A sub-broker that the pass came to has every subscription, from this pass or
\* from one before.
VisitedAreGiven ==
  InPass =>
    \A p \in Mounted, ri \in Wanted \ late :
      id[p] \in pass.nsubbrokers /\ <<p, ri>> \in Relevant =>
        (id[p] \in subbrokers /\ ~Due(ri)) \/ sent[p][ri] = 0

\* The task sleeps until the last of the subscriptions is due: what was due
\* before that is not older than twice the period when it wakes.
SleepsInTime ==
  (task = "asleep" /\ ~changed /\ ~Leased) =>
    /\ \A p \in Mounted : kind[p] = "other" \/ id[p] \in subbrokers
    /\ \A ri \in Wanted :
         subsubs[ri] # None /\ subsubs[ri] <= deadline /\ deadline <= Period
    /\ \A p \in Mounted, ri \in Wanted \ late :
         id[p] \in subbrokers /\ <<p, ri>> \in Relevant /\ subsubs[ri] = 0 =>
           sent[p][ri] >= 0 /\ sent[p][ri] + deadline <= 2 * Period - 1

SubsInv ==
  /\ IdsAreNew /\ GivenLately /\ AtOne
  /\ VisitedAreKnown /\ VisitedAreGiven /\ SleepsInTime

-----------------------------------------------------------------------------
(* Least and greatest numbers *)

LEMMA LeastBy ==
  ASSUME NEW R, IsWellFoundedOn(R, Nat), \A x, y \in Nat : y < x => <<y, x>> \in R,
         NEW T, T \subseteq Nat, T # {}
  PROVE  \E x \in T : \A y \in T : x <= y
<1>1. PICK x \in T : \A y \in T : ~ (<<y, x>> \in R)
  BY WFMin
<1>2. \A y \in T : ~ (y < x)
  BY <1>1
<1>3. \A y \in T : x <= y
  BY <1>2
<1> QED BY <1>3

\* A set of natural numbers has a least one.
LEMMA LeastNat ==
  \A T \in SUBSET Nat : T # {} => \E x \in T : \A y \in T : x <= y
<1> DEFINE R == OpToRel(<, Nat)
<1>1. IsWellFoundedOn(R, Nat)
  BY NatLessThanWellFounded
<1>2. \A x, y \in Nat : y < x => <<y, x>> \in R
  BY DEF R, OpToRel
<1> HIDE DEF R
<1> QED BY <1>1, <1>2, LeastBy

\* A set of numbers up to n has a greatest one, which is what Max gives.
LEMMA MaxIs ==
  ASSUME NEW n \in Nat, NEW T, T \subseteq 0 .. n, T # {}
  PROVE  Max(T) \in T /\ \A y \in T : Max(T) >= y
<1> DEFINE D == {n - x : x \in T}
<1>1. D \subseteq Nat /\ D # {}
  <2>1. \A x \in T : n - x \in Nat
    OBVIOUS
  <2> QED BY <2>1
<1>2. PICK d \in D : \A y \in D : d <= y
  BY <1>1, LeastNat
<1>3. PICK x \in T : d = n - x
  BY <1>2
<1>4. \A y \in T : n - y \in D
  OBVIOUS
<1>5. \A y \in T : x >= y
  BY <1>2, <1>3, <1>4
<1> QED BY <1>5 DEF Max

\* Of the mounts the iterator did not come to, one is the next.
Nearest == CHOOSE q \in Further : \A r \in Further : id[q] <= id[r]

LEMMA NearestIs ==
  ASSUME TypeOK, Further # {}
  PROVE  Nearest \in Further /\ \A r \in Further : id[Nearest] <= id[r]
<1> DEFINE T == {id[q] : q \in Further}
<1>1. T \subseteq Nat /\ T # {}
  <2>1. \A q \in Further : id[q] \in Nat
    BY DEF Further, Mounted, TypeOK
  <2> QED BY <2>1
<1>2. PICK n \in T : \A y \in T : n <= y
  BY <1>1, LeastNat
<1>3. PICK q \in Further : n = id[q]
  BY <1>2
<1>4. \A r \in Further : id[q] <= id[r]
  BY <1>2, <1>3
<1> QED BY <1>4 DEF Nearest

-----------------------------------------------------------------------------
(* Types *)

LEMMA Constants ==
  /\ IsFiniteSet(Peer) /\ Period \in Nat /\ Period > 0 /\ Lease \in Nat
  /\ Lease >= 2 * Period /\ None = -1 /\ Far = Lease + 1
BY BrokerSubsAssumption DEF BrokerSubsAssumption, None, Far

LEMMA PassesTyped ==
  /\ NewPass \in Passes
  /\ \A s \in Passes, n \in Int : [s EXCEPT !.size = n, !.left = n] \in Passes
  /\ \A s \in Passes, p \in Peer, n \in Nat :
       [s EXCEPT !.who = p, !.at = n, !.left = @ - 1] \in Passes
  /\ \A s \in Passes, n \in Nat :
       [s EXCEPT !.nsubbrokers = @ \cup {n}] \in Passes
<1>1. NewPass \in Passes
  BY DEF Passes, NewPass
<1>2. ASSUME NEW s \in Passes, NEW n \in Int
      PROVE  [s EXCEPT !.size = n, !.left = n] \in Passes
  BY DEF Passes
<1>3. ASSUME NEW s \in Passes, NEW p \in Peer, NEW n \in Nat
      PROVE  [s EXCEPT !.who = p, !.at = n, !.left = @ - 1] \in Passes
  <2> DEFINE m == s.left - 1
  <2>1. m \in Int
    BY DEF Passes
  <2> HIDE DEF m
  <2>2. [s EXCEPT !.who = p, !.at = n, !.left = m] \in Passes
    BY <2>1 DEF Passes
  <2> QED BY <2>2 DEF m
<1>4. ASSUME NEW s \in Passes, NEW n \in Nat
      PROVE  [s EXCEPT !.nsubbrokers = @ \cup {n}] \in Passes
  <2>1. s.nsubbrokers \cup {n} \in SUBSET Nat
    BY DEF Passes
  <2> QED BY <2>1 DEF Passes
<1> QED BY <1>1, <1>2, <1>3, <1>4

LEMMA InitTyped ==
  Init => TypeOK
<1> SUFFICES ASSUME Init
             PROVE  TypeOK
  OBVIOUS
<1>1. id \in [Peer -> Nat] /\ nextId \in Nat \ {0}
  BY DEF Init
<1>2. sent \in [Peer -> [RI -> None .. Lease]] /\ subsubs \in [RI -> None .. Period]
  BY Constants DEF Init, Untold
<1>3. pass \in Passes
  BY PassesTyped DEF Init
<1>4. deadline \in 0 .. Far
  BY Constants DEF Init
<1> QED BY <1>1, <1>2, <1>3, <1>4 DEF Init, TypeOK, Tasks

LEMMA NotifyTyped ==
  ASSUME TypeOK, Notify
  PROVE  /\ changed' \in BOOLEAN /\ task' \in Tasks /\ pass' = pass /\ deadline' = deadline
         /\ subbrokers' \subseteq Nat /\ subsubs' \in [RI -> None .. Period]
         /\ task' \in {"asking", "knows"} => pass.who \in Peer
<1>1. CASE task \in Over
  <2>1. subsubs' \in [RI -> None .. Period]
    BY <1>1, Constants DEF Notify, Untold
  <2> QED BY <1>1, <2>1 DEF Notify, TypeOK, Tasks
<1>2. CASE task \notin Over
  BY <1>2 DEF Notify, TypeOK, loop
<1> QED BY <1>1, <1>2

LEMMA MountedCounts ==
  Cardinality(Mounted) \in Nat
<1>1. IsFiniteSet(Mounted)
  BY Constants, FS_Subset DEF Mounted
<1> QED BY <1>1, FS_CardinalityType

LEMMA FinishTyped ==
  ASSUME TypeOK, Finish
  PROVE  /\ \A ri \in Wanted : NextTime(ri) \in 1 .. Period
         /\ subsubs' \in [RI -> None .. Period] /\ deadline' \in 0 .. Far
         /\ subbrokers' \subseteq Nat
<1>1. ASSUME NEW ri \in RI
      PROVE  NextTime(ri) \in 1 .. Period
  <2>1. subsubs[ri] \in None .. Period
    BY DEF TypeOK
  <2> QED BY <2>1, Constants DEF NextTime, Due
<1>2. Wanted \subseteq RI
  BY DEF Wanted
<1>3. subsubs' = [ri \in RI |-> IF ri \in Wanted THEN NextTime(ri) ELSE None]
  BY DEF Finish
<1>4. \A ri \in RI : (IF ri \in Wanted THEN NextTime(ri) ELSE None) \in None .. Period
  BY <1>1, Constants DEF None
<1>5. deadline' \in 0 .. Far
  <2> DEFINE times == {NextTime(ri) : ri \in Wanted}
                        \cup IF \E ri \in RI : subs[ri] = "far" THEN {Far} ELSE {}
  <2>1. deadline' = nmin(times)
    BY DEF Finish
  <2>2. Far \in Nat /\ Period <= Far
    BY Constants DEF Far
  <2>3. times \subseteq 0 .. Far
    BY <1>1, <1>2, <2>2, Constants
  <2> HIDE DEF times
  <2>4. times # {} => Max(times) \in times
    BY <2>2, <2>3, MaxIs
  <2> QED BY <2>1, <2>2, <2>3, <2>4 DEF nmin
<1>6. subbrokers' \subseteq Nat
  <2>1. pass.nsubbrokers \subseteq Nat
    BY DEF TypeOK, Passes
  <2> QED BY <2>1 DEF Finish
<1> QED BY <1>1, <1>2, <1>3, <1>4, <1>5, <1>6

LEMMA NextTyped ==
  ASSUME TypeOK, [Next]_vars
  PROVE  TypeOK'
<1> USE Constants
<1>1. ASSUME NEW p \in Peer, Login(p) \/ Reset(p)
      PROVE  TypeOK'
  <2>1. Notify
    BY <1>1 DEF Login, Reset
  <2>2. sent' \in [Peer -> [RI -> None .. Lease]]
    BY <1>1 DEF Login, Reset, TypeOK, Untold, None
  <2>3. id' \in [Peer -> Nat] /\ nextId' \in Nat \ {0}
    <3>1. id \in [Peer -> Nat] /\ nextId \in Nat \ {0}
      BY DEF TypeOK
    <3>2. CASE Login(p)
      BY <3>1, <3>2 DEF Login
    <3>3. CASE Reset(p)
      BY <3>1, <3>3 DEF Reset
    <3> QED BY <1>1, <3>2, <3>3
  <2>4. kind' \in [Peer -> {"unknown", "broker", "other"}] /\ UNCHANGED <<subs, late>>
    BY <1>1 DEF Login, Reset, TypeOK
  <2> QED BY <2>1, <2>2, <2>3, <2>4, NotifyTyped DEF TypeOK
<1>2. ASSUME NEW p \in Peer, Eof(p)
      PROVE  TypeOK'
  <2>1. /\ changed' \in BOOLEAN /\ task' \in Tasks /\ pass' = pass /\ deadline' = deadline
        /\ subbrokers' \subseteq Nat /\ subsubs' \in [RI -> None .. Period]
        /\ task' \in {"asking", "knows"} => pass.who \in Peer
    <3>1. CASE task = "asking" /\ pass.who = p
      BY <1>2, <3>1 DEF Eof, TypeOK, Tasks
    <3>2. CASE ~ (task = "asking" /\ pass.who = p)
      BY <1>2, <3>2, NotifyTyped DEF Eof
    <3> QED BY <3>1, <3>2
  <2>2. sent' \in [Peer -> [RI -> None .. Lease]]
    BY <1>2 DEF Eof, TypeOK, Untold, None
  <2> QED BY <1>2, <2>1, <2>2 DEF Eof, TypeOK
<1>3. ASSUME NEW ri \in RI, Unsubscribe(ri) \/ \E d \in BOOLEAN : Subscribe(ri, d)
      PROVE  TypeOK'
  <2>1. Notify
    BY <1>3 DEF Unsubscribe, Subscribe
  <2> QED BY <1>3, <2>1, NotifyTyped DEF Unsubscribe, Subscribe, TypeOK
<1>4. ASSUME Begin
      PROVE  TypeOK'
  <2>1. pass' \in Passes
    <3> DEFINE n == Cardinality(Mounted)
    <3>1. n \in Int
      BY MountedCounts
    <3>2. NewPass \in Passes
      BY PassesTyped
    <3>3. pass' = [NewPass EXCEPT !.size = n, !.left = n]
      BY <1>4 DEF Begin
    <3> HIDE DEF n
    <3> QED BY <3>1, <3>3, <3>2, PassesTyped
  <2> QED BY <1>4, <2>1 DEF Begin, TypeOK, Tasks
<1>5. ASSUME NextMount
      PROVE  TypeOK'
  <2>1. Nearest \in Peer /\ id[Nearest] \in Nat
    BY <1>5, NearestIs DEF NextMount, Further, Mounted, TypeOK
  <2>2. /\ pass' = [pass EXCEPT !.who = Nearest, !.at = id[Nearest], !.left = @ - 1]
        /\ task' \in {"asking", "knows"}
        /\ UNCHANGED <<id, nextId, kind, subs, changed, subbrokers, subsubs, deadline, sent,
                       late>>
    BY <1>5 DEF NextMount, Nearest
  <2>3. pass' \in Passes /\ pass'.who = Nearest
    BY <2>1, <2>2, PassesTyped DEF TypeOK, Passes
  <2> QED BY <2>1, <2>2, <2>3 DEF TypeOK, Tasks
<1>6. ASSUME Raise
      PROVE  TypeOK'
  BY <1>6 DEF Raise, TypeOK, Tasks
<1>7. ASSUME PassOn
      PROVE  TypeOK'
  <2>1. sent' \in [Peer -> [RI -> None .. Lease]]
    BY <1>7 DEF PassOn, TypeOK, None
  <2>2. id[pass.who] \in Nat
    BY <1>7 DEF PassOn, TypeOK
  <2>3. pass' \in Passes
    BY <1>7, <2>2, PassesTyped DEF PassOn, TypeOK
  <2> QED BY <1>7, <2>1, <2>3 DEF PassOn, TypeOK, Tasks
<1>8. ASSUME PassOver
      PROVE  TypeOK'
  BY <1>8 DEF PassOver, TypeOK, Tasks
<1>9. ASSUME Finish
      PROVE  TypeOK'
  <2>1. changed' \in BOOLEAN /\ task' \in Tasks
    BY <1>9 DEF Finish, TypeOK, Tasks
  <2>2. task' \notin {"asking", "knows"}
    BY <1>9 DEF Finish
  <2>3. pass' = NewPass /\ UNCHANGED <<id, nextId, kind, subs, sent, late>>
    BY <1>9 DEF Finish
  <2> QED BY <2>1, <2>3, <2>2, <1>9, FinishTyped, PassesTyped DEF TypeOK
<1>10. ASSUME Wake
       PROVE  TypeOK'
  BY <1>10 DEF Wake, TypeOK, Tasks
<1>11. ASSUME Answered
       PROVE  TypeOK'
  BY <1>11 DEF Answered, TypeOK, Tasks
<1>12. ASSUME Tick
       PROVE  TypeOK'
  <2>1. \A t \in None .. Lease : Older(t) \in None .. Lease
    BY DEF Older, Min, None
  <2>2. \A t \in None .. Period : Less(t) \in None .. Period
    BY DEF Less, None
  <2>3. sent' \in [Peer -> [RI -> None .. Lease]] /\ subsubs' \in [RI -> None .. Period]
    BY <1>12, <2>1, <2>2 DEF Tick, TypeOK
  <2>4. deadline' \in 0 .. Far
    BY <1>12 DEF Tick, TypeOK, Far
  <2> QED BY <1>12, <2>3, <2>4 DEF Tick, TypeOK
<1>13. ASSUME UNCHANGED vars
       PROVE  TypeOK'
  BY <1>13 DEF vars, TypeOK
<1> QED
  BY <1>1, <1>2, <1>3, <1>4, <1>5, <1>6, <1>7, <1>8, <1>9, <1>10, <1>11, <1>12, <1>13
     DEF Next, TaskStep

-----------------------------------------------------------------------------
(* What the clients change *)

LEMMA InitInv ==
  Init => SubsInv
BY DEF Init, SubsInv, IdsAreNew, GivenLately, AtOne, VisitedAreKnown, VisitedAreGiven,
       SleepsInTime, InPass, Mounted, NewPass

\* A notification leaves the task where it is, and what it knows, or begins anew.
TaskKeeps ==
  /\ pass' = pass
  /\ subbrokers' = {} \/ UNCHANGED <<subbrokers, subsubs>>
  /\ task' = "asleep" => changed'
  /\ task' \in {"next", "asking", "knows"} =>
       task' = "asking" /\ task = "asking" /\ UNCHANGED <<subbrokers, subsubs>>

LEMMA NotifyKeeps ==
  ASSUME TypeOK, Notify, task \in Waits
  PROVE  TaskKeeps
<1>1. CASE task \in Over
  BY <1>1 DEF Notify, TaskKeeps
<1>2. CASE task \notin Over
  BY <1>2 DEF Notify, TaskKeeps, loop, Waits
<1> QED BY <1>1, <1>2

PeerStep(p) == Login(p) \/ Reset(p) \/ Eof(p)

\* A peer gets a new ID or has none; nothing changes for the others.
LEMMA PeerMoves ==
  ASSUME TypeOK, NEW p \in Peer, PeerStep(p)
  PROVE  /\ \A q \in Peer : q # p =>
              id'[q] = id[q] /\ kind'[q] = kind[q] /\ sent'[q] = sent[q]
         /\ \/ id'[p] = 0 /\ nextId' = nextId
            \/ id'[p] = nextId /\ nextId' = nextId + 1
         /\ subs' = subs /\ late' = late
         /\ TaskKeeps
<1>1. CASE Login(p)
  BY <1>1, NotifyKeeps DEF Login, TypeOK
<1>2. CASE Reset(p)
  BY <1>2, NotifyKeeps DEF Reset, TypeOK
<1>3. CASE Eof(p)
  <2>1. TaskKeeps
    <3>1. CASE task = "asking" /\ pass.who = p
      BY <1>3, <3>1 DEF Eof, TaskKeeps
    <3>2. CASE ~ (task = "asking" /\ pass.who = p)
      BY <1>3, <3>2, NotifyKeeps DEF Eof
    <3> QED BY <3>1, <3>2
  <2> QED BY <1>3, <2>1 DEF Eof, TypeOK
<1> QED BY <1>1, <1>2, <1>3 DEF PeerStep

LEMMA PeerKeeps ==
  ASSUME TypeOK, TypeOK', SubsInv, NEW p \in Peer, PeerStep(p)
  PROVE  SubsInv'
<1> USE PeerMoves DEF SubsInv, TaskKeeps
<1>1. \A q \in Mounted' : q # p => q \in Mounted
  BY DEF Mounted
<1>2. \A n \in subbrokers \cup pass.nsubbrokers : n < nextId
  BY DEF IdsAreNew
<1>3. pass.at < nextId /\ nextId \in Nat /\ pass.at \in Nat
  BY DEF IdsAreNew, TypeOK, Passes
<1>4. IdsAreNew'
  <2>1. \A q \in Peer : id'[q] < nextId'
    BY <1>3 DEF IdsAreNew, TypeOK
  <2>2. \A q, r \in Mounted' : id'[q] = id'[r] => q = r
    BY <1>1, <1>3 DEF IdsAreNew, Mounted, TypeOK
  <2>3. \A n \in (subbrokers \cup pass.nsubbrokers)' : n < nextId'
    <3>1. nextId <= nextId'
      BY <1>3
    <3>2. \A n \in subbrokers \cup pass.nsubbrokers : n \in Nat
      BY DEF TypeOK, Passes
    <3>3. nextId' \in Nat
      BY <1>3
    <3>4. (subbrokers \cup pass.nsubbrokers)' \subseteq subbrokers \cup pass.nsubbrokers
      OBVIOUS
    <3> QED BY <1>2, <1>3, <3>1, <3>2, <3>3, <3>4
  <2> QED BY <1>3, <2>1, <2>2, <2>3 DEF IdsAreNew
<1>5. GivenLately'
  <2>1. p \in Mounted' => id'[p] \notin subbrokers'
    BY <1>2, <1>3 DEF Mounted
  <2>2. \A q \in Mounted : q # p => id'[q] = id[q] /\ sent'[q] = sent[q]
    BY DEF Mounted
  <2> QED BY <1>1, <2>1, <2>2 DEF GivenLately, Due
<1>6. AtOne'
  <2>1. task = "asking" => pass.who \in Peer
    BY DEF TypeOK
  <2>2. \A q \in Peer : id'[q] = id[q] \/ id'[q] = 0 \/ id'[q] > pass.at
    BY <1>3
  <2> QED BY <1>1, <1>3, <2>1, <2>2 DEF AtOne, Mounted
<1>7. VisitedAreKnown'
  BY <1>1, <1>3 DEF VisitedAreKnown, Visited, InPass, Mounted
<1>8. VisitedAreGiven'
  <2>1. p \in Mounted' => id'[p] \notin pass'.nsubbrokers
    BY <1>2, <1>3 DEF Mounted
  <2>2. \A q \in Mounted : q # p => id'[q] = id[q] /\ sent'[q] = sent[q]
    BY DEF Mounted
  <2> QED BY <1>1, <2>1, <2>2 DEF VisitedAreGiven, InPass, Due, Wanted
<1>9. SleepsInTime'
  BY DEF SleepsInTime
<1> QED BY <1>4, <1>5, <1>6, <1>7, <1>8, <1>9

RiStep(ri) == Unsubscribe(ri) \/ \E d \in BOOLEAN : Subscribe(ri, d)

\* What is newly wanted while the task is at a peer is late.
LEMMA RiKeeps ==
  ASSUME TypeOK, TypeOK', SubsInv, NEW ri \in RI, RiStep(ri)
  PROVE  SubsInv'
<1>1. TaskKeeps
  BY NotifyKeeps DEF RiStep, Unsubscribe, Subscribe
<1>2. UNCHANGED <<id, nextId, kind, sent>>
  BY DEF RiStep, Unsubscribe, Subscribe
<1>3. late \subseteq late' /\ (task = "asking" => (Wanted \ late)' \subseteq Wanted \ late)
  BY DEF RiStep, Unsubscribe, Subscribe, Wanted, TypeOK
<1> USE <1>1, <1>2 DEF SubsInv, TaskKeeps
<1>4. IdsAreNew'
  BY DEF IdsAreNew, Mounted
<1>5. GivenLately'
  BY <1>3 DEF GivenLately, Mounted, Due
<1>6. AtOne'
  BY DEF AtOne, Mounted
<1>7. VisitedAreKnown'
  BY DEF VisitedAreKnown, Visited, InPass, Mounted
<1>8. VisitedAreGiven'
  BY <1>3 DEF VisitedAreGiven, InPass, Mounted, Due
<1>9. SleepsInTime'
  BY DEF SleepsInTime
<1> QED BY <1>4, <1>5, <1>6, <1>7, <1>8, <1>9

-----------------------------------------------------------------------------
(* What the task does *)

LEMMA BeginKeeps ==
  ASSUME TypeOK, SubsInv, Begin
  PROVE  SubsInv'
<1>1. /\ pass'.at = 0 /\ pass'.nsubbrokers = {} /\ task' = "next"
      /\ UNCHANGED <<id, nextId, kind, subs, subbrokers, subsubs, sent>>
      /\ late' = {ri \in late : ~Due(ri)}
  BY DEF Begin, NewPass
<1>2. IdsAreNew'
  BY <1>1 DEF SubsInv, IdsAreNew, Mounted, TypeOK
<1>3. GivenLately'
  BY <1>1 DEF SubsInv, GivenLately, Mounted, Due
<1>4. VisitedAreKnown'
  <2>1. Visited' = {}
    BY <1>1 DEF Visited, Mounted, TypeOK
  <2> QED BY <2>1 DEF VisitedAreKnown
<1> QED BY <1>1, <1>2, <1>3, <1>4 DEF SubsInv, AtOne, VisitedAreGiven, SleepsInTime

LEMMA NextMountKeeps ==
  ASSUME TypeOK, SubsInv, NextMount
  PROVE  SubsInv'
<1> DEFINE p == Nearest
<1>1. p \in Mounted /\ id[p] > pass.at /\ \A r \in Further : id[p] <= id[r]
  BY NearestIs DEF NextMount, Further
<1>2. /\ pass' = [pass EXCEPT !.who = Nearest, !.at = id[Nearest], !.left = @ - 1]
      /\ task = "next" /\ task' \in {"asking", "knows"}
      /\ UNCHANGED <<id, nextId, kind, subs, changed, subbrokers, subsubs, sent, late>>
  BY DEF NextMount, Nearest
<1>3. pass'.who = p /\ pass'.at = id[p] /\ pass'.nsubbrokers = pass.nsubbrokers
  BY <1>2 DEF TypeOK, Passes
<1> HIDE DEF p
<1>4. IdsAreNew'
  BY <1>1, <1>2, <1>3 DEF SubsInv, IdsAreNew, Mounted
<1>5. GivenLately'
  BY <1>2 DEF SubsInv, GivenLately, Mounted, Due
<1>6. AtOne'
  BY <1>1, <1>2, <1>3 DEF SubsInv, IdsAreNew, AtOne, Mounted, TypeOK
<1>7. Visited' \subseteq Visited
  <2> SUFFICES ASSUME NEW q \in Visited'
               PROVE  q \in Visited
    OBVIOUS
  <2>1. q \in Mounted /\ id[q] < id[p]
    BY <1>2, <1>3 DEF Visited, Mounted
  <2>2. q \notin Further
    BY <1>1, <2>1 DEF Mounted, TypeOK
  <2>3. id[q] <= pass.at /\ id[q] \in Nat /\ pass.at \in Nat
    BY <2>1, <2>2 DEF Further, Mounted, TypeOK, Passes
  <2> QED BY <1>2, <2>1, <2>3 DEF Visited
<1>8. VisitedAreKnown'
  BY <1>2, <1>3, <1>7 DEF SubsInv, VisitedAreKnown, InPass
<1>9. VisitedAreGiven'
  BY <1>2, <1>3 DEF SubsInv, VisitedAreGiven, InPass, Mounted, Wanted, Due
<1> QED BY <1>2, <1>4, <1>5, <1>6, <1>8, <1>9 DEF SubsInv, SleepsInTime

\* A step that ends the pass, or what follows it, leaves what was given.
LEMMA OverKeeps ==
  ASSUME TypeOK, SubsInv, ~InPass', task' # "asleep",
         UNCHANGED <<id, nextId, kind, subs, pass, subbrokers, subsubs, sent, late>>
  PROVE  SubsInv'
BY DEF SubsInv, IdsAreNew, GivenLately, AtOne, VisitedAreKnown, VisitedAreGiven, SleepsInTime,
       InPass, Mounted, Due

\* The peer is given what it was not given before, or what is due.
LEMMA PassOnKeeps ==
  ASSUME TypeOK, TypeOK', SubsInv, PassOn
  PROVE  SubsInv'
<1> DEFINE p == pass.who
<1>1. /\ p \in Peer /\ id[p] \in Nat /\ task = "knows"
      /\ task' = IF id[p] = 0 THEN "failed" ELSE "next"
      /\ UNCHANGED <<id, nextId, kind, subs, changed, subbrokers, subsubs, late>>
  BY DEF PassOn, TypeOK
<1>2. /\ pass'.at = pass.at /\ pass'.nsubbrokers = pass.nsubbrokers \cup {id[p]}
  BY DEF PassOn, TypeOK, Passes
<1>3. \A q \in Peer, ri \in RI :
        sent'[q][ri] = IF q = p /\ ri \in Given(p) /\ id[p] # 0 THEN 0 ELSE sent[q][ri]
  BY DEF PassOn, TypeOK
<1>4. \A q \in Mounted : id[q] = id[p] => q = p
  BY <1>1 DEF SubsInv, IdsAreNew, Mounted
<1> HIDE DEF p
<1>5. IdsAreNew'
  BY <1>1, <1>2 DEF SubsInv, IdsAreNew, Mounted, TypeOK
<1>6. GivenLately'
  <2> SUFFICES ASSUME NEW q \in Mounted, NEW ri \in RI \ late, id[q] \in subbrokers,
                      <<q, ri>> \in Relevant, ~Due(ri)
               PROVE  sent'[q][ri] \in 0 .. (Period - subsubs[ri])
    BY <1>1 DEF GivenLately, Mounted, Due
  <2>1. q \in Peer
    BY DEF Mounted
  <2>2. subsubs[ri] \in 0 .. Period
    BY Constants DEF TypeOK, Due
  <2>3. sent[q][ri] \in 0 .. (Period - subsubs[ri])
    BY DEF SubsInv, GivenLately
  <2> QED BY <1>3, <2>1, <2>2, <2>3, Constants
<1>7. AtOne'
  BY <1>1 DEF AtOne
<1>8. VisitedAreKnown'
  <2> SUFFICES ASSUME id[p] # 0, NEW q \in Visited'
               PROVE  kind[q] = "other" \/ id[q] \in pass'.nsubbrokers
    BY <1>1 DEF VisitedAreKnown, InPass
  <2>1. q \in Mounted /\ (id[q] < pass.at \/ id[q] = pass.at)
    BY <1>1, <1>2 DEF Visited, Mounted
  <2>2. id[q] = pass.at => q = p
    BY <1>1, <2>1 DEF SubsInv, AtOne, p
  <2>3. id[q] < pass.at => q \in Visited
    BY <2>1 DEF Visited
  <2> QED BY <1>1, <1>2, <2>1, <2>2, <2>3 DEF SubsInv, VisitedAreKnown, InPass
<1>9. VisitedAreGiven'
  <2> SUFFICES ASSUME id[p] # 0, NEW q \in Mounted, NEW ri \in Wanted \ late,
                      id[q] \in pass'.nsubbrokers, <<q, ri>> \in Relevant,
                      ~ (id[q] \in subbrokers /\ ~Due(ri))
               PROVE  sent'[q][ri] = 0
    BY <1>1 DEF VisitedAreGiven, InPass, Mounted, Wanted, Due
  <2>1. q \in Peer /\ ri \in RI
    BY DEF Mounted, Wanted
  <2>2. CASE q = p
    <3>1. ri \in Given(p)
      BY <2>2 DEF Given
    <3> QED BY <1>3, <2>1, <2>2, <3>1
  <2>3. CASE q # p
    <3>1. id[q] \in pass.nsubbrokers
      BY <1>2, <1>4, <2>3
    <3>2. sent[q][ri] = 0
      BY <1>1, <3>1 DEF SubsInv, VisitedAreGiven, InPass
    <3> QED BY <1>3, <2>1, <2>3, <3>2
  <2> QED BY <2>2, <2>3
<1> QED BY <1>1, <1>5, <1>6, <1>7, <1>8, <1>9 DEF SubsInv, SleepsInTime

LEMMA PassOverKeeps ==
  ASSUME TypeOK, SubsInv, PassOver
  PROVE  SubsInv'
<1>1. /\ task = "knows" /\ task' = "next" /\ kind[pass.who] = "other" /\ pass.who \in Peer
      /\ UNCHANGED <<id, nextId, kind, subs, changed, pass, subbrokers, subsubs, sent, late>>
  BY DEF PassOver, TypeOK
<1>2. VisitedAreKnown'
  BY <1>1 DEF SubsInv, AtOne, VisitedAreKnown, Visited, InPass, Mounted
<1>3. VisitedAreGiven' /\ GivenLately'
  BY <1>1 DEF SubsInv, VisitedAreGiven, GivenLately, InPass, Mounted, Wanted, Due
<1>4. IdsAreNew'
  BY <1>1 DEF SubsInv, IdsAreNew, Mounted
<1> QED BY <1>1, <1>2, <1>3, <1>4 DEF SubsInv, AtOne, SleepsInTime

LEMMA AnsweredKeeps ==
  ASSUME TypeOK, SubsInv, Answered
  PROVE  SubsInv'
<1>1. /\ task = "asking" /\ task' = "knows" /\ pass.who \in Peer
      /\ UNCHANGED <<id, nextId, subs, changed, pass, subbrokers, subsubs, sent, late>>
      /\ \A q \in Peer : q # pass.who => kind'[q] = kind[q]
  BY DEF Answered, TypeOK
<1>2. AtOne'
  BY <1>1 DEF SubsInv, AtOne, Mounted
<1>3. VisitedAreKnown'
  <2>1. Visited' = Visited /\ pass.who \notin Visited
    BY <1>1 DEF SubsInv, AtOne, Visited, Mounted, TypeOK, Passes
  <2>2. \A q \in Visited : q \in Peer
    BY DEF Visited, Mounted
  <2> QED BY <1>1, <2>1, <2>2 DEF SubsInv, VisitedAreKnown, InPass
<1>4. VisitedAreGiven' /\ GivenLately'
  BY <1>1 DEF SubsInv, VisitedAreGiven, GivenLately, InPass, Mounted, Wanted, Due
<1>5. IdsAreNew'
  BY <1>1 DEF SubsInv, IdsAreNew, Mounted
<1> QED BY <1>1, <1>2, <1>3, <1>4, <1>5 DEF SubsInv, SleepsInTime

\* The pass is over: what it gave has another period, and the task sleeps until
\* the last of it is due.
LEMMA FinishKeeps ==
  ASSUME TypeOK, TypeOK', SubsInv, Finish
  PROVE  SubsInv'
<1>1. /\ subbrokers' = pass.nsubbrokers /\ pass' = NewPass /\ task = "next"
      /\ task' \in {"done", "again", "asleep"}
      /\ UNCHANGED <<id, nextId, kind, subs, sent, late>>
  BY DEF Finish
<1>2. \A ri \in RI : subsubs'[ri] = IF ri \in Wanted THEN NextTime(ri) ELSE None
  BY DEF Finish
<1>3. \A ri \in Wanted : NextTime(ri) \in 1 .. Period
  BY FinishTyped
<1>4. \A p \in Mounted : p \in Visited
  <2>1. Further = {} /\ pass.at \in Nat /\ \A p \in Mounted : id[p] \in Nat
    BY DEF Finish, Mounted, TypeOK, Passes
  <2>2. \A p \in Mounted : id[p] <= pass.at
    BY <2>1 DEF Further
  <2> QED BY <1>1, <2>1, <2>2 DEF Visited
<1>5. IdsAreNew'
  BY <1>1 DEF SubsInv, IdsAreNew, Mounted, NewPass, TypeOK
<1>6. GivenLately'
  <2> SUFFICES ASSUME NEW p \in Mounted, NEW ri \in RI \ late, id[p] \in pass.nsubbrokers,
                      <<p, ri>> \in Relevant, ~Due(ri)'
               PROVE  sent[p][ri] \in 0 .. (Period - subsubs'[ri])
    BY <1>1 DEF GivenLately, Mounted
  <2>1. ri \in Wanted
    BY <1>2 DEF Due
  <2>2. subsubs'[ri] = NextTime(ri) /\ NextTime(ri) \in 1 .. Period
    BY <1>2, <1>3, <2>1
  <2>3. (id[p] \in subbrokers /\ ~Due(ri)) \/ sent[p][ri] = 0
    BY <1>1, <2>1 DEF SubsInv, VisitedAreGiven, InPass
  <2>4. CASE id[p] \in subbrokers /\ ~Due(ri)
    BY <2>2, <2>4 DEF SubsInv, GivenLately, NextTime
  <2>5. CASE sent[p][ri] = 0
    BY <2>2, <2>5, Constants
  <2> QED BY <2>3, <2>4, <2>5
<1>7. SleepsInTime'
  <2> SUFFICES ASSUME task' = "asleep", ~Leased
               PROVE  SleepsInTime'
    BY <1>1 DEF SleepsInTime, Leased
  <2> DEFINE times == {NextTime(ri) : ri \in Wanted}
  <2>1. \A p \in Mounted : kind[p] = "other" \/ id[p] \in subbrokers'
    BY <1>1, <1>4 DEF SubsInv, VisitedAreKnown, InPass
  <2>2. Wanted # {} => deadline' = Max(times)
    <3>1. deadline' = nmin(times)
      BY DEF Finish, Leased
    <3> QED BY <3>1 DEF nmin
  <2>3. times \subseteq 0 .. Period
    BY <1>3
  <2>4. ASSUME NEW ri \in Wanted
        PROVE  /\ subsubs'[ri] \in 1 .. Period
               /\ subsubs'[ri] <= deadline' /\ deadline' <= Period
    <3>1. ri \in RI
      BY DEF Wanted
    <3>2. subsubs'[ri] = NextTime(ri) /\ NextTime(ri) \in times
      BY <1>2, <3>1
    <3> HIDE DEF times
    <3>3. Max(times) \in times /\ \A y \in times : Max(times) >= y
      BY <2>3, <3>2, Constants, MaxIs
    <3>4. NextTime(ri) <= Max(times) /\ Max(times) \in 0 .. Period
      BY <2>3, <3>2, <3>3
    <3> QED BY <1>3, <2>2, <3>2, <3>4
  <2>5. \A ri \in Wanted : subsubs'[ri] # None /\ subsubs'[ri] # 0
    BY <2>4, Constants
  <2>6. Mounted' = Mounted /\ Wanted' = Wanted
    BY <1>1 DEF Mounted, Wanted
  <2> QED BY <1>1, <2>1, <2>4, <2>5, <2>6 DEF SleepsInTime
<1>8. AtOne' /\ VisitedAreKnown' /\ VisitedAreGiven'
  BY <1>1 DEF AtOne, VisitedAreKnown, VisitedAreGiven, InPass
<1> QED BY <1>5, <1>6, <1>7, <1>8 DEF SubsInv

\* Time passes for what was given as it does for what is due.
LEMMA TickKeeps ==
  ASSUME TypeOK, TypeOK', SubsInv, Tick
  PROVE  SubsInv'
<1>1. /\ UNCHANGED <<id, nextId, kind, subs, changed, task, pass, subbrokers, late>>
      /\ task \in Over \cup {"hung"} \/ (task = "asleep" /\ ~changed /\ deadline # 0)
      /\ deadline' = IF deadline \in {0, Far} THEN deadline ELSE deadline - 1
      /\ \A p \in Peer, ri \in RI : sent'[p][ri] = Older(sent[p][ri])
      /\ \A ri \in RI : subsubs'[ri] = Less(subsubs[ri])
  BY DEF Tick
<1>2. \A t \in 0 .. 2 * Period - 1 : Older(t) = t + 1
  BY Constants DEF Older, Min
<1>3. GivenLately'
  <2> SUFFICES ASSUME NEW p \in Mounted, NEW ri \in RI \ late, id[p] \in subbrokers,
                      <<p, ri>> \in Relevant, ~Due(ri)'
               PROVE  sent'[p][ri] \in 0 .. (Period - subsubs'[ri])
    BY <1>1 DEF GivenLately, Mounted
  <2>1. subsubs[ri] \in 2 .. Period /\ subsubs'[ri] = subsubs[ri] - 1
    <3>1. subsubs[ri] \in None .. Period /\ subsubs'[ri] = Less(subsubs[ri])
      BY <1>1 DEF TypeOK
    <3>2. subsubs'[ri] # None /\ subsubs'[ri] # 0
      BY DEF Due
    <3> QED BY <3>1, <3>2, Constants DEF Less
  <2>2. sent[p][ri] \in 0 .. (Period - subsubs[ri])
    BY <2>1, Constants DEF SubsInv, GivenLately, Due
  <2>3. sent'[p][ri] = sent[p][ri] + 1
    BY <1>1, <1>2, <2>1, <2>2, Constants DEF Mounted
  <2> QED BY <2>1, <2>2, <2>3, Constants
<1>4. SleepsInTime'
  <2> SUFFICES ASSUME task = "asleep", ~changed, ~Leased
               PROVE  SleepsInTime'
    BY <1>1 DEF SleepsInTime, Leased
  <2>1. Mounted' = Mounted /\ Wanted' = Wanted
    BY <1>1 DEF Mounted, Wanted
  <2>2. ASSUME NEW ri \in Wanted
        PROVE  /\ subsubs[ri] \in 0 .. Period /\ subsubs[ri] <= deadline
               /\ deadline \in 1 .. Period /\ deadline' = deadline - 1
               /\ subsubs'[ri] = IF subsubs[ri] = 0 THEN 0 ELSE subsubs[ri] - 1
    <3>1. ri \in RI
      BY DEF Wanted
    <3>2. subsubs[ri] \in 0 .. Period
      BY <3>1, Constants DEF SubsInv, SleepsInTime, TypeOK
    <3>3. subsubs[ri] <= deadline /\ deadline <= Period /\ deadline \in Nat /\ deadline # 0
      BY <1>1, Constants DEF SubsInv, SleepsInTime, TypeOK, Over
    <3>4. deadline # Far
      BY <3>3, Constants
    <3> QED BY <1>1, <3>1, <3>2, <3>3, <3>4, Constants DEF Less
  <2>3. \A ri \in Wanted :
          subsubs'[ri] # None /\ subsubs'[ri] <= deadline' /\ deadline' <= Period
    BY <2>2, Constants
  <2>4. ASSUME NEW p \in Mounted, NEW ri \in Wanted \ late, id[p] \in subbrokers,
               <<p, ri>> \in Relevant, subsubs'[ri] = 0
        PROVE  sent'[p][ri] >= 0 /\ sent'[p][ri] + deadline' <= 2 * Period - 1
    <3>1. p \in Peer /\ ri \in RI
      BY DEF Mounted, Wanted
    <3>2. /\ subsubs[ri] \in {0, 1} /\ subsubs[ri] <= deadline /\ deadline \in 1 .. Period
          /\ deadline' = deadline - 1
      BY <2>2, <2>4
    <3>3. sent[p][ri] \in Int
      BY <3>1, Constants DEF TypeOK
    <3>4. sent[p][ri] >= 0 /\ sent[p][ri] + deadline <= 2 * Period - 1
      <4>1. CASE subsubs[ri] = 0
        BY <2>4, <4>1 DEF SubsInv, SleepsInTime
      <4>2. CASE subsubs[ri] = 1
        <5>1. sent[p][ri] \in 0 .. (Period - 1)
          BY <2>4, <3>1, <4>2, Constants DEF SubsInv, GivenLately, Due
        <5> QED BY <3>2, <5>1, Constants
      <4> QED BY <3>2, <4>1, <4>2
    <3>5. sent'[p][ri] = sent[p][ri] + 1
      BY <1>1, <1>2, <3>1, <3>2, <3>3, <3>4, Constants
    <3> QED BY <3>2, <3>3, <3>4, <3>5, Constants
  <2>5. \A p \in Mounted : kind[p] = "other" \/ id[p] \in subbrokers
    BY DEF SubsInv, SleepsInTime
  <2> QED BY <1>1, <2>1, <2>3, <2>4, <2>5 DEF SleepsInTime
<1>5. AtOne' /\ VisitedAreKnown' /\ VisitedAreGiven'
  BY <1>1 DEF AtOne, VisitedAreKnown, VisitedAreGiven, InPass, Over
<1>6. IdsAreNew'
  BY <1>1 DEF SubsInv, IdsAreNew, Mounted
<1> QED BY <1>3, <1>4, <1>5, <1>6 DEF SubsInv

LEMMA NextKeeps ==
  ASSUME TypeOK, SubsInv, [Next]_vars
  PROVE  SubsInv'
<1>1. TypeOK'
  BY NextTyped
<1>2. ASSUME NEW p \in Peer, PeerStep(p)
      PROVE  SubsInv'
  BY <1>1, <1>2, PeerKeeps
<1>3. ASSUME NEW ri \in RI, RiStep(ri)
      PROVE  SubsInv'
  BY <1>1, <1>3, RiKeeps
<1>4. ASSUME TaskStep
      PROVE  SubsInv'
  <2>1. CASE Raise \/ Wake
    BY <2>1, OverKeeps DEF Raise, Wake, InPass
  <2> QED
    BY <1>1, <1>4, <2>1, BeginKeeps, NextMountKeeps, PassOnKeeps, PassOverKeeps, FinishKeeps
       DEF TaskStep
<1>5. CASE UNCHANGED vars
  BY <1>5 DEF vars, SubsInv, IdsAreNew, GivenLately, AtOne, VisitedAreKnown, VisitedAreGiven,
              SleepsInTime, InPass, Visited, Mounted, Wanted, Leased, Due
<1> QED
  BY <1>1, <1>2, <1>3, <1>4, <1>5, AnsweredKeeps, TickKeeps DEF Next, PeerStep, RiStep

-----------------------------------------------------------------------------
(* Theorems *)

\* Every value has its type, whatever the clients and peers do.
THEOREM TypesKept == Spec => []TypeOK
<1>1. TypeOK /\ [Next]_vars => TypeOK'
  BY NextTyped
<1> QED BY <1>1, InitTyped, PTL DEF Spec

\* The task always knows what the sub-brokers were given (broker.py:745).
THEOREM TaskKnows == Spec => []SubsInv
<1>1. SubsInv /\ TypeOK /\ [Next]_vars => SubsInv'
  BY NextKeeps
<1> QED BY <1>1, InitInv, TypesKept, PTL DEF Spec

\* No sub-broker forgets a subscription while the task sleeps undisturbed: two
\* periods of the task are no longer than the lease (broker.py:762 and 769).
THEOREM LeasesKept == Spec => []LeasesAreKept
<1>1. TypeOK /\ SubsInv => LeasesAreKept
  <2> SUFFICES ASSUME TypeOK, SubsInv, task = "asleep", ~changed, ~Leased,
                      NEW p \in Mounted, NEW ri \in Wanted,
                      <<p, ri>> \in Relevant, kind[p] # "other"
               PROVE  IF ri \in late THEN subsubs[ri] <= deadline /\ deadline <= Period
                      ELSE sent[p][ri] \in 0 .. (Lease - 1)
    BY DEF LeasesAreKept
  <2>1. CASE ri \in late
    BY <2>1 DEF SubsInv, SleepsInTime
  <2>2. CASE ri \notin late
    <3>1. p \in Peer /\ ri \in RI /\ id[p] \in subbrokers
      BY DEF SubsInv, SleepsInTime, Mounted, Wanted
    <3>2. sent[p][ri] \in Int /\ subsubs[ri] \in 0 .. Period /\ deadline \in Nat
      BY <3>1, Constants DEF TypeOK, SubsInv, SleepsInTime
    <3>3. CASE subsubs[ri] = 0
      <4>1. sent[p][ri] >= 0 /\ sent[p][ri] + deadline <= 2 * Period - 1
        BY <2>2, <3>1, <3>3 DEF SubsInv, SleepsInTime
      <4> QED BY <2>2, <3>2, <4>1, Constants
    <3>4. CASE subsubs[ri] # 0
      <4>1. sent[p][ri] \in 0 .. (Period - subsubs[ri])
        BY <2>2, <3>1, <3>2, <3>4, Constants DEF SubsInv, GivenLately, Due
      <4> QED BY <2>2, <3>2, <3>4, <4>1, Constants
    <3> QED BY <3>3, <3>4
  <2> QED BY <2>1, <2>2
<1> QED BY <1>1, TypesKept, TaskKnows, PTL
=============================================================================
