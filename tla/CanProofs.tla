------------------------------ MODULE CanProofs ------------------------------
(***************************************************************************)
(* Theorems about the CAN transport.  The first part is about one          *)
(* connection, CanPeer: which acknowledgements are under way and how far   *)
(* the counter is from coming round to their numbers, for any messages,    *)
(* any modulus of the counter and fewer faults than tries.  The second     *)
(* part is about the frames on their way to the queue of the server's      *)
(* peer, and shows that CanPeer implements MessageChannel.  The last part  *)
(* is about the addresses, CanAddress.                                     *)
(***************************************************************************)
EXTENDS CanPeer, CanAddress, SequenceTheorems, FiniteSetTheorems, TLAPS

-----------------------------------------------------------------------------
(* Numbers of frames *)

At == 0 .. Modulus - 1

\* The counter d frames after it was x.
Shift(x, d) == (x + d) % Modulus

LEMMA ShiftIs ==
  ASSUME NEW x \in At, NEW d \in 0 .. Modulus
  PROVE  /\ Shift(x, d) = IF x + d < Modulus THEN x + d ELSE x + d - Modulus
         /\ Shift(x, d) \in At
<1>1. Shift(x, d) = IF x + d < Modulus THEN x + d ELSE x + d - Modulus
  BY CanPeerAssumption, SMT DEF Shift, At
<1> QED BY <1>1, CanPeerAssumption, SMT DEF At

LEMMA ShiftZero ==
  ASSUME NEW x \in At
  PROVE  Shift(x, 0) = x
<1>1. 0 \in 0 .. Modulus /\ Modulus \in Nat
  BY CanPeerAssumption, SMT
<1> QED BY <1>1, ShiftIs, SMT DEF At

\* One frame more.
LEMMA ShiftOnce ==
  ASSUME NEW x \in At, NEW d \in 0 .. Modulus - 1
  PROVE  Shift(Shift(x, d), 1) = Shift(x, d + 1)
<1> DEFINE s == Shift(x, d)
<1>1. /\ d \in 0 .. Modulus /\ d + 1 \in 0 .. Modulus /\ 1 \in 0 .. Modulus
      /\ Modulus \in Nat /\ Modulus > 1
  BY CanPeerAssumption, SMT
<1>2. s = (IF x + d < Modulus THEN x + d ELSE x + d - Modulus) /\ s \in At
  BY <1>1, ShiftIs
<1> HIDE DEF s
<1>3. Shift(s, 1) = IF s + 1 < Modulus THEN s + 1 ELSE s + 1 - Modulus
  BY <1>1, <1>2, ShiftIs
<1>4. Shift(x, d + 1) = IF x + (d + 1) < Modulus THEN x + (d + 1) ELSE x + (d + 1) - Modulus
  BY <1>1, ShiftIs
<1>5. Shift(s, 1) = Shift(x, d + 1)
  BY <1>1, <1>2, <1>3, <1>4, SMT DEF At
<1> QED BY <1>5 DEF s

\* A counter comes back only after Modulus frames.
LEMMA ShiftDiffers ==
  ASSUME NEW x \in At, NEW d \in 0 .. Modulus - 1, NEW e \in 0 .. Modulus - 1,
         Shift(x, d) = Shift(x, e)
  PROVE  d = e
<1>1. d \in 0 .. Modulus /\ e \in 0 .. Modulus /\ Modulus \in Nat
  BY CanPeerAssumption, SMT
<1>2. Shift(x, d) = IF x + d < Modulus THEN x + d ELSE x + d - Modulus
  BY <1>1, ShiftIs
<1>3. Shift(x, e) = IF x + e < Modulus THEN x + e ELSE x + e - Modulus
  BY <1>1, ShiftIs
<1>4. (IF x + d < Modulus THEN x + d ELSE x + d - Modulus)
        = (IF x + e < Modulus THEN x + e ELSE x + e - Modulus)
  BY <1>2, <1>3
<1>5. x \in Int /\ d \in Int /\ e \in Int /\ Modulus \in Int
      /\ 0 <= d /\ d < Modulus /\ 0 <= e /\ e < Modulus
  BY <1>1, SMT DEF At
<1> HIDE DEF At
<1> QED BY <1>4, <1>5, SMT

-----------------------------------------------------------------------------
(* Sequences *)

LEMMA AppendIs ==
  ASSUME NEW S, NEW s \in Seq(S), NEW x \in S
  PROVE  /\ Append(s, x) \in Seq(S)
         /\ Len(s) \in Nat
         /\ DOMAIN s = 1 .. Len(s)
         /\ DOMAIN Append(s, x) = 1 .. Len(s) + 1
         /\ Append(s, x)[Len(s) + 1] = x
         /\ \A i \in 1 .. Len(s) : Append(s, x)[i] = s[i]
         /\ \A i \in 1 .. Len(s) : s[i] \in S
OBVIOUS

LEMMA TailIs ==
  ASSUME NEW S, NEW s \in Seq(S), s # <<>>
  PROVE  /\ Tail(s) \in Seq(S) /\ Head(s) = s[1] /\ s[1] \in S
         /\ Len(s) \in Nat /\ Len(s) >= 1
         /\ DOMAIN s = 1 .. Len(s)
         /\ DOMAIN Tail(s) = 1 .. Len(s) - 1
         /\ \A i \in 1 .. Len(s) - 1 : Tail(s)[i] = s[i + 1]
OBVIOUS

LEMMA LengthIs ==
  ASSUME NEW S, NEW s \in Seq(S), NEW n \in Nat, DOMAIN s = 1 .. n
  PROVE  Len(s) = n
<1>1. Len(s) \in Nat /\ 1 .. Len(s) = 1 .. n
  OBVIOUS
<1> DEFINE l == Len(s)
<1>2. l \in Nat /\ \A i : i \in 1 .. l <=> i \in 1 .. n
  BY <1>1
<1> HIDE DEF l
<1>3. (l >= 1 => l <= n) /\ (n >= 1 => n <= l)
  BY <1>2, SMT
<1>4. l = n
  BY <1>2, <1>3, SMT
<1> QED BY <1>4 DEF l

-----------------------------------------------------------------------------
(* Types *)

Phase == {"idle", "sending", "waiting", "rest", "sent", "failed"}
TaskRecord == [msg : Message, number : Number, acked : BOOLEAN, new : BOOLEAN]
Block == (Message \cup {NoMessage}) \X Nat

PeerTypes ==
  /\ phase \in [Message -> Phase] /\ lock \in Message \cup {NoMessage}
  /\ tries \in Nat /\ ack \in {"none", "pending", "set"}
  /\ frame \in Number /\ scounter \in Number /\ rcounter \in Number
  /\ jobs \in Seq(Frame) /\ bus \in Seq(Frame) /\ acks \in Seq(Number)
  /\ open \in BOOLEAN /\ peer \in BOOLEAN
  /\ tasks \in Seq(TaskRecord)
  /\ rdata \in Seq(Block) /\ got \in Seq(Seq(Block))
  /\ faults \in 0 .. MaxFaults
  /\ order \in Seq(Message) /\ taken \subseteq Message

LEMMA NumberIs ==
  ASSUME NEW n \in Number
  PROVE  /\ n.at \in At /\ n.last \in BOOLEAN
         /\ n = [at |-> n.at, last |-> n.last]
BY DEF Number, At

LEMMA NextNumber ==
  ASSUME NEW last \in BOOLEAN, scounter \in Number
  PROVE  /\ Numbered(last) \in Number
         /\ Numbered(last).at = Shift(scounter.at, 1)
         /\ Numbered(last).last = last
<1>1. scounter.at \in At /\ 1 \in 0 .. Modulus
  BY NumberIs, CanPeerAssumption, SMT
<1>2. Shift(scounter.at, 1) \in At
  BY <1>1, ShiftIs
<1>3. Numbered(last) = [at |-> Shift(scounter.at, 1), last |-> last]
  BY DEF Numbered, Shift
<1> QED BY <1>2, <1>3 DEF Number, At

LEMMA BlocksAre ==
  ASSUME NEW m \in Message
  PROVE  Blocks[m] \in 1 .. Modulus - 1 /\ Blocks[m] \in Nat
BY CanPeerAssumption, SMT

LEMMA IsLastType ==
  ASSUME NEW m \in Message, NEW b \in Nat
  PROVE  IsLast(m, b) \in BOOLEAN
BY DEF IsLast

\* What the queue gets that is no message.
LEMMA QueueEnds == Eof \in Seq(Block) /\ Spoilt \in Seq(Block)
<1>1. <<NoMessage, 0>> \in Block /\ <<NoMessage, 1>> \in Block
  BY SMT DEF Block
<1> QED BY <1>1 DEF Eof, Spoilt

\* A frame that goes onto a bus is its last one, or a fault.
LEMMA OntoIs ==
  ASSUME NEW S, NEW wire \in Seq(S), NEW wire1, NEW f \in S, faults \in 0 .. MaxFaults,
         Onto(wire, wire1, f)
  PROVE  /\ wire1 \in Seq(S)
         /\ faults' \in 0 .. MaxFaults /\ faults <= faults'
         /\ wire1 = wire \/ wire1 = Append(wire, f)
BY CanPeerAssumption, SMT DEF Onto, Fault

-----------------------------------------------------------------------------
(* Acknowledgements under way, in the order in which they come *)

\* What brings an acknowledgement: itself (1), a task that has not sent it yet
\* (2), a first frame on the bus (3); the later kinds come behind the earlier.
Item(k, i) ==
  \/ k = 1 /\ i \in DOMAIN acks
  \/ k = 2 /\ i \in DOMAIN tasks /\ ~ tasks[i].acked
  \/ k = 3 /\ i \in DOMAIN bus /\ bus[i].block = 1

\* The counter it acknowledges.
ItemAt(k, i) == IF k = 1 THEN acks[i].at
                ELSE IF k = 2 THEN tasks[i].number.at ELSE bus[i].number.at

Before(k, i, l, j) == k < l \/ (k = l /\ i <= j)

\* An acknowledgement of x comes before one of y, or is it.
Precedes(x, y) ==
  \E k, l \in 1 .. 3 : \E i, j \in Nat :
    /\ Item(k, i) /\ Item(l, j) /\ Before(k, i, l, j)
    /\ ItemAt(k, i) = x /\ ItemAt(l, j) = y

Underway(x) == Precedes(x, x)

LEMMA ItemType ==
  ASSUME PeerTypes, NEW k \in 1 .. 3, NEW i \in Nat, Item(k, i)
  PROVE  ItemAt(k, i) \in At
<1>1. CASE k = 1
  <2>1. acks[i] \in Number
    BY <1>1 DEF PeerTypes, Item
  <2> QED BY <1>1, <2>1, NumberIs DEF ItemAt
<1>2. CASE k = 2
  <2>1. tasks[i] \in TaskRecord
    BY <1>2 DEF PeerTypes, Item
  <2>2. tasks[i].number \in Number
    BY <2>1 DEF TaskRecord
  <2> QED BY <1>2, <2>2, NumberIs DEF ItemAt
<1>3. CASE k = 3
  <2>1. bus[i] \in Frame
    BY <1>3 DEF PeerTypes, Item
  <2>2. bus[i].number \in Number
    BY <2>1 DEF Frame
  <2> QED BY <1>3, <2>2, NumberIs DEF ItemAt
<1> QED BY <1>1, <1>2, <1>3

LEMMA ItemUnderway ==
  ASSUME NEW k \in 1 .. 3, NEW i \in Nat, Item(k, i)
  PROVE  Underway(ItemAt(k, i))
<1>1. Before(k, i, k, i)
  BY DEF Before
<1> QED BY <1>1 DEF Underway, Precedes

LEMMA PrecedesUnderway ==
  ASSUME NEW x, NEW y, Precedes(x, y)
  PROVE  Underway(x) /\ Underway(y)
<1>1. PICK k \in 1 .. 3, l \in 1 .. 3, i \in Nat, j \in Nat :
        Item(k, i) /\ Item(l, j) /\ ItemAt(k, i) = x /\ ItemAt(l, j) = y
  BY DEF Precedes
<1> QED BY <1>1, ItemUnderway

LEMMA Placed ==
  ASSUME NEW k \in 1 .. 3, NEW l \in 1 .. 3, NEW i \in Nat, NEW j \in Nat,
         Item(k, i), Item(l, j), Before(k, i, l, j)
  PROVE  Precedes(ItemAt(k, i), ItemAt(l, j))
BY DEF Precedes

\* The steps that only carry acknowledgements on: every one that is under way
\* after the step was so before, in the same order.
Carried == \A x, y \in At : Precedes(x, y)' => Precedes(x, y)

LEMMA AckReceivedCarries ==
  ASSUME PeerTypes, AckReceived
  PROVE  Carried
<1> DEFINE I(k, i) == IF k = 1 THEN i + 1 ELSE i
<1>1. ASSUME NEW k \in 1 .. 3, NEW i \in Nat, Item(k, i)'
      PROVE  Item(k, I(k, i)) /\ ItemAt(k, I(k, i)) = ItemAt(k, i)'
  <2>1. UNCHANGED <<tasks, bus>> /\ acks' = Tail(acks) /\ acks # <<>>
    BY DEF AckReceived, server
  <2>2. CASE k = 1
    <3>1. acks \in Seq(Number)
      BY DEF PeerTypes
    <3>2. /\ DOMAIN acks = 1 .. Len(acks) /\ Len(acks) \in Nat
          /\ DOMAIN acks' = 1 .. Len(acks) - 1
          /\ \A h \in 1 .. Len(acks) - 1 : acks'[h] = acks[h + 1]
      BY <2>1, <3>1, TailIs
    <3>3. i \in DOMAIN acks'
      BY <1>1, <2>2 DEF Item
    <3>4. i + 1 \in DOMAIN acks /\ acks'[i] = acks[i + 1]
      BY <3>2, <3>3, SMT
    <3> QED BY <2>2, <3>4 DEF Item, ItemAt
  <2>3. CASE k # 1
    BY <1>1, <2>1, <2>3 DEF Item, ItemAt
  <2> QED BY <2>2, <2>3
<1> SUFFICES ASSUME NEW x \in At, NEW y \in At, Precedes(x, y)'
             PROVE  Precedes(x, y)
  BY DEF Carried
<1>2. PICK k \in 1 .. 3, l \in 1 .. 3, i \in Nat, j \in Nat :
        /\ Item(k, i)' /\ Item(l, j)' /\ Before(k, i, l, j)
        /\ ItemAt(k, i)' = x /\ ItemAt(l, j)' = y
  BY DEF Precedes, Before
<1>3. I(k, i) \in Nat /\ I(l, j) \in Nat /\ Before(k, I(k, i), l, I(l, j))
  BY <1>2, SMT DEF Before
<1>4. /\ Item(k, I(k, i)) /\ ItemAt(k, I(k, i)) = x
      /\ Item(l, I(l, j)) /\ ItemAt(l, I(l, j)) = y
  BY <1>1, <1>2
<1> HIDE DEF I
<1> QED BY <1>3, <1>4, Placed

LEMMA StutterCarries ==
  ASSUME UNCHANGED <<acks, tasks, bus>>
  PROVE  Carried
BY DEF Carried, Precedes, Item, ItemAt, Before

LEMMA FirstHandledCarries ==
  ASSUME PeerTypes, FirstHandled
  PROVE  Carried
<1> DEFINE I(k, i) == IF k = 2 THEN i + 1 ELSE i
<1>1. ASSUME NEW k \in 1 .. 3, NEW i \in Nat, Item(k, i)'
      PROVE  Item(k, I(k, i)) /\ ItemAt(k, I(k, i)) = ItemAt(k, i)'
  <2>1. UNCHANGED <<acks, bus>> /\ tasks' = Tail(tasks) /\ tasks # <<>>
    BY DEF FirstHandled
  <2>2. CASE k = 2
    <3>1. tasks \in Seq(TaskRecord)
      BY DEF PeerTypes
    <3>2. /\ DOMAIN tasks = 1 .. Len(tasks) /\ Len(tasks) \in Nat
          /\ DOMAIN tasks' = 1 .. Len(tasks) - 1
          /\ \A h \in 1 .. Len(tasks) - 1 : tasks'[h] = tasks[h + 1]
      BY <2>1, <3>1, TailIs
    <3>3. i \in DOMAIN tasks' /\ ~ tasks'[i].acked
      BY <1>1, <2>2 DEF Item
    <3>4. i + 1 \in DOMAIN tasks /\ tasks'[i] = tasks[i + 1]
      BY <3>2, <3>3, SMT
    <3> QED BY <2>2, <3>3, <3>4 DEF Item, ItemAt
  <2>3. CASE k # 2
    BY <1>1, <2>1, <2>3 DEF Item, ItemAt
  <2> QED BY <2>2, <2>3
<1> SUFFICES ASSUME NEW x \in At, NEW y \in At, Precedes(x, y)'
             PROVE  Precedes(x, y)
  BY DEF Carried
<1>2. PICK k \in 1 .. 3, l \in 1 .. 3, i \in Nat, j \in Nat :
        /\ Item(k, i)' /\ Item(l, j)' /\ Before(k, i, l, j)
        /\ ItemAt(k, i)' = x /\ ItemAt(l, j)' = y
  BY DEF Precedes, Before
<1>3. I(k, i) \in Nat /\ I(l, j) \in Nat /\ Before(k, I(k, i), l, I(l, j))
  BY <1>2, SMT DEF Before
<1>4. /\ Item(k, I(k, i)) /\ ItemAt(k, I(k, i)) = x
      /\ Item(l, I(l, j)) /\ ItemAt(l, I(l, j)) = y
  BY <1>1, <1>2
<1> HIDE DEF I
<1> QED BY <1>3, <1>4, Placed

\* A frame of the rest of a message, or the disconnect frame, leaves the bus.
LEMMA OtherFrameCarries ==
  ASSUME PeerTypes, bus # <<>>, bus' = Tail(bus), UNCHANGED acks,
         DOMAIN tasks' = DOMAIN tasks,
         \A i \in DOMAIN tasks :
           /\ tasks'[i].acked = tasks[i].acked
           /\ tasks'[i].number.at = tasks[i].number.at
  PROVE  Carried
<1> DEFINE I(k, i) == IF k = 3 THEN i + 1 ELSE i
<1>1. ASSUME NEW k \in 1 .. 3, NEW i \in Nat, Item(k, i)'
      PROVE  Item(k, I(k, i)) /\ ItemAt(k, I(k, i)) = ItemAt(k, i)'
  <2>1. CASE k = 3
    <3>1. bus \in Seq(Frame)
      BY DEF PeerTypes
    <3>2. /\ DOMAIN bus = 1 .. Len(bus) /\ Len(bus) \in Nat
          /\ DOMAIN bus' = 1 .. Len(bus) - 1
          /\ \A h \in 1 .. Len(bus) - 1 : bus'[h] = bus[h + 1]
      BY <3>1, TailIs
    <3>3. i \in DOMAIN bus' /\ bus'[i].block = 1
      BY <1>1, <2>1 DEF Item
    <3>4. i + 1 \in DOMAIN bus /\ bus'[i] = bus[i + 1]
      BY <3>2, <3>3, SMT
    <3> QED BY <2>1, <3>3, <3>4 DEF Item, ItemAt
  <2>2. CASE k = 2
    BY <1>1, <2>2 DEF Item, ItemAt
  <2>3. CASE k = 1
    BY <1>1, <2>3 DEF Item, ItemAt
  <2> QED BY <2>1, <2>2, <2>3
<1> SUFFICES ASSUME NEW x \in At, NEW y \in At, Precedes(x, y)'
             PROVE  Precedes(x, y)
  BY DEF Carried
<1>2. PICK k \in 1 .. 3, l \in 1 .. 3, i \in Nat, j \in Nat :
        /\ Item(k, i)' /\ Item(l, j)' /\ Before(k, i, l, j)
        /\ ItemAt(k, i)' = x /\ ItemAt(l, j)' = y
  BY DEF Precedes, Before
<1>3. I(k, i) \in Nat /\ I(l, j) \in Nat /\ Before(k, I(k, i), l, I(l, j))
  BY <1>2, SMT DEF Before
<1>4. /\ Item(k, I(k, i)) /\ ItemAt(k, I(k, i)) = x
      /\ Item(l, I(l, j)) /\ ItemAt(l, I(l, j)) = y
  BY <1>1, <1>2
<1> HIDE DEF I
<1> QED BY <1>3, <1>4, Placed

LEMMA FirstFrameCarries ==
  ASSUME PeerTypes, FirstFrame
  PROVE  Carried
<1> DEFINE I(k, i) == IF k = 3 THEN i + 1
                      ELSE IF k = 2 /\ i = Len(tasks) + 1 THEN 1 ELSE i
           K(k, i) == IF k = 2 /\ i = Len(tasks) + 1 THEN 3 ELSE k
           t == [msg |-> Head(bus).msg, number |-> Head(bus).number, acked |-> FALSE, new |-> ~ peer]
<1>0. /\ UNCHANGED acks /\ bus # <<>> /\ bus' = Tail(bus) /\ Head(bus).block = 1
      /\ tasks' = Append(tasks, t)
  BY DEF FirstFrame, Incoming
<1>5. /\ bus \in Seq(Frame) /\ tasks \in Seq(TaskRecord) /\ Head(bus) = bus[1]
      /\ bus[1] \in Frame /\ t \in TaskRecord
  <2>1. bus \in Seq(Frame) /\ tasks \in Seq(TaskRecord) /\ peer \in BOOLEAN
    BY DEF PeerTypes
  <2>2. Head(bus) = bus[1] /\ bus[1] \in Frame
    BY <1>0, <2>1, TailIs
  <2> QED BY <2>1, <2>2 DEF Frame, TaskRecord
<1> HIDE DEF t
<1>6. /\ DOMAIN tasks = 1 .. Len(tasks) /\ Len(tasks) \in Nat
      /\ DOMAIN tasks' = 1 .. Len(tasks) + 1
      /\ \A h \in 1 .. Len(tasks) : tasks'[h] = tasks[h]
      /\ tasks'[Len(tasks) + 1] = t
  BY <1>0, <1>5, AppendIs
<1>7. /\ DOMAIN bus = 1 .. Len(bus) /\ Len(bus) \in Nat /\ Len(bus) >= 1
      /\ DOMAIN bus' = 1 .. Len(bus) - 1
      /\ \A h \in 1 .. Len(bus) - 1 : bus'[h] = bus[h + 1]
  BY <1>0, <1>5, TailIs
<1>1. ASSUME NEW k \in 1 .. 3, NEW i \in Nat, Item(k, i)'
      PROVE  /\ Item(K(k, i), I(k, i)) /\ ItemAt(K(k, i), I(k, i)) = ItemAt(k, i)'
             /\ k = 2 => i <= Len(tasks) + 1
             /\ K(k, i) \in 1 .. 3
  <2>1. CASE k = 3
    <3>1. i \in DOMAIN bus' /\ bus'[i].block = 1
      BY <1>1, <2>1 DEF Item
    <3>2. i + 1 \in DOMAIN bus /\ bus'[i] = bus[i + 1]
      BY <1>7, <3>1, SMT
    <3> QED BY <2>1, <3>1, <3>2 DEF Item, ItemAt
  <2>2. CASE k = 2
    <3>1. i \in DOMAIN tasks' /\ ~ tasks'[i].acked
      BY <1>1, <2>2 DEF Item
    <3>2. i <= Len(tasks) + 1
      BY <1>6, <3>1, SMT
    <3>3. CASE i = Len(tasks) + 1
      <4>1. 1 \in DOMAIN bus /\ bus[1].block = 1
        BY <1>0, <1>5, <1>7, SMT
      <4>2. tasks'[i].number = bus[1].number
        BY <1>5, <1>6, <3>3 DEF t
      <4> QED BY <2>2, <3>2, <3>3, <4>1, <4>2 DEF Item, ItemAt
    <3>4. CASE i # Len(tasks) + 1
      <4>1. i \in DOMAIN tasks /\ tasks'[i] = tasks[i]
        BY <1>6, <3>1, <3>4, SMT
      <4> QED BY <2>2, <3>1, <3>2, <3>4, <4>1 DEF Item, ItemAt
    <3> QED BY <3>3, <3>4
  <2>3. CASE k = 1
    BY <1>0, <1>1, <2>3 DEF Item, ItemAt
  <2> QED BY <2>1, <2>2, <2>3
<1> SUFFICES ASSUME NEW x \in At, NEW y \in At, Precedes(x, y)'
             PROVE  Precedes(x, y)
  BY DEF Carried
<1>2. PICK k \in 1 .. 3, l \in 1 .. 3, i \in Nat, j \in Nat :
        /\ Item(k, i)' /\ Item(l, j)' /\ Before(k, i, l, j)
        /\ ItemAt(k, i)' = x /\ ItemAt(l, j)' = y
  BY DEF Precedes, Before
<1>3. I(k, i) \in Nat /\ I(l, j) \in Nat /\ Before(K(k, i), I(k, i), K(l, j), I(l, j))
  <2>1. (k = 2 => i <= Len(tasks) + 1) /\ (l = 2 => j <= Len(tasks) + 1)
    BY <1>1, <1>2
  <2>2. l = 3 => j >= 1
    BY <1>2, <1>7, SMT DEF Item
  <2>3. Before(k, i, l, j)
    BY <1>2
  <2>4. Len(tasks) \in Nat
    BY <1>6
  <2> QED BY <2>1, <2>2, <2>3, <2>4, SMT DEF Before
<1>4. /\ Item(K(k, i), I(k, i)) /\ ItemAt(K(k, i), I(k, i)) = x
      /\ Item(K(l, j), I(l, j)) /\ ItemAt(K(l, j), I(l, j)) = y
      /\ K(k, i) \in 1 .. 3 /\ K(l, j) \in 1 .. 3
  BY <1>1, <1>2
<1> HIDE DEF I, K
<1> QED BY <1>3, <1>4, Placed

LEMMA AckSentCarries ==
  ASSUME PeerTypes, AckSent
  PROVE  Carried
<1>0. PICK p \in DOMAIN tasks :
        /\ ~ tasks[p].acked /\ \A h \in 1 .. p - 1 : tasks[h].acked
        /\ tasks' = [tasks EXCEPT ![p].acked = TRUE]
        /\ Onto(acks, acks', tasks[p].number)
        /\ UNCHANGED bus
  BY DEF AckSent
<1> DEFINE new(k, i) == k = 1 /\ i = Len(acks) + 1
           I(k, i) == IF new(k, i) THEN p ELSE i
           K(k, i) == IF new(k, i) THEN 2 ELSE k
<1>5. /\ tasks \in Seq(TaskRecord) /\ acks \in Seq(Number) /\ faults \in 0 .. MaxFaults
      /\ tasks[p].number \in Number /\ p \in Nat /\ tasks[p] \in TaskRecord
  <2>1. tasks \in Seq(TaskRecord) /\ acks \in Seq(Number) /\ faults \in 0 .. MaxFaults
    BY DEF PeerTypes
  <2>2. tasks[p] \in TaskRecord /\ p \in Nat
    BY <2>1
  <2> QED BY <2>1, <2>2 DEF TaskRecord
<1>6. /\ acks' = acks \/ acks' = Append(acks, tasks[p].number)
      /\ Len(acks) \in Nat /\ DOMAIN acks = 1 .. Len(acks)
      /\ \A h \in DOMAIN acks' :
           \/ h \in DOMAIN acks /\ acks'[h] = acks[h] /\ h <= Len(acks)
           \/ h = Len(acks) + 1 /\ acks'[h] = tasks[p].number
  <2>1. acks' = acks \/ acks' = Append(acks, tasks[p].number)
    BY <1>0, <1>5, OntoIs
  <2>2. /\ Len(acks) \in Nat /\ DOMAIN acks = 1 .. Len(acks)
        /\ DOMAIN Append(acks, tasks[p].number) = 1 .. Len(acks) + 1
        /\ Append(acks, tasks[p].number)[Len(acks) + 1] = tasks[p].number
        /\ \A h \in 1 .. Len(acks) : Append(acks, tasks[p].number)[h] = acks[h]
    BY <1>5, AppendIs
  <2>3. CASE acks' = acks
    BY <2>2, <2>3, SMT
  <2>4. CASE acks' = Append(acks, tasks[p].number)
    BY <2>2, <2>4, SMT
  <2> QED BY <2>1, <2>2, <2>3, <2>4
<1>7. \A h \in DOMAIN tasks' :
        /\ h \in DOMAIN tasks /\ tasks'[h].number = tasks[h].number
        /\ ~ tasks'[h].acked => ~ tasks[h].acked /\ h # p
  BY <1>0, <1>5, SMT DEF TaskRecord
<1>1. ASSUME NEW k \in 1 .. 3, NEW i \in Nat, Item(k, i)'
      PROVE  /\ Item(K(k, i), I(k, i)) /\ ItemAt(K(k, i), I(k, i)) = ItemAt(k, i)'
             /\ k = 1 => i <= Len(acks) + 1
             /\ k = 2 => i > p
             /\ K(k, i) \in 1 .. 3 /\ I(k, i) \in Nat
  <2>1. CASE k = 1
    <3>1. i \in DOMAIN acks'
      BY <1>1, <2>1 DEF Item
    <3>2. CASE i = Len(acks) + 1
      <4>1. acks'[i] = tasks[p].number
        BY <1>6, <3>1, <3>2, SMT
      <4> QED BY <1>0, <1>5, <2>1, <3>2, <4>1 DEF Item, ItemAt
    <3>3. CASE i # Len(acks) + 1
      <4>1. i \in DOMAIN acks /\ acks'[i] = acks[i] /\ i <= Len(acks) + 1
        BY <1>6, <3>1, <3>3, SMT
      <4> QED BY <2>1, <3>3, <4>1 DEF Item, ItemAt
    <3> QED BY <3>2, <3>3
  <2>2. CASE k = 2
    <3>1. i \in DOMAIN tasks' /\ ~ tasks'[i].acked
      BY <1>1, <2>2 DEF Item
    <3>2. i \in DOMAIN tasks /\ ~ tasks[i].acked /\ tasks'[i].number = tasks[i].number /\ i # p
      BY <1>7, <3>1
    <3>3. i > p
      <4>1. i \notin 1 .. p - 1 /\ i >= 1
        BY <1>0, <1>5, <3>2
      <4> QED BY <1>5, <3>2, <4>1, SMT
    <3> QED BY <2>2, <3>2, <3>3 DEF Item, ItemAt
  <2>3. CASE k = 3
    BY <1>0, <1>1, <2>3 DEF Item, ItemAt
  <2> QED BY <2>1, <2>2, <2>3
<1> SUFFICES ASSUME NEW x \in At, NEW y \in At, Precedes(x, y)'
             PROVE  Precedes(x, y)
  BY DEF Carried
<1>2. PICK k \in 1 .. 3, l \in 1 .. 3, i \in Nat, j \in Nat :
        /\ Item(k, i)' /\ Item(l, j)' /\ Before(k, i, l, j)
        /\ ItemAt(k, i)' = x /\ ItemAt(l, j)' = y
  BY DEF Precedes, Before
<1>3. Before(K(k, i), I(k, i), K(l, j), I(l, j))
  <2>1. (k = 1 => i <= Len(acks) + 1) /\ (l = 1 => j <= Len(acks) + 1) /\ (l = 2 => j > p)
    BY <1>1, <1>2
  <2> QED BY <1>2, <1>5, <1>6, <2>1, SMT DEF Before
<1>4. /\ Item(K(k, i), I(k, i)) /\ ItemAt(K(k, i), I(k, i)) = x
      /\ Item(K(l, j), I(l, j)) /\ ItemAt(K(l, j), I(l, j)) = y
      /\ K(k, i) \in 1 .. 3 /\ K(l, j) \in 1 .. 3 /\ I(k, i) \in Nat /\ I(l, j) \in Nat
  BY <1>1, <1>2
<1> HIDE DEF I, K
<1> QED BY <1>3, <1>4, Placed

-----------------------------------------------------------------------------
(* Type correctness *)

LEMMA JobType ==
  ASSUME NEW m \in Message, NEW b \in Nat, NEW n \in Number
  PROVE  [msg |-> m, block |-> b, number |-> n] \in Frame
BY DEF Frame

LEMMA OneMore ==
  ASSUME NEW s \in Seq(Frame), s # <<>>
  PROVE  /\ [s EXCEPT ![1].block = @ + 1] \in Seq(Frame)
         /\ DOMAIN [s EXCEPT ![1].block = @ + 1] = DOMAIN s
         /\ [s EXCEPT ![1].block = @ + 1][1] = [s[1] EXCEPT !.block = @ + 1]
         /\ \A i \in DOMAIN s : i # 1 => [s EXCEPT ![1].block = @ + 1][i] = s[i]
<1>1. s[1] \in Frame /\ 1 \in DOMAIN s /\ DOMAIN s = 1 .. Len(s)
  BY TailIs, SMT
<1>2. [s[1] EXCEPT !.block = @ + 1] \in Frame
  BY <1>1, SMT DEF Frame
<1>3. s \in [1 .. Len(s) -> Frame] /\ Len(s) \in Nat
  OBVIOUS
<1>4. [s EXCEPT ![1].block = @ + 1] \in [1 .. Len(s) -> Frame]
  BY <1>1, <1>2, <1>3
<1>5. [s EXCEPT ![1].block = @ + 1] \in Seq(Frame)
  BY <1>3, <1>4, SMT
<1> QED BY <1>1, <1>5

LEMMA TypeInit == Init => PeerTypes
<1> SUFFICES ASSUME Init PROVE PeerTypes
  OBVIOUS
<1>1. Modulus \in Nat /\ Modulus > 1 /\ MaxFaults \in Nat
  BY CanPeerAssumption
<1>2. scounter \in Number /\ frame \in Number
  <2>1. PICK n \in First : scounter = [at |-> n, last |-> FALSE]
    BY DEF Init
  <2>2. n \in 0 .. Modulus - 1
    <3>1. n \in 0 .. Modulus - 2
      BY CanPeerAssumption
    <3> QED BY <1>1, <3>1, SMT
  <2> QED BY <2>1, <2>2 DEF Init, Number
<1>3. rcounter \in Number
  BY <1>1, SMT DEF Init, Number
<1>4. phase \in [Message -> Phase] /\ lock \in Message \cup {NoMessage}
      /\ tries \in Nat /\ ack \in {"none", "pending", "set"}
  BY DEF Init, Phase
<1>5. /\ jobs \in Seq(Frame) /\ bus \in Seq(Frame) /\ acks \in Seq(Number)
      /\ tasks \in Seq(TaskRecord)
      /\ rdata \in Seq(Block) /\ got \in Seq(Seq(Block))
      /\ order \in Seq(Message)
  <2>1. /\ jobs = <<>> /\ bus = <<>> /\ acks = <<>> /\ tasks = <<>>
        /\ rdata = <<>> /\ got = <<>> /\ order = <<>>
    BY DEF Init
  <2> QED BY <2>1
<1>7. open \in BOOLEAN /\ peer \in BOOLEAN  /\ taken \subseteq Message
  BY DEF Init
<1>6. faults \in 0 .. MaxFaults
  BY <1>1, SMT DEF Init
<1> QED BY <1>2, <1>3, <1>4, <1>5, <1>6, <1>7 DEF PeerTypes

\* The numbers of faults a timeout and a lost frame leave.
LEMMA DueIs ==
  ASSUME Due, faults \in 0 .. MaxFaults
  PROVE  /\ faults' \in 0 .. MaxFaults
         /\ (Quiet /\ faults' = faults) \/ faults' = faults + 1
BY CanPeerAssumption, SMT DEF Due, Fault

LEMMA TypeSend ==
  ASSUME PeerTypes, NEW m \in Message, Client(m)
  PROVE  PeerTypes'
<1>1. UNCHANGED <<open, bus, acks, server>>
  BY DEF Client, Send, FirstSent, Acknowledged, RestSent, Retry, GiveUp
<1>2. UNCHANGED <<bus, acks, peer, rdata, rcounter, tasks, got, taken, open>>
  BY <1>1 DEF server
<1>3. /\ bus' \in Seq(Frame) /\ acks' \in Seq(Number) /\ rcounter' \in Number
      /\ rdata' \in Seq(Block) /\ got' \in Seq(Seq(Block)) /\ tasks' \in Seq(TaskRecord)
      /\ peer' \in BOOLEAN /\ taken' \subseteq Message /\ open' \in BOOLEAN
  BY <1>2 DEF PeerTypes
<1>4. phase' \in [Message -> Phase]
  <2>1. phase \in [Message -> Phase]
    BY DEF PeerTypes
  <2>2. \E p \in Phase : phase' = [phase EXCEPT ![m] = p]
    BY DEF Client, Send, FirstSent, Acknowledged, RestSent, Retry, GiveUp, Phase
  <2> QED BY <2>1, <2>2
<1>5. lock' \in Message \cup {NoMessage} /\ ack' \in {"none", "pending", "set"}
  BY DEF Client, Send, FirstSent, Acknowledged, RestSent, Retry, GiveUp, PeerTypes
<1>6. tries' \in Nat
  <2>1. tries \in Nat
    BY DEF PeerTypes
  <2>2. tries' \in {1, tries, tries + 1}
    BY DEF Client, Send, FirstSent, Acknowledged, RestSent, Retry, GiveUp, NextTry
  <2> QED BY <2>1, <2>2, SMT
<1>7. faults' \in 0 .. MaxFaults
  <2>1. faults \in 0 .. MaxFaults
    BY DEF PeerTypes
  <2>2. faults' = faults \/ Due
    BY DEF Client, Send, FirstSent, Acknowledged, RestSent, Retry, GiveUp
  <2> QED BY <2>1, <2>2, DueIs
<1>8. scounter' \in Number /\ frame' \in Number
  <2>1. scounter \in Number /\ frame \in Number
    BY DEF PeerTypes
  <2>2. IsLast(m, 1) \in BOOLEAN
    BY IsLastType
  <2>3. Numbered(IsLast(m, 1)) \in Number
    BY <2>1, <2>2, NextNumber
  <2>4. \/ scounter' = scounter /\ frame' = frame
        \/ scounter' = Numbered(IsLast(m, 1)) /\ frame' = scounter'
    BY DEF Client, Send, FirstSent, Acknowledged, RestSent, Retry, GiveUp
  <2> QED BY <2>1, <2>3, <2>4
<1>9. jobs' \in Seq(Frame)
  <2>1. jobs \in Seq(Frame) /\ scounter \in Number
    BY DEF PeerTypes
  <2>2. /\ [msg |-> m, block |-> 1, number |-> frame'] \in Frame
        /\ [msg |-> m, block |-> 2, number |-> scounter] \in Frame
    BY <1>8, <2>1, JobType
  <2>3. \/ jobs' = jobs
        \/ jobs' = Append(jobs, [msg |-> m, block |-> 1, number |-> frame'])
        \/ jobs' = Append(jobs, [msg |-> m, block |-> 2, number |-> scounter])
    BY DEF Client, Send, FirstSent, Acknowledged, RestSent, Retry, GiveUp
  <2>4. /\ Append(jobs, [msg |-> m, block |-> 1, number |-> frame']) \in Seq(Frame)
        /\ Append(jobs, [msg |-> m, block |-> 2, number |-> scounter]) \in Seq(Frame)
    BY <2>1, <2>2, AppendIs
  <2> QED BY <2>1, <2>3, <2>4
<1>10. order' \in Seq(Message)
  <2>1. order \in Seq(Message)
    BY DEF PeerTypes
  <2>2. order' = order \/ order' = Append(order, m)
    BY DEF Client, Send, FirstSent, Acknowledged, RestSent, Retry, GiveUp
  <2> QED BY <2>1, <2>2, AppendIs
<1> QED BY <1>3, <1>4, <1>5, <1>6, <1>7, <1>8, <1>9, <1>10 DEF PeerTypes

LEMMA TypeWire ==
  ASSUME PeerTypes, Transmit \/ AckReceived \/ Disconnect
  PROVE  PeerTypes'
<1>1. /\ UNCHANGED <<phase, lock, tries, frame, full, order, crossed, server>>
      /\ ack' \in {"set", ack} /\ open' \in {FALSE, open}
  BY DEF Transmit, AckReceived, Disconnect
<1>2. /\ phase' \in [Message -> Phase] /\ lock' \in Message \cup {NoMessage}
      /\ tries' \in Nat /\ ack' \in {"none", "pending", "set"}
      /\ frame' \in Number /\ rcounter' \in Number
      /\ open' \in BOOLEAN /\ peer' \in BOOLEAN
      /\ tasks' \in Seq(TaskRecord)
      /\ rdata' \in Seq(Block) /\ got' \in Seq(Seq(Block))
      /\ order' \in Seq(Message) /\ taken' \subseteq Message
  BY <1>1 DEF PeerTypes, server
<1>3. /\ jobs \in Seq(Frame) /\ bus \in Seq(Frame) /\ acks \in Seq(Number)
      /\ faults \in 0 .. MaxFaults /\ scounter \in Number
  BY DEF PeerTypes
<1>4. CASE Transmit
  <2> DEFINE j == Head(jobs)
             n == Numbered(IsLast(j.msg, j.block))
  <2>1. j \in Frame /\ j.msg \in Message /\ j.block \in Nat /\ jobs # <<>>
    <3>1. jobs # <<>>
      BY <1>4 DEF Transmit
    <3>2. j \in Frame
      BY <1>3, <3>1, TailIs
    <3> QED BY <3>1, <3>2 DEF Frame
  <2>2. n \in Number
    BY <1>3, <2>1, IsLastType, NextNumber
  <2>3. [j EXCEPT !.number = n] \in Frame
    BY <2>1, <2>2 DEF Frame
  <2>4. CASE j.block <= 1
    <3>1. Onto(bus, bus', j) /\ jobs' = Tail(jobs) /\ UNCHANGED <<scounter, acks>>
      BY <1>4, <2>4 DEF Transmit
    <3>2. bus' \in Seq(Frame) /\ faults' \in 0 .. MaxFaults
      BY <1>3, <2>1, <3>1, OntoIs
    <3>3. jobs' \in Seq(Frame)
      BY <1>3, <2>1, <3>1, TailIs
    <3> QED BY <1>2, <1>3, <3>1, <3>2, <3>3 DEF PeerTypes
  <2>5. CASE ~ j.block <= 1
    <3>1. /\ Onto(bus, bus', [j EXCEPT !.number = n])
          /\ jobs' \in {Tail(jobs), [jobs EXCEPT ![1].block = @ + 1]}
          /\ scounter' = n /\ UNCHANGED acks
      BY <1>4, <2>5 DEF Transmit
    <3>2. bus' \in Seq(Frame) /\ faults' \in 0 .. MaxFaults
      BY <1>3, <2>3, <3>1, OntoIs
    <3>3. jobs' \in Seq(Frame)
      <4>1. Tail(jobs) \in Seq(Frame)
        BY <1>3, <2>1, TailIs
      <4>2. [jobs EXCEPT ![1].block = @ + 1] \in Seq(Frame)
        BY <1>3, <2>1, OneMore
      <4> QED BY <3>1, <4>1, <4>2
    <3> QED BY <1>2, <1>3, <2>2, <3>1, <3>2, <3>3 DEF PeerTypes
  <2> QED BY <2>4, <2>5
<1>5. CASE AckReceived
  <2>1. UNCHANGED <<jobs, bus, faults, scounter>> /\ acks # <<>> /\ acks' = Tail(acks)
    BY <1>5 DEF AckReceived
  <2>2. acks' \in Seq(Number)
    BY <1>3, <2>1, TailIs
  <2> QED BY <1>2, <1>3, <2>1, <2>2 DEF PeerTypes
<1>6. CASE Disconnect
  <2>1. /\ UNCHANGED <<bus, faults, scounter, acks>>
        /\ jobs' = Append(jobs, [msg |-> Greeting, block |-> 0, number |-> scounter])
    BY <1>6 DEF Disconnect
  <2>2. [msg |-> Greeting, block |-> 0, number |-> scounter] \in Frame
    BY <1>3, JobType, CanPeerAssumption
  <2>3. jobs' \in Seq(Frame)
    BY <1>3, <2>1, <2>2, AppendIs
  <2> QED BY <1>2, <1>3, <2>1, <2>3 DEF PeerTypes
<1> QED BY <1>4, <1>5, <1>6

LEMMA TypeServer ==
  ASSUME PeerTypes,
         FirstFrame \/ NextFrame \/ DisconnectFrame \/ AckSent \/ FirstHandled
  PROVE  PeerTypes'
<1>1. UNCHANGED <<client, jobs>>
  BY DEF FirstFrame, NextFrame, DisconnectFrame, AckSent, FirstHandled, Incoming
<1>2. /\ phase' \in [Message -> Phase] /\ lock' \in Message \cup {NoMessage}
      /\ tries' \in Nat /\ ack' \in {"none", "pending", "set"}
      /\ frame' \in Number /\ scounter' \in Number
      /\ jobs' \in Seq(Frame)
      /\ open' \in BOOLEAN /\ order' \in Seq(Message)
  BY <1>1 DEF PeerTypes, client
<1>3. /\ bus \in Seq(Frame) /\ acks \in Seq(Number) /\ rcounter \in Number
      /\ faults \in 0 .. MaxFaults /\ tasks \in Seq(TaskRecord) /\ peer \in BOOLEAN
      /\ rdata \in Seq(Block) /\ got \in Seq(Seq(Block)) /\ taken \subseteq Message
  BY DEF PeerTypes
<1>4. ASSUME Incoming
      PROVE  /\ bus' \in Seq(Frame) /\ acks' \in Seq(Number) /\ faults' \in 0 .. MaxFaults
             /\ Head(bus) \in Frame /\ Head(bus).msg \in Message
             /\ Head(bus).block \in Nat /\ Head(bus).number \in Number
  <2>1. bus # <<>> /\ bus' = Tail(bus) /\ UNCHANGED <<acks, faults>>
    BY <1>4 DEF Incoming
  <2>2. Tail(bus) \in Seq(Frame) /\ Head(bus) \in Frame
    BY <1>3, <2>1, TailIs
  <2> QED BY <1>3, <2>1, <2>2 DEF Frame
<1>5. CASE FirstFrame
  <2> DEFINE f == Head(bus)
             t == [msg |-> f.msg, number |-> f.number, acked |-> FALSE, new |-> ~ peer]
  <2>1. Incoming /\ peer' = TRUE /\ rdata' = <<<<f.msg, 1>>>> /\ rcounter' = f.number
        /\ tasks' = Append(tasks, t) /\ taken' = taken \cup {f.msg} /\ UNCHANGED got
    BY <1>5 DEF FirstFrame
  <2>2. t \in TaskRecord
    BY <1>3, <1>4, <2>1 DEF TaskRecord
  <2>3. tasks' \in Seq(TaskRecord)
    BY <1>3, <2>1, <2>2, AppendIs
  <2>4. rdata' \in Seq(Block)
    <3>1. <<f.msg, 1>> \in Block
      BY <1>4, <2>1, SMT DEF Block
    <3> HIDE DEF Block
    <3> QED BY <2>1, <3>1
  <2>5. rcounter' \in Number /\ taken' \subseteq Message /\ peer' \in BOOLEAN
        /\ got' \in Seq(Seq(Block))
    BY <1>3, <1>4, <2>1
  <2> QED BY <1>2, <1>4, <2>1, <2>3, <2>4, <2>5 DEF PeerTypes
<1>6. CASE NextFrame
  <2> DEFINE f == Head(bus)
             data == Append(rdata, <<f.msg, f.block>>)
  <2>1. Incoming /\ UNCHANGED <<peer, tasks, taken>>
    BY <1>6 DEF NextFrame
  <2>2. rcounter' = rcounter \/ rcounter' = f.number
    BY <1>6 DEF NextFrame
  <2>3. rdata' = rdata \/ rdata' = <<>> \/ rdata' = data
    BY <1>6 DEF NextFrame
  <2>4. got' = got \/ got' = Append(got, data)
    BY <1>6 DEF NextFrame
  <2>5. data \in Seq(Block)
    <3>1. <<f.msg, f.block>> \in Block
      BY <1>4, <2>1, SMT DEF Block
    <3> QED BY <1>3, <3>1, AppendIs
  <2>6. rdata' \in Seq(Block)
    <3>1. <<>> \in Seq(Block)
      OBVIOUS
    <3> QED BY <1>3, <2>3, <2>5, <3>1
  <2>7. got' \in Seq(Seq(Block))
    <3>1. Append(got, data) \in Seq(Seq(Block))
      BY <1>3, <2>5, AppendIs
    <3> QED BY <1>3, <2>4, <3>1
  <2>8. /\ rcounter' \in Number /\ peer' \in BOOLEAN /\ tasks' \in Seq(TaskRecord)
        /\ taken' \subseteq Message
    BY <1>3, <1>4, <2>1, <2>2
  <2> QED BY <1>2, <1>4, <2>1, <2>6, <2>7, <2>8 DEF PeerTypes
<1>7. CASE DisconnectFrame
  <2>1. /\ Incoming /\ peer' = FALSE /\ UNCHANGED <<rdata, rcounter, taken>>
        /\ got' = got \/ got' = Append(got, Eof)
        /\ tasks' = [i \in DOMAIN tasks |-> [tasks[i] EXCEPT !.number.last = FALSE]]
    BY <1>7 DEF DisconnectFrame
  <2>2. tasks' \in Seq(TaskRecord)
    <3>1. \A i \in DOMAIN tasks : [tasks[i] EXCEPT !.number.last = FALSE] \in TaskRecord
      <4> SUFFICES ASSUME NEW i \in DOMAIN tasks
                   PROVE  [tasks[i] EXCEPT !.number.last = FALSE] \in TaskRecord
        OBVIOUS
      <4>1. tasks[i] \in TaskRecord
        BY <1>3
      <4> QED BY <4>1 DEF TaskRecord, Number
    <3>2. DOMAIN tasks = 1 .. Len(tasks) /\ Len(tasks) \in Nat
      BY <1>3
    <3>3. tasks' \in [1 .. Len(tasks) -> TaskRecord]
      BY <2>1, <3>1, <3>2
    <3> QED BY <3>2, <3>3, SMT
  <2>3. got' \in Seq(Seq(Block))
    <3>2. Append(got, Eof) \in Seq(Seq(Block))
      BY <1>3, QueueEnds, AppendIs
    <3> QED BY <1>3, <2>1, <3>2
  <2> QED BY <1>2, <1>3, <1>4, <2>1, <2>2, <2>3 DEF PeerTypes
<1>8. CASE AckSent
  <2>1. PICK i \in DOMAIN tasks :
          /\ tasks' = [tasks EXCEPT ![i].acked = TRUE]
          /\ Onto(acks, acks', tasks[i].number)
          /\ UNCHANGED <<bus, peer, rdata, rcounter, got, taken>>
    BY <1>8 DEF AckSent
  <2>2. tasks[i] \in TaskRecord
    BY <1>3
  <2>3. tasks[i].number \in Number /\ [tasks[i] EXCEPT !.acked = TRUE] \in TaskRecord
    BY <2>2 DEF TaskRecord
  <2>4. tasks' \in Seq(TaskRecord)
    <3>1. DOMAIN tasks = 1 .. Len(tasks) /\ Len(tasks) \in Nat
          /\ tasks \in [1 .. Len(tasks) -> TaskRecord]
      BY <1>3
    <3>2. tasks' \in [1 .. Len(tasks) -> TaskRecord]
      BY <2>1, <2>3, <3>1
    <3> QED BY <3>1, <3>2, SMT
  <2>5. acks' \in Seq(Number) /\ faults' \in 0 .. MaxFaults
    BY <1>3, <2>1, <2>3, OntoIs
  <2> QED BY <1>2, <1>3, <2>1, <2>4, <2>5 DEF PeerTypes
<1>9. CASE FirstHandled
  <2>1. /\ tasks # <<>> /\ tasks' = Tail(tasks)
        /\ UNCHANGED <<bus, acks, peer, rcounter, taken, faults>>
        /\ got' \in {got, Append(got, rdata), Append(got, Spoilt)}
        /\ rdata' = <<>> \/ rdata' = rdata
    BY <1>9 DEF FirstHandled
  <2>2. tasks' \in Seq(TaskRecord)
    BY <1>3, <2>1, TailIs
  <2>3. got' \in Seq(Seq(Block))
    <3>1. Append(got, rdata) \in Seq(Seq(Block)) /\ Append(got, Spoilt) \in Seq(Seq(Block))
      BY <1>3, QueueEnds, AppendIs
    <3> QED BY <1>3, <2>1, <3>1
  <2>4. rdata' \in Seq(Block)
    <3>1. <<>> \in Seq(Block)
      OBVIOUS
    <3> QED BY <1>3, <2>1, <3>1
  <2> QED BY <1>2, <1>3, <2>1, <2>2, <2>3, <2>4 DEF PeerTypes
<1> QED BY <1>5, <1>6, <1>7, <1>8, <1>9

LEMMA TypeNext ==
  ASSUME PeerTypes, [Next]_vars
  PROVE  PeerTypes'
<1>1. CASE UNCHANGED vars
  BY <1>1 DEF PeerTypes, vars, client, server
<1>2. CASE Next
  BY <1>2, TypeSend, TypeWire, TypeServer DEF Next
<1> QED BY <1>1, <1>2

-----------------------------------------------------------------------------
(* Why an acknowledgement that counts is true *)

\* A job of the executor that generates the frames after the first one, and
\* how many it has left; a job that sends a first frame.
Generator(i) == i \in DOMAIN jobs /\ jobs[i].block > 1
Left(i) == Blocks[jobs[i].msg] - jobs[i].block + 1
FirstJob(i) == i \in DOMAIN jobs /\ jobs[i].block = 1
Generating == \E i \in Nat : Generator(i)

Locked ==
  /\ \A m \in Message : phase[m] \in {"sending", "waiting"} => m = lock
  /\ lock = NoMessage <=> ack = "none"

\* One generator at most, and the first frames, all of the holder, behind it.
Executing ==
  /\ \A i \in Nat : Generator(i) => jobs[i].block <= Blocks[jobs[i].msg]
  /\ \A i, j \in Nat : Generator(i) /\ Generator(j) => i = j
  /\ \A i, j \in Nat : Generator(i) /\ FirstJob(j) => i < j
  /\ \A i \in Nat : FirstJob(i) =>
       jobs[i].msg = lock /\ jobs[i].number = frame /\ phase[lock] = "sending"
  /\ lock # NoMessage /\ Generating => \E j \in Nat : FirstJob(j)

\* Behind an acknowledgement of the frame there are only more of them.
InTurn == \A x \in At : Precedes(frame.at, x) => x = frame.at

AllNew == \A x \in At : Underway(x) => x = frame.at

\* The frame was numbered e frames ago, and the counter will not come to it
\* again; other acknowledgements under way are of the frame numbered d frames
\* ago, which the counter will not come to either.
Gap(e) == /\ Shift(frame.at, e) = scounter.at
          /\ \A i \in Nat : Generator(i) => e + Left(i) <= Modulus - 2
OldGap(d) == /\ \A x \in At : Underway(x) => x = frame.at \/ Shift(x, d) = scounter.at
             /\ \A i \in Nat : Generator(i) => d + Left(i) <= Modulus - 1
Spaced == \E e \in 0 .. Modulus - 2 :
  /\ Gap(e)
  /\ lock # NoMessage => \E d \in 0 .. Modulus - 1 : e < d /\ OldGap(d)

\* When the lock is free, or may become so, nothing old is under way.
Waits ==
  /\ lock = NoMessage \/ ack = "set" \/ tries > faults + 1 => AllNew
  /\ ack = "set" => scounter.at = frame.at /\ lock \in taken
  /\ lock # NoMessage /\ Generating => ~ Underway(frame.at) /\ ack = "pending"

\* An acknowledgement of the frame is that of the holder's message.
Told == lock # NoMessage =>
  /\ \A i \in DOMAIN acks : acks[i].at = frame.at => lock \in taken
  /\ \A i \in DOMAIN tasks : ~ tasks[i].acked /\ tasks[i].number.at = frame.at => lock \in taken
  /\ \A i \in DOMAIN bus : bus[i].block = 1 /\ bus[i].number.at = frame.at => bus[i].msg = lock

AckInv == Locked /\ Executing /\ InTurn /\ Spaced /\ Waits /\ Told /\ AckIsTrue

LEMMA AckInvInit == Init => AckInv
<1> SUFFICES ASSUME Init PROVE AckInv
  OBVIOUS
<1>1. PeerTypes
  BY TypeInit
<1>2. Modulus \in Nat /\ Modulus > 1 /\ 0 \in 0 .. Modulus - 2
  BY CanPeerAssumption, SMT
<1>3. jobs = <<>> /\ bus = <<>> /\ acks = <<>> /\ tasks = <<>> /\ frame = scounter
      /\ lock = NoMessage /\ ack = "none" /\ phase = [m \in Message |-> "idle"]
  BY DEF Init
<1>4. \A i \in Nat : ~ Generator(i) /\ ~ FirstJob(i)
  BY <1>3, SMT DEF Generator, FirstJob
<1>5. \A x, y : ~ Precedes(x, y)
  <2>1. \A k \in 1 .. 3, i \in Nat : ~ Item(k, i)
    BY <1>3, SMT DEF Item
  <2> QED BY <2>1 DEF Precedes
<1>6. Locked
  BY <1>3 DEF Locked
<1>7. Executing
  BY <1>3, <1>4 DEF Executing
<1>8. InTurn /\ AllNew
  BY <1>5 DEF InTurn, AllNew, Underway
<1>9. Spaced
  <2>1. Shift(frame.at, 0) = scounter.at
    BY <1>1, <1>3, ShiftZero, NumberIs DEF PeerTypes
  <2>2. Gap(0)
    BY <1>4, <2>1 DEF Gap
  <2> QED BY <1>2, <1>3, <2>2 DEF Spaced
<1>10. Waits
  BY <1>3, <1>8 DEF Waits
<1>11. Told
  BY <1>3 DEF Told
<1>12. AckIsTrue
  BY <1>3 DEF AckIsTrue
<1> QED BY <1>6, <1>7, <1>8, <1>9, <1>10, <1>11, <1>12 DEF AckInv

\* Where the counters of frames are.
LEMMA CountersAre ==
  ASSUME PeerTypes
  PROVE  /\ frame.at \in At /\ scounter.at \in At
         /\ Modulus \in Nat /\ Modulus > 1
         /\ faults \in Nat /\ tries \in Nat
<1>1. faults \in Nat /\ Modulus \in Nat /\ Modulus > 1
  BY CanPeerAssumption, SMT DEF PeerTypes
<1> QED BY <1>1, NumberIs DEF PeerTypes

LEMMA LaterFaults ==
  ASSUME NEW a \in Nat, NEW b \in Nat, NEW c \in Nat
  PROVE  /\ a <= b => c > a + 1 \/ ~ c > b + 1
         /\ a + 1 > b + 1 => a > b
OBVIOUS

\* A step that leaves the client and its executor alone and only carries
\* acknowledgements on.
LEMMA CarriedKeeps ==
  ASSUME PeerTypes, PeerTypes', AckInv, Carried, UNCHANGED <<client, jobs>>, Told',
         taken \subseteq taken', faults <= faults'
  PROVE  AckInv'
<1>1. /\ UNCHANGED <<phase, lock, tries, frame, scounter, ack, jobs>>
      /\ frame.at \in At /\ scounter.at \in At
  BY CountersAre DEF client
<1>2. faults \in Nat /\ faults' \in Nat /\ tries \in Nat
  BY CountersAre, SMT DEF PeerTypes
<1>3. Locked'
  BY <1>1 DEF AckInv, Locked
<1>4. /\ \A i : Generator(i)' <=> Generator(i)
      /\ \A i : FirstJob(i)' <=> FirstJob(i)
      /\ \A i : Left(i)' = Left(i)
      /\ Generating' <=> Generating
  BY <1>1 DEF Generator, FirstJob, Left, Generating
<1>5. Executing'
  BY <1>1, <1>4 DEF AckInv, Executing
<1>6. \A x \in At : Underway(x)' => Underway(x)
  BY DEF Carried, Underway
<1>7. InTurn'
  BY <1>1 DEF AckInv, InTurn, Carried
<1>8. AllNew => AllNew'
  BY <1>1, <1>6 DEF AllNew
<1>9. \A e : Gap(e) => Gap(e)'
  BY <1>1, <1>4 DEF Gap
<1>10. \A d : OldGap(d) => OldGap(d)'
  BY <1>1, <1>4, <1>6 DEF OldGap
<1>11. Spaced'
  <2>1. PICK e \in 0 .. Modulus - 2 :
          /\ Gap(e)
          /\ lock # NoMessage => \E d \in 0 .. Modulus - 1 : e < d /\ OldGap(d)
    BY DEF AckInv, Spaced
  <2> QED BY <1>1, <1>9, <1>10, <2>1 DEF Spaced
<1>12. Waits'
  <2>1. tries > faults + 1 \/ ~ tries > faults' + 1
    BY <1>2, LaterFaults
  <2> QED BY <1>1, <1>4, <1>6, <1>8, <2>1 DEF AckInv, Waits
<1>13. AckIsTrue'
  BY <1>1 DEF AckInv, AckIsTrue
<1> QED BY <1>3, <1>5, <1>7, <1>11, <1>12, <1>13 DEF AckInv

LEMMA AckReceivedKeeps ==
  ASSUME PeerTypes, PeerTypes', AckInv, AckReceived
  PROVE  AckInv'
<1>1. /\ acks # <<>> /\ acks' = Tail(acks)
      /\ ack' = IF Acknowledges(Head(acks)) THEN "set" ELSE ack
      /\ UNCHANGED <<phase, lock, tries, frame, scounter, open, full, order, crossed, jobs, bus,
                     server, faults>>
      /\ UNCHANGED <<tasks, taken>>
  BY DEF AckReceived, server
<1>2. /\ frame.at \in At /\ scounter.at \in At
      /\ Modulus \in Nat /\ Modulus > 1
  BY CountersAre
<1>3. Carried
  BY AckReceivedCarries
<1>4. acks[1] \in Number /\ Head(acks) = acks[1] /\ 1 \in DOMAIN acks /\ acks[1].at \in At
  <2>1. acks \in Seq(Number)
    BY DEF PeerTypes
  <2>2. Head(acks) = acks[1] /\ acks[1] \in Number /\ 1 \in DOMAIN acks
    BY <1>1, <2>1, TailIs, SMT
  <2> QED BY <2>2, NumberIs
<1>5. Told'
  <2>1. \A i \in DOMAIN acks' : i + 1 \in DOMAIN acks /\ acks'[i] = acks[i + 1]
    <3>1. acks \in Seq(Number)
      BY DEF PeerTypes
    <3>2. /\ DOMAIN acks = 1 .. Len(acks) /\ Len(acks) \in Nat
          /\ DOMAIN acks' = 1 .. Len(acks) - 1
          /\ \A h \in 1 .. Len(acks) - 1 : acks'[h] = acks[h + 1]
      BY <1>1, <3>1, TailIs
    <3> QED BY <3>2, SMT
  <2> QED BY <1>1, <2>1 DEF AckInv, Told
<1>6. CASE ~ Acknowledges(Head(acks))
  <2>1. UNCHANGED <<client, jobs>> /\ faults <= faults'
    BY <1>1, <1>6, CountersAre, SMT DEF client
  <2> QED BY <1>1, <1>3, <1>5, <2>1, CarriedKeeps
<1>7. CASE Acknowledges(Head(acks))
  <2>1. ack # "none" /\ acks[1] = scounter /\ ack' = "set" /\ lock # NoMessage
    BY <1>1, <1>4, <1>7 DEF Acknowledges, AckInv, Locked
  <2>2. Item(1, 1) /\ ItemAt(1, 1) = scounter.at
    BY <1>4, <2>1 DEF Item, ItemAt
  <2>3. Underway(scounter.at)
    BY <2>2, ItemUnderway
  <2>4. scounter.at = frame.at
    <3>1. PICK e \in 0 .. Modulus - 2, d \in 0 .. Modulus - 1 : e < d /\ OldGap(d)
      BY <2>1 DEF AckInv, Spaced
    <3>2. scounter.at = frame.at \/ Shift(scounter.at, d) = scounter.at
      BY <1>2, <2>3, <3>1 DEF OldGap
    <3>3. Shift(scounter.at, 0) = scounter.at /\ 0 \in 0 .. Modulus - 1 /\ d # 0
      BY <1>2, <3>1, ShiftZero, SMT
    <3> QED BY <1>2, <3>2, <3>3, ShiftDiffers
  <2>5. AllNew
    <3> SUFFICES ASSUME NEW x \in At, Underway(x)
                 PROVE  x = frame.at
      BY DEF AllNew
    <3>1. PICK k \in 1 .. 3, i \in Nat : Item(k, i) /\ ItemAt(k, i) = x
      BY DEF Underway, Precedes
    <3>2. k = 1 => i >= 1
      <4>1. acks \in Seq(Number)
        BY DEF PeerTypes
      <4> QED BY <3>1, <4>1, SMT DEF Item
    <3>3. Before(1, 1, k, i)
      BY <3>2, SMT DEF Before
    <3>4. Precedes(frame.at, x)
      <4>1. 1 \in 1 .. 3 /\ 1 \in Nat
        BY SMT
      <4>2. Precedes(ItemAt(1, 1), ItemAt(k, i))
        BY <2>2, <3>1, <3>3, <4>1, Placed
      <4> QED BY <2>2, <2>4, <3>1, <4>2
    <3> QED BY <3>4 DEF AckInv, InTurn
  <2>6. lock \in taken
    BY <1>4, <2>1, <2>4 DEF AckInv, Told
  <2>7. ~ Generating
    BY <2>1, <2>3, <2>4 DEF AckInv, Waits
  <2>8. Locked'
    BY <1>1, <2>1 DEF AckInv, Locked
  <2>9. /\ \A i : Generator(i)' <=> Generator(i)
        /\ \A i : FirstJob(i)' <=> FirstJob(i)
        /\ \A i : Left(i)' = Left(i)
        /\ Generating' <=> Generating
    BY <1>1 DEF Generator, FirstJob, Left, Generating
  <2>10. Executing'
    BY <1>1, <2>9 DEF AckInv, Executing
  <2>11. \A x \in At : Underway(x)' => Underway(x)
    BY <1>3 DEF Carried, Underway
  <2>12. InTurn'
    BY <1>1, <1>2, <1>3 DEF AckInv, InTurn, Carried
  <2>13. AllNew'
    BY <1>1, <2>5, <2>11 DEF AllNew
  <2>14. Spaced'
    <3>1. \A e : Gap(e) => Gap(e)'
      BY <1>1, <2>9 DEF Gap
    <3>2. \A d : OldGap(d) => OldGap(d)'
      BY <1>1, <2>9, <2>11 DEF OldGap
    <3>3. PICK e \in 0 .. Modulus - 2 :
            /\ Gap(e)
            /\ lock # NoMessage => \E d \in 0 .. Modulus - 1 : e < d /\ OldGap(d)
      BY DEF AckInv, Spaced
    <3> QED BY <1>1, <3>1, <3>2, <3>3 DEF Spaced
  <2>15. Waits'
    BY <1>1, <2>1, <2>4, <2>6, <2>7, <2>9, <2>13 DEF Waits
  <2>16. AckIsTrue'
    BY <1>1 DEF AckInv, AckIsTrue
  <2> QED BY <1>5, <2>8, <2>10, <2>12, <2>14, <2>15, <2>16 DEF AckInv
<1> QED BY <1>6, <1>7

LEMMA ServerKeeps ==
  ASSUME PeerTypes, PeerTypes', AckInv,
         FirstFrame \/ NextFrame \/ DisconnectFrame \/ AckSent \/ FirstHandled
  PROVE  AckInv'
<1>1. UNCHANGED <<client, jobs>> /\ UNCHANGED <<lock, frame>>
  BY DEF FirstFrame, NextFrame, DisconnectFrame, AckSent, FirstHandled, Incoming, client
<1>2. faults <= faults' /\ taken \subseteq taken'
  <2>1. CASE AckSent
    <3>1. PICK i \in DOMAIN tasks : Onto(acks, acks', tasks[i].number) /\ UNCHANGED taken
      BY <2>1 DEF AckSent
    <3>2. acks \in Seq(Number) /\ tasks[i] \in TaskRecord /\ faults \in 0 .. MaxFaults
      BY DEF PeerTypes
    <3>3. tasks[i].number \in Number
      BY <3>2 DEF TaskRecord
    <3>4. faults <= faults'
      BY <3>1, <3>2, <3>3, OntoIs
    <3> QED BY <3>1, <3>4
  <2>2. CASE ~ AckSent
    <3>1. UNCHANGED faults /\ taken \subseteq taken'
      BY <2>2 DEF FirstFrame, NextFrame, DisconnectFrame, FirstHandled, Incoming
    <3> QED BY <3>1, CountersAre, SMT
  <2> QED BY <2>1, <2>2
<1>3. /\ bus \in Seq(Frame) /\ acks \in Seq(Number) /\ tasks \in Seq(TaskRecord)
  BY DEF PeerTypes
<1>4. ASSUME Incoming
      PROVE  /\ bus # <<>> /\ bus' = Tail(bus) /\ UNCHANGED acks
             /\ 1 \in DOMAIN bus /\ Head(bus) = bus[1]
             /\ \A i \in DOMAIN bus' : i + 1 \in DOMAIN bus /\ bus'[i] = bus[i + 1]
  <2>1. bus # <<>> /\ bus' = Tail(bus) /\ UNCHANGED acks
    BY <1>4 DEF Incoming
  <2>2. /\ DOMAIN bus = 1 .. Len(bus) /\ Len(bus) \in Nat /\ Len(bus) >= 1
        /\ DOMAIN bus' = 1 .. Len(bus) - 1 /\ Head(bus) = bus[1]
        /\ \A h \in 1 .. Len(bus) - 1 : bus'[h] = bus[h + 1]
    BY <1>3, <2>1, TailIs
  <2>3. 1 \in DOMAIN bus /\ \A i \in DOMAIN bus' : i + 1 \in DOMAIN bus /\ bus'[i] = bus[i + 1]
    BY <2>2, SMT
  <2> QED BY <2>1, <2>2, <2>3
<1>5. CASE FirstFrame
  <2> DEFINE t == [msg |-> Head(bus).msg, number |-> Head(bus).number, acked |-> FALSE, new |-> ~ peer]
  <2>1. /\ Incoming /\ Head(bus).block = 1 /\ tasks' = Append(tasks, t)
        /\ taken' = taken \cup {Head(bus).msg}
    BY <1>5 DEF FirstFrame
  <2>2. t.number = Head(bus).number /\ t \in TaskRecord
    <3>1. bus[1] \in Frame /\ peer \in BOOLEAN
      BY <1>3, <1>4, <2>1 DEF PeerTypes
    <3> QED BY <1>4, <2>1, <3>1 DEF Frame, TaskRecord
  <2> HIDE DEF t
  <2>3. \A i \in DOMAIN tasks' : \/ i \in DOMAIN tasks /\ tasks'[i] = tasks[i]
                                 \/ tasks'[i] = t
    <3>1. /\ DOMAIN tasks = 1 .. Len(tasks) /\ Len(tasks) \in Nat
          /\ DOMAIN tasks' = 1 .. Len(tasks) + 1
          /\ \A h \in 1 .. Len(tasks) : tasks'[h] = tasks[h]
          /\ tasks'[Len(tasks) + 1] = t
      BY <1>3, <2>1, <2>2, AppendIs
    <3> QED BY <3>1, SMT
  <2>4. Told'
    <3> SUFFICES ASSUME lock # NoMessage
                 PROVE  /\ \A i \in DOMAIN acks' : acks'[i].at = frame.at => lock \in taken'
                        /\ \A i \in DOMAIN tasks' : ~ tasks'[i].acked /\ tasks'[i].number.at = frame.at => lock \in taken'
                        /\ \A i \in DOMAIN bus' : bus'[i].block = 1 /\ bus'[i].number.at = frame.at => bus'[i].msg = lock
      BY <1>1 DEF Told
    <3>1. \A i \in DOMAIN acks' : acks'[i].at = frame.at => lock \in taken'
      BY <1>2, <1>4, <2>1 DEF AckInv, Told
    <3>2. \A i \in DOMAIN bus' : bus'[i].block = 1 /\ bus'[i].number.at = frame.at => bus'[i].msg = lock
      BY <1>4, <2>1 DEF AckInv, Told
    <3>3. t.number.at = frame.at => lock \in taken'
      BY <1>4, <2>1, <2>2 DEF AckInv, Told
    <3>4. \A i \in DOMAIN tasks' : ~ tasks'[i].acked /\ tasks'[i].number.at = frame.at => lock \in taken'
      BY <1>2, <2>3, <3>3 DEF AckInv, Told
    <3> QED BY <3>1, <3>2, <3>4
  <2> QED BY <1>1, <1>2, <1>5, <2>4, FirstFrameCarries, CarriedKeeps
<1>6. CASE NextFrame \/ DisconnectFrame
  <2>1. /\ Incoming
        /\ DOMAIN tasks' = DOMAIN tasks
        /\ \A i \in DOMAIN tasks : /\ tasks'[i].acked = tasks[i].acked
                                   /\ tasks'[i].number.at = tasks[i].number.at
    <3>1. CASE NextFrame
      BY <3>1 DEF NextFrame
    <3>2. CASE DisconnectFrame
      <4>1. Incoming /\ tasks' = [i \in DOMAIN tasks |-> [tasks[i] EXCEPT !.number.last = FALSE]]
        BY <3>2 DEF DisconnectFrame
      <4>2. \A i \in DOMAIN tasks : tasks[i] \in TaskRecord
        BY <1>3
      <4> QED BY <4>1, <4>2 DEF TaskRecord, Number
    <3> QED BY <1>6, <3>1, <3>2
  <2>2. Told'
    BY <1>1, <1>2, <1>4, <2>1 DEF AckInv, Told
  <2>3. Carried
    BY <1>4, <2>1, OtherFrameCarries
  <2> QED BY <1>1, <1>2, <2>2, <2>3, CarriedKeeps
<1>7. CASE AckSent
  <2>1. PICK p \in DOMAIN tasks :
          /\ ~ tasks[p].acked
          /\ tasks' = [tasks EXCEPT ![p].acked = TRUE]
          /\ Onto(acks, acks', tasks[p].number) /\ UNCHANGED bus
    BY <1>7 DEF AckSent
  <2>2. tasks[p].number \in Number /\ \A i \in DOMAIN tasks : tasks[i] \in TaskRecord
    <3>1. \A i \in DOMAIN tasks : tasks[i] \in TaskRecord
      BY <1>3
    <3> QED BY <3>1 DEF TaskRecord
  <2>3. \A i \in DOMAIN acks' : \/ i \in DOMAIN acks /\ acks'[i] = acks[i]
                                \/ acks'[i] = tasks[p].number
    <3>1. acks' = acks \/ acks' = Append(acks, tasks[p].number)
      BY <1>3, <2>1, <2>2, OntoIs DEF PeerTypes
    <3>2. /\ Len(acks) \in Nat /\ DOMAIN acks = 1 .. Len(acks)
          /\ DOMAIN Append(acks, tasks[p].number) = 1 .. Len(acks) + 1
          /\ Append(acks, tasks[p].number)[Len(acks) + 1] = tasks[p].number
          /\ \A h \in 1 .. Len(acks) : Append(acks, tasks[p].number)[h] = acks[h]
      BY <1>3, <2>2, AppendIs
    <3>3. CASE acks' = acks
      BY <3>3
    <3>4. CASE acks' = Append(acks, tasks[p].number)
      BY <3>2, <3>4, SMT
    <3> QED BY <3>1, <3>3, <3>4
  <2>4. \A i \in DOMAIN tasks' :
          /\ i \in DOMAIN tasks /\ tasks'[i].number = tasks[i].number
          /\ ~ tasks'[i].acked => ~ tasks[i].acked
    BY <2>1, <2>2, SMT DEF TaskRecord
  <2>5. Told'
    <3>1. lock # NoMessage => \A i \in DOMAIN acks' : acks'[i].at = frame.at => lock \in taken'
      BY <1>2, <2>1, <2>3 DEF AckInv, Told
    <3>2. lock # NoMessage => \A i \in DOMAIN tasks' : ~ tasks'[i].acked /\ tasks'[i].number.at = frame.at => lock \in taken'
      BY <1>2, <2>4 DEF AckInv, Told
    <3>3. lock # NoMessage => \A i \in DOMAIN bus' : bus'[i].block = 1 /\ bus'[i].number.at = frame.at => bus'[i].msg = lock
      BY <2>1 DEF AckInv, Told
    <3> QED BY <1>1, <3>1, <3>2, <3>3 DEF Told
  <2> QED BY <1>1, <1>2, <1>7, <2>5, AckSentCarries, CarriedKeeps
<1>8. CASE FirstHandled
  <2>1. tasks # <<>> /\ tasks' = Tail(tasks) /\ UNCHANGED <<acks, bus>>
    BY <1>8 DEF FirstHandled
  <2>2. \A i \in DOMAIN tasks' : i + 1 \in DOMAIN tasks /\ tasks'[i] = tasks[i + 1]
    <3>1. /\ DOMAIN tasks = 1 .. Len(tasks) /\ Len(tasks) \in Nat
          /\ DOMAIN tasks' = 1 .. Len(tasks) - 1
          /\ \A h \in 1 .. Len(tasks) - 1 : tasks'[h] = tasks[h + 1]
      BY <1>3, <2>1, TailIs
    <3> QED BY <3>1, SMT
  <2>3. Told'
    BY <1>1, <1>2, <2>1, <2>2 DEF AckInv, Told
  <2> QED BY <1>1, <1>2, <1>8, <2>3, FirstHandledCarries, CarriedKeeps
<1> QED BY <1>5, <1>6, <1>7, <1>8

\* The jobs after one is added, and after one is done.
LEMMA JobAdded ==
  ASSUME PeerTypes, NEW j \in Frame, jobs' = Append(jobs, j)
  PROVE  /\ \A i \in Nat : i \in DOMAIN jobs' =>
              \/ i \in DOMAIN jobs /\ jobs'[i] = jobs[i]
              \/ i = Len(jobs) + 1 /\ jobs'[i] = j
         /\ \A i \in Nat : i \in DOMAIN jobs =>
              i \in DOMAIN jobs' /\ jobs'[i] = jobs[i] /\ i < Len(jobs) + 1
         /\ Len(jobs) + 1 \in DOMAIN jobs' /\ jobs'[Len(jobs) + 1] = j
         /\ Len(jobs) + 1 \in Nat
<1>1. jobs \in Seq(Frame)
  BY DEF PeerTypes
<1>2. /\ DOMAIN jobs = 1 .. Len(jobs) /\ Len(jobs) \in Nat
      /\ DOMAIN jobs' = 1 .. Len(jobs) + 1
      /\ \A h \in 1 .. Len(jobs) : jobs'[h] = jobs[h]
      /\ jobs'[Len(jobs) + 1] = j
  BY <1>1, AppendIs
<1> QED BY <1>2, SMT

LEMMA JobDone ==
  ASSUME PeerTypes, jobs # <<>>, jobs' = Tail(jobs)
  PROVE  /\ \A i \in Nat : i \in DOMAIN jobs' => i + 1 \in DOMAIN jobs /\ jobs'[i] = jobs[i + 1]
         /\ \A i \in Nat : i \in DOMAIN jobs /\ i # 1 =>
              i - 1 \in Nat /\ i - 1 \in DOMAIN jobs' /\ jobs'[i - 1] = jobs[i]
<1>1. jobs \in Seq(Frame)
  BY DEF PeerTypes
<1>2. /\ DOMAIN jobs = 1 .. Len(jobs) /\ Len(jobs) \in Nat
      /\ DOMAIN jobs' = 1 .. Len(jobs) - 1
      /\ \A h \in 1 .. Len(jobs) - 1 : jobs'[h] = jobs[h + 1]
  BY <1>1, TailIs
<1>3. \A i \in Nat : i \in DOMAIN jobs' => i + 1 \in DOMAIN jobs /\ jobs'[i] = jobs[i + 1]
  BY <1>2, SMT
<1>4. \A i \in Nat : i \in DOMAIN jobs /\ i # 1 =>
        i - 1 \in Nat /\ i - 1 \in DOMAIN jobs' /\ jobs'[i - 1] = jobs[i]
  <2> SUFFICES ASSUME NEW i \in Nat, i \in DOMAIN jobs, i # 1
               PROVE  i - 1 \in Nat /\ i - 1 \in DOMAIN jobs' /\ jobs'[i - 1] = jobs[i]
    OBVIOUS
  <2>1. i - 1 \in 1 .. Len(jobs) - 1 /\ i - 1 + 1 = i
    BY <1>2, SMT
  <2> QED BY <1>2, <2>1
<1> QED BY <1>3, <1>4

\* The holder's first frame is not with the executor while it waits, and with
\* the lock free there is none.
LEMMA NoFirstJob ==
  ASSUME PeerTypes, AckInv, lock = NoMessage \/ phase[lock] # "sending"
  PROVE  \A i \in Nat : ~ FirstJob(i)
<1> SUFFICES ASSUME NEW i \in Nat, FirstJob(i)
             PROVE  FALSE
  OBVIOUS
<1>1. jobs[i].msg = lock /\ phase[lock] = "sending"
  BY DEF AckInv, Executing
<1>2. jobs[i] \in Frame
  BY DEF FirstJob, PeerTypes
<1>3. lock \in Message
  BY <1>1, <1>2 DEF Frame
<1> QED BY <1>1, <1>3, CanPeerAssumption

LEMMA LeftType ==
  ASSUME PeerTypes, NEW i \in Nat, Generator(i)
  PROVE  /\ Left(i) \in Int /\ jobs[i].block \in Nat /\ jobs[i].msg \in Message
         /\ Left(i) <= Modulus - 2
<1>1. jobs[i] \in Frame
  BY DEF Generator, PeerTypes
<1>2. jobs[i].block \in Nat /\ jobs[i].msg \in Message
  BY <1>1 DEF Frame
<1>3. Blocks[jobs[i].msg] \in 1 .. Modulus - 1 /\ Modulus \in Nat
  BY <1>2, BlocksAre, CanPeerAssumption
<1>4. jobs[i].block > 1
  BY DEF Generator
<1> QED BY <1>2, <1>3, <1>4, SMT DEF Left

\* With nothing on its way changed, what is under way is as before.
LEMMA WireKept ==
  ASSUME UNCHANGED <<bus, acks, server>>
  PROVE  /\ \A x, y : Precedes(x, y)' <=> Precedes(x, y)
         /\ \A x : Underway(x)' <=> Underway(x)
<1>1. UNCHANGED <<bus, acks, tasks>>
  BY DEF server
<1>2. \A x, y : Precedes(x, y)' <=> Precedes(x, y)
  BY <1>1 DEF Precedes, Item, ItemAt, Before
<1> QED BY <1>2 DEF Underway

\* A step of the client that sends and numbers nothing.
LEMMA StillKeeps ==
  ASSUME PeerTypes, AckInv, UNCHANGED <<lock, tries, frame, scounter, ack, faults>>,
         UNCHANGED <<bus, acks, server>>, Locked', Executing', AckIsTrue',
         \A i \in Nat : Generator(i)' => \E h \in Nat : Generator(h) /\ Left(i)' = Left(h)
  PROVE  AckInv'
<1>1. /\ \A x, y : Precedes(x, y)' <=> Precedes(x, y)
      /\ \A x : Underway(x)' <=> Underway(x)
  BY WireKept
<1>2. Generating' => Generating
  BY DEF Generating
<1>3. InTurn'
  BY <1>1 DEF AckInv, InTurn
<1>4. AllNew => AllNew'
  BY <1>1 DEF AllNew
<1>5. \A e : Gap(e) => Gap(e)'
  BY DEF Gap
<1>6. \A d : OldGap(d) => OldGap(d)'
  BY <1>1 DEF OldGap
<1>7. Spaced'
  <2>1. PICK e \in 0 .. Modulus - 2 :
          /\ Gap(e)
          /\ lock # NoMessage => \E d \in 0 .. Modulus - 1 : e < d /\ OldGap(d)
    BY DEF AckInv, Spaced
  <2> QED BY <1>5, <1>6, <2>1 DEF Spaced
<1>8. Waits'
  BY <1>1, <1>2, <1>4 DEF AckInv, Waits, server
<1>9. Told'
  BY DEF AckInv, Told, server
<1> QED BY <1>3, <1>7, <1>8, <1>9 DEF AckInv

LEMMA FirstSentKeeps ==
  ASSUME PeerTypes, AckInv, NEW m \in Message, FirstSent(m)
  PROVE  AckInv'
<1>1. /\ phase[m] = "sending" /\ Executed(m)
      /\ phase' = [phase EXCEPT ![m] = "waiting"]
      /\ UNCHANGED <<lock, tries, frame, scounter, ack, faults>>
      /\ UNCHANGED <<bus, acks, server>> /\ UNCHANGED <<jobs, taken>>
      /\ phase \in [Message -> Phase]
  BY DEF FirstSent, server, PeerTypes
<1>2. m = lock /\ lock # NoMessage
  BY <1>1, CanPeerAssumption DEF AckInv, Locked
<1>3. \A i \in Nat : ~ FirstJob(i)
  <2> SUFFICES ASSUME NEW i \in Nat, FirstJob(i)
               PROVE  FALSE
    OBVIOUS
  <2>1. jobs[i].msg = m /\ jobs[i].block = 1 /\ i \in DOMAIN jobs
    BY <1>2 DEF AckInv, Executing, FirstJob
  <2> QED BY <1>1, <2>1, SMT DEF Executed
<1>4. ~ Generating
  BY <1>2, <1>3 DEF AckInv, Executing
<1>5. \A i \in Nat : ~ FirstJob(i)' /\ ~ Generator(i)'
  BY <1>1, <1>3, <1>4 DEF FirstJob, Generating, Generator
<1>6. Executing'
  BY <1>5 DEF Executing, Generating
<1>7. Locked'
  BY <1>1, <1>2 DEF AckInv, Locked
<1>8. AckIsTrue'
  BY <1>1 DEF AckInv, AckIsTrue
<1> QED BY <1>1, <1>5, <1>6, <1>7, <1>8, StillKeeps

LEMMA RestSentKeeps ==
  ASSUME PeerTypes, AckInv, NEW m \in Message, RestSent(m)
  PROVE  AckInv'
<1>1. /\ phase[m] = "rest" /\ phase' = [phase EXCEPT ![m] = "sent"]
      /\ UNCHANGED <<lock, tries, frame, scounter, ack, faults>>
      /\ UNCHANGED <<bus, acks, server>> /\ UNCHANGED <<jobs, taken>>
      /\ phase \in [Message -> Phase] /\ lock \in Message \cup {NoMessage}
  BY DEF RestSent, server, PeerTypes
<1>2. /\ \A i : Generator(i)' <=> Generator(i)
      /\ \A i : FirstJob(i)' <=> FirstJob(i)
      /\ \A i : Left(i)' = Left(i)
      /\ Generating' <=> Generating
  BY <1>1 DEF Generator, FirstJob, Left, Generating
<1>3. \A i \in Nat : FirstJob(i) => lock # m /\ lock \in Message
  <2> SUFFICES ASSUME NEW i \in Nat, FirstJob(i)
               PROVE  lock # m /\ lock \in Message
    OBVIOUS
  <2>1. phase[lock] = "sending" /\ jobs[i].msg = lock /\ jobs[i] \in Frame
    BY DEF AckInv, Executing, FirstJob, PeerTypes
  <2> QED BY <1>1, <2>1 DEF Frame
<1>4. Executing'
  <2>1. \A i \in Nat : FirstJob(i) => phase'[lock] = "sending"
    BY <1>1, <1>3 DEF AckInv, Executing
  <2> QED BY <1>1, <1>2, <2>1 DEF AckInv, Executing
<1>5. Locked'
  BY <1>1 DEF AckInv, Locked
<1>6. AckIsTrue'
  BY <1>1 DEF AckInv, AckIsTrue
<1> QED BY <1>1, <1>2, <1>4, <1>5, <1>6, StillKeeps

LEMMA DisconnectKeeps ==
  ASSUME PeerTypes, AckInv, Disconnect
  PROVE  AckInv'
<1> DEFINE j == [msg |-> Greeting, block |-> 0, number |-> scounter]
<1>1. /\ jobs' = Append(jobs, j) /\ j \in Frame /\ j.block = 0
      /\ UNCHANGED <<lock, tries, frame, scounter, ack, faults>>
      /\ UNCHANGED <<bus, acks, server>> /\ UNCHANGED <<phase, taken>>
  BY CanPeerAssumption DEF Disconnect, server, PeerTypes, Frame
<1> HIDE DEF j
<1>2. /\ \A i \in Nat : i \in DOMAIN jobs' =>
           \/ i \in DOMAIN jobs /\ jobs'[i] = jobs[i]
           \/ jobs'[i] = j
      /\ \A i \in Nat : i \in DOMAIN jobs => i \in DOMAIN jobs' /\ jobs'[i] = jobs[i]
  BY <1>1, JobAdded
<1>3. /\ \A i \in Nat : Generator(i)' <=> Generator(i)
      /\ \A i \in Nat : FirstJob(i)' <=> FirstJob(i)
      /\ \A i \in Nat : Generator(i) => Left(i)' = Left(i)
      /\ \A i \in Nat : Generator(i) \/ FirstJob(i) => jobs'[i] = jobs[i]
  <2>1. ~ j.block > 1 /\ j.block # 1
    BY <1>1
  <2> QED BY <1>2, <2>1 DEF Generator, FirstJob, Left
<1>4. Generating' <=> Generating
  BY <1>3 DEF Generating
<1>5. Executing'
  BY <1>1, <1>3, <1>4 DEF AckInv, Executing
<1>6. Locked' /\ AckIsTrue'
  BY <1>1 DEF AckInv, Locked, AckIsTrue
<1> QED BY <1>1, <1>3, <1>5, <1>6, StillKeeps

LEMMA AcknowledgedKeeps ==
  ASSUME PeerTypes, AckInv, NEW m \in Message, Acknowledged(m)
  PROVE  AckInv'
<1> DEFINE j == [msg |-> m, block |-> 2, number |-> scounter]
<1>1. /\ phase[m] = "waiting" /\ ack = "set" /\ phase' = [phase EXCEPT ![m] = "rest"]
      /\ lock' = NoMessage /\ ack' = "none"
      /\ UNCHANGED <<tries, frame, scounter, faults, taken>>
      /\ UNCHANGED <<bus, acks, server>>
      /\ phase \in [Message -> Phase]
  BY DEF Acknowledged, server, PeerTypes
<1>2. \/ Blocks[m] = 1 /\ jobs' = jobs
      \/ Blocks[m] # 1 /\ jobs' = Append(jobs, j)
  BY DEF Acknowledged
<1>3. m = lock /\ lock # NoMessage
  BY <1>1, CanPeerAssumption DEF AckInv, Locked
<1>4. \A i \in Nat : ~ FirstJob(i)
  BY <1>1, <1>3, NoFirstJob
<1>5. ~ Generating
  BY <1>3, <1>4 DEF AckInv, Executing
<1>6. AllNew /\ scounter.at = frame.at /\ m \in taken
  BY <1>1, <1>3 DEF AckInv, Waits
<1>7. /\ j \in Frame /\ j.block = 2 /\ j.msg = m
      /\ Blocks[m] \in 1 .. Modulus - 1 /\ Modulus \in Nat /\ Modulus > 1
      /\ frame.at \in At
  <2>1. scounter \in Number /\ 2 \in Nat
    BY DEF PeerTypes
  <2> QED BY <2>1, JobType, BlocksAre, CountersAre
<1> HIDE DEF j
<1>8. \A i \in Nat : i \in DOMAIN jobs' =>
        \/ i \in DOMAIN jobs /\ jobs'[i] = jobs[i]
        \/ Blocks[m] # 1 /\ i = Len(jobs) + 1 /\ jobs'[i] = j
  <2>1. CASE jobs' = jobs
    BY <2>1
  <2>2. CASE Blocks[m] # 1 /\ jobs' = Append(jobs, j)
    BY <1>7, <2>2, JobAdded
  <2> QED BY <1>2, <2>1, <2>2
<1>9. \A i \in Nat : ~ FirstJob(i)'
  <2>1. j.block # 1
    BY <1>7
  <2> QED BY <1>4, <1>8, <2>1 DEF FirstJob
<1>10. \A i \in Nat : Generator(i)' => i = Len(jobs) + 1 /\ jobs'[i] = j /\ Blocks[m] # 1
  BY <1>5, <1>8 DEF Generating, Generator
<1>11. Executing'
  <2>1. \A i \in Nat : Generator(i)' => jobs'[i].block <= Blocks[jobs'[i].msg]
    BY <1>7, <1>10, SMT
  <2>2. \A i, h \in Nat : Generator(i)' /\ Generator(h)' => i = h
    BY <1>10
  <2> QED BY <1>1, <1>9, <2>1, <2>2 DEF Executing
<1>12. /\ \A x, y : Precedes(x, y)' <=> Precedes(x, y)
       /\ \A x : Underway(x)' <=> Underway(x)
  BY <1>1, WireKept
<1>13. InTurn' /\ AllNew'
  BY <1>1, <1>6, <1>12 DEF AckInv, InTurn, AllNew
<1>14. Spaced'
  <2>1. \A i \in Nat : Generator(i)' => 0 + Left(i)' <= Modulus - 2
    <3> SUFFICES ASSUME NEW i \in Nat, Generator(i)'
                 PROVE  0 + Left(i)' <= Modulus - 2
      OBVIOUS
    <3>1. Left(i)' = Blocks[m] - 2 + 1
      BY <1>7, <1>10 DEF Left
    <3> QED BY <1>7, <3>1, SMT
  <2>2. Shift(frame.at, 0) = scounter.at
    BY <1>6, <1>7, ShiftZero
  <2>3. Gap(0)'
    BY <1>1, <2>1, <2>2 DEF Gap
  <2>4. 0 \in 0 .. Modulus - 2
    BY <1>7, SMT
  <2> QED BY <1>1, <2>3, <2>4 DEF Spaced
<1>15. Waits'
  BY <1>1, <1>13 DEF Waits
<1>16. Told'
  BY <1>1 DEF Told
<1>17. AckIsTrue'
  BY <1>1, <1>6 DEF AckInv, AckIsTrue
<1>18. Locked'
  BY <1>1, <1>3 DEF AckInv, Locked
<1> QED BY <1>11, <1>13, <1>14, <1>15, <1>16, <1>17, <1>18 DEF AckInv

\* When nothing is under way, a timeout tells nothing that is not so; and when
\* there were more tries than faults, nothing old is under way.
LEMMA DueNews ==
  ASSUME PeerTypes, AckInv, Due, tries > faults' \/ lock = NoMessage
  PROVE  AllNew
<1>1. CASE Quiet
  <2>1. bus = <<>> /\ acks = <<>> /\ tasks = <<>>
    BY <1>1 DEF Quiet
  <2>2. \A k \in 1 .. 3, i \in Nat : ~ Item(k, i)
    BY <2>1, SMT DEF Item
  <2> QED BY <2>2 DEF AllNew, Underway, Precedes
<1>2. CASE ~ Quiet
  <2>1. faults' = faults + 1
    BY <1>2 DEF Due, Fault
  <2>2. lock = NoMessage \/ tries > faults + 1
    BY <2>1
  <2> QED BY <2>2 DEF AckInv, Waits
<1> QED BY <1>1, <1>2

LEMMA RetryKeeps ==
  ASSUME PeerTypes, PeerTypes', AckInv, NEW m \in Message, Retry(m)
  PROVE  AckInv'
<1> DEFINE j == [msg |-> m, block |-> 1, number |-> frame]
<1>1. /\ phase[m] = "waiting" /\ ack = "pending" /\ phase' = [phase EXCEPT ![m] = "sending"]
      /\ tries' = tries + 1 /\ Due /\ jobs' = Append(jobs, j)
      /\ UNCHANGED <<lock, ack, frame, scounter, taken>>
      /\ UNCHANGED <<bus, acks, server>>
      /\ phase \in [Message -> Phase]
  BY DEF Retry, NextTry, server, PeerTypes
<1>2. m = lock /\ lock # NoMessage
  BY <1>1, CanPeerAssumption DEF AckInv, Locked
<1>3. \A i \in Nat : ~ FirstJob(i)
  BY <1>1, <1>2, NoFirstJob
<1>4. ~ Generating
  BY <1>2, <1>3 DEF AckInv, Executing
<1>5. j \in Frame /\ j.block = 1 /\ j.msg = m /\ j.number = frame
  <2>1. frame \in Number /\ 1 \in Nat
    BY DEF PeerTypes
  <2> QED BY <2>1, JobType
<1> HIDE DEF j
<1>6. /\ \A i \in Nat : i \in DOMAIN jobs' =>
           \/ i \in DOMAIN jobs /\ jobs'[i] = jobs[i]
           \/ jobs'[i] = j
  BY <1>1, <1>5, JobAdded
<1>7. \A i \in Nat : ~ Generator(i)'
  <2>1. ~ j.block > 1
    BY <1>5, SMT
  <2> QED BY <1>4, <1>6, <2>1 DEF Generating, Generator
<1>8. \A i \in Nat : FirstJob(i)' => jobs'[i] = j
  BY <1>3, <1>6 DEF FirstJob
<1>9. Executing'
  BY <1>1, <1>2, <1>5, <1>7, <1>8 DEF Executing, Generating
<1>10. /\ \A x, y : Precedes(x, y)' <=> Precedes(x, y)
       /\ \A x : Underway(x)' <=> Underway(x)
  BY <1>1, WireKept
<1>11. InTurn'
  BY <1>1, <1>10 DEF AckInv, InTurn
<1>12. Spaced'
  <2>1. PICK e \in 0 .. Modulus - 2, d \in 0 .. Modulus - 1 : Gap(e) /\ e < d /\ OldGap(d)
    BY <1>2 DEF AckInv, Spaced
  <2>2. Gap(e)' /\ OldGap(d)'
    BY <1>1, <1>7, <1>10, <2>1 DEF Gap, OldGap
  <2> QED BY <2>1, <2>2 DEF Spaced
<1>13. Waits'
  <2>1. tries' > faults' + 1 => AllNew'
    <3> SUFFICES ASSUME tries' > faults' + 1
                 PROVE  AllNew'
      OBVIOUS
    <3>1. tries \in Nat /\ faults' \in Nat
      BY CountersAre, SMT DEF PeerTypes
    <3>2. tries > faults'
      <4>1. tries + 1 > faults' + 1
        BY <1>1
      <4> QED BY <3>1, <4>1, LaterFaults
    <3>3. AllNew
      BY <1>1, <3>2, DueNews
    <3> QED BY <1>1, <1>10, <3>3 DEF AllNew
  <2> QED BY <1>1, <1>2, <1>7, <2>1 DEF Waits, Generating
<1>14. Told'
  BY <1>1 DEF AckInv, Told, server
<1>15. AckIsTrue'
  BY <1>1 DEF AckInv, AckIsTrue
<1>16. Locked'
  BY <1>1, <1>2 DEF AckInv, Locked
<1> QED BY <1>9, <1>11, <1>12, <1>13, <1>14, <1>15, <1>16 DEF AckInv

LEMMA GiveUpKeeps ==
  ASSUME MaxFaults < Tries, PeerTypes, PeerTypes', AckInv, NEW m \in Message, GiveUp(m)
  PROVE  AckInv'
<1>1. /\ phase[m] = "waiting" /\ ack = "pending" /\ phase' = [phase EXCEPT ![m] = "failed"]
      /\ tries = Tries /\ Due /\ lock' = NoMessage /\ ack' = "none"
      /\ UNCHANGED <<tries, frame, scounter, jobs, taken>>
      /\ UNCHANGED <<bus, acks, server>>
      /\ phase \in [Message -> Phase]
  BY DEF GiveUp, server, PeerTypes
<1>2. m = lock /\ lock # NoMessage
  BY <1>1, CanPeerAssumption DEF AckInv, Locked
<1>3. \A i \in Nat : ~ FirstJob(i)
  BY <1>1, <1>2, NoFirstJob
<1>4. ~ Generating
  BY <1>2, <1>3 DEF AckInv, Executing
<1>5. \A i \in Nat : ~ Generator(i)' /\ ~ FirstJob(i)'
  BY <1>1, <1>3, <1>4 DEF Generating, Generator, FirstJob
<1>6. Executing'
  BY <1>5 DEF Executing, Generating
<1>7. /\ \A x, y : Precedes(x, y)' <=> Precedes(x, y)
      /\ \A x : Underway(x)' <=> Underway(x)
  BY <1>1, WireKept
<1>8. InTurn'
  BY <1>1, <1>7 DEF AckInv, InTurn
<1>9. AllNew'
  <2>1. tries > faults'
    <3>1. faults' \in 0 .. MaxFaults
      BY DEF PeerTypes
    <3> QED BY <1>1, <3>1, CanPeerAssumption, SMT
  <2>2. AllNew
    BY <1>1, <2>1, DueNews
  <2> QED BY <1>1, <1>7, <2>2 DEF AllNew
<1>10. Spaced'
  <2>1. PICK e \in 0 .. Modulus - 2 : Gap(e)
    BY DEF AckInv, Spaced
  <2>2. Gap(e)'
    BY <1>1, <1>5, <2>1 DEF Gap
  <2> QED BY <1>1, <2>2 DEF Spaced
<1>11. Waits'
  BY <1>1, <1>9 DEF Waits
<1>12. Told'
  BY <1>1 DEF Told
<1>13. AckIsTrue'
  BY <1>1 DEF AckInv, AckIsTrue
<1>14. Locked'
  BY <1>1, <1>2 DEF AckInv, Locked
<1> QED BY <1>6, <1>8, <1>10, <1>11, <1>12, <1>13, <1>14 DEF AckInv

LEMMA SendKeeps ==
  ASSUME PeerTypes, AckInv, NEW m \in Message, Send(m)
  PROVE  AckInv'
<1> DEFINE j == [msg |-> m, block |-> 1, number |-> frame']
<1>1. /\ phase[m] = "idle" /\ lock = NoMessage
      /\ phase' = [phase EXCEPT ![m] = "sending"]
      /\ lock' = m /\ tries' = 1 /\ ack' = "pending"
      /\ scounter' = Numbered(IsLast(m, 1)) /\ frame' = scounter'
      /\ jobs' = Append(jobs, j)
      /\ UNCHANGED <<bus, acks, server>> /\ UNCHANGED <<taken, tasks, faults>>
      /\ phase \in [Message -> Phase]
  BY DEF Send, server, PeerTypes
<1>2. m # NoMessage
  BY CanPeerAssumption
<1>3. /\ frame.at \in At /\ scounter.at \in At
      /\ Modulus \in Nat /\ Modulus > 1 /\ faults \in Nat
  BY CountersAre
<1>4. scounter' \in Number /\ scounter'.at = Shift(scounter.at, 1) /\ scounter'.at \in At
  <2>1. IsLast(m, 1) \in BOOLEAN /\ scounter \in Number
    BY IsLastType DEF PeerTypes
  <2>2. scounter' \in Number /\ scounter'.at = Shift(scounter.at, 1)
    BY <1>1, <2>1, NextNumber
  <2> QED BY <2>2, NumberIs
<1>5. PICK e \in 0 .. Modulus - 2 : Gap(e)
  BY DEF AckInv, Spaced
<1>6. e + 1 \in 0 .. Modulus - 1 /\ e \in 0 .. Modulus - 1 /\ 0 \in 0 .. Modulus - 1
      /\ 0 < e + 1 /\ e \in Int /\ 0 \in 0 .. Modulus - 2
  BY <1>3, <1>5, SMT
<1>7. Shift(frame.at, e + 1) = scounter'.at
  <2>1. Shift(frame.at, e) = scounter.at
    BY <1>5 DEF Gap
  <2>2. Shift(Shift(frame.at, e), 1) = Shift(frame.at, e + 1)
    BY <1>3, <1>6, ShiftOnce
  <2> QED BY <1>4, <2>1, <2>2
<1>8. scounter'.at # frame.at
  <2> SUFFICES ASSUME scounter'.at = frame.at
               PROVE  FALSE
    OBVIOUS
  <2>1. Shift(frame.at, 0) = Shift(frame.at, e + 1)
    BY <1>3, <1>7, ShiftZero
  <2>2. 0 = e + 1
    BY <1>3, <1>6, <2>1, ShiftDiffers
  <2> QED BY <1>6, <2>2, SMT
<1>9. AllNew
  BY <1>1 DEF AckInv, Waits
<1>10. ~ Underway(frame'.at)
  BY <1>1, <1>4, <1>8, <1>9 DEF AllNew
<1>11. /\ \A x, y : Precedes(x, y)' <=> Precedes(x, y)
       /\ \A x : Underway(x)' <=> Underway(x)
  BY <1>1, WireKept
<1>12. \A i \in Nat : ~ FirstJob(i)
  BY <1>1, NoFirstJob
<1>13. j \in Frame /\ j.block = 1 /\ j.msg = m /\ j.number = frame' /\ ~ j.block > 1
  <2>1. 1 \in Nat
    OBVIOUS
  <2> QED BY <1>1, <1>4, <2>1, JobType, SMT
<1> HIDE DEF j
<1>14. /\ \A i \in Nat : i \in DOMAIN jobs' =>
            \/ i \in DOMAIN jobs /\ jobs'[i] = jobs[i]
            \/ i = Len(jobs) + 1 /\ jobs'[i] = j
       /\ \A i \in Nat : i \in DOMAIN jobs =>
            i \in DOMAIN jobs' /\ jobs'[i] = jobs[i] /\ i < Len(jobs) + 1
       /\ Len(jobs) + 1 \in DOMAIN jobs' /\ jobs'[Len(jobs) + 1] = j
       /\ Len(jobs) + 1 \in Nat
  BY <1>1, <1>13, JobAdded
<1>15. /\ \A i \in Nat : Generator(i)' =>
            Generator(i) /\ jobs'[i] = jobs[i] /\ Left(i)' = Left(i) /\ i < Len(jobs) + 1
       /\ \A i \in Nat : FirstJob(i)' => i = Len(jobs) + 1 /\ jobs'[i] = j
       /\ \E i \in Nat : FirstJob(i)'
  <2>1. \A i \in Nat : Generator(i)' =>
          Generator(i) /\ jobs'[i] = jobs[i] /\ Left(i)' = Left(i) /\ i < Len(jobs) + 1
    BY <1>13, <1>14 DEF Generator, Left
  <2>2. \A i \in Nat : FirstJob(i)' => i = Len(jobs) + 1 /\ jobs'[i] = j
    BY <1>12, <1>14 DEF FirstJob
  <2>3. \E i \in Nat : FirstJob(i)'
    BY <1>13, <1>14 DEF FirstJob
  <2> QED BY <2>1, <2>2, <2>3
<1>16. Executing'
  <2>1. \A i \in Nat : Generator(i)' => jobs'[i].block <= Blocks[jobs'[i].msg]
    BY <1>15 DEF AckInv, Executing
  <2>2. \A i, h \in Nat : Generator(i)' /\ Generator(h)' => i = h
    BY <1>15 DEF AckInv, Executing
  <2>3. \A i, h \in Nat : Generator(i)' /\ FirstJob(h)' => i < h
    BY <1>15
  <2>4. \A i \in Nat : FirstJob(i)' =>
          jobs'[i].msg = lock' /\ jobs'[i].number = frame' /\ phase'[lock'] = "sending"
    BY <1>1, <1>13, <1>15
  <2> QED BY <1>14, <1>15, <2>1, <2>2, <2>3, <2>4 DEF Executing
<1>17. InTurn'
  <2>1. \A x : ~ Precedes(frame'.at, x)
    BY <1>10, PrecedesUnderway
  <2> QED BY <1>11, <2>1 DEF InTurn
<1>18. Spaced'
  <2>1. Gap(0)'
    <3>1. Shift(frame'.at, 0) = scounter'.at
      BY <1>1, <1>4, ShiftZero
    <3>2. \A i \in Nat : Generator(i)' => 0 + Left(i)' <= Modulus - 2
      <4> SUFFICES ASSUME NEW i \in Nat, Generator(i)'
                   PROVE  0 + Left(i)' <= Modulus - 2
        OBVIOUS
      <4>1. Left(i)' = Left(i) /\ Left(i) \in Int /\ Left(i) <= Modulus - 2
        BY <1>15, LeftType
      <4>2. 0 + Left(i) <= Modulus - 2
        BY <1>3, <4>1, SMT
      <4> QED BY <4>1, <4>2
    <3> QED BY <3>1, <3>2 DEF Gap
  <2>2. OldGap(e + 1)'
    <3>1. \A x \in At : Underway(x)' => x = frame'.at \/ Shift(x, e + 1) = scounter'.at
      BY <1>7, <1>9, <1>11 DEF AllNew
    <3>2. \A i \in Nat : Generator(i)' => e + 1 + Left(i)' <= Modulus - 1
      <4> SUFFICES ASSUME NEW i \in Nat, Generator(i)'
                   PROVE  e + 1 + Left(i)' <= Modulus - 1
        OBVIOUS
      <4>1. Left(i)' = Left(i) /\ Left(i) \in Int /\ e + Left(i) <= Modulus - 2
        BY <1>5, <1>15, LeftType DEF Gap
      <4>2. e + 1 + Left(i) <= Modulus - 1
        BY <1>3, <1>6, <4>1, SMT
      <4> QED BY <4>1, <4>2
    <3> QED BY <3>1, <3>2 DEF OldGap
  <2> QED BY <1>6, <2>1, <2>2 DEF Spaced
<1>19. Waits'
  <2>1. ~ tries' > faults' + 1
    <3>1. ~ 1 > faults + 1
      BY <1>3, SMT
    <3> QED BY <1>1, <3>1
  <2> QED BY <1>1, <1>2, <1>10, <1>11, <2>1 DEF Waits
<1>20. Told'
  <2>1. \A k \in 1 .. 3, i \in Nat : Item(k, i) => ItemAt(k, i) # frame'.at
    BY <1>10, ItemUnderway
  <2>2. \A i \in DOMAIN acks : i \in Nat /\ acks[i].at # frame'.at
    <3>1. acks \in Seq(Number)
      BY DEF PeerTypes
    <3>2. \A i \in DOMAIN acks : i \in Nat /\ Item(1, i) /\ ItemAt(1, i) = acks[i].at
      BY <3>1 DEF Item, ItemAt
    <3> QED BY <2>1, <3>2, SMT
  <2>3. \A i \in DOMAIN tasks : ~ tasks[i].acked => tasks[i].number.at # frame'.at
    <3>1. tasks \in Seq(TaskRecord)
      BY DEF PeerTypes
    <3>2. \A i \in DOMAIN tasks : i \in Nat /\ (~ tasks[i].acked => Item(2, i))
                                  /\ ItemAt(2, i) = tasks[i].number.at
      BY <3>1 DEF Item, ItemAt
    <3> QED BY <2>1, <3>2, SMT
  <2>4. \A i \in DOMAIN bus : bus[i].block = 1 => bus[i].number.at # frame'.at
    <3>1. bus \in Seq(Frame)
      BY DEF PeerTypes
    <3>2. \A i \in DOMAIN bus : i \in Nat /\ (bus[i].block = 1 => Item(3, i))
                                  /\ ItemAt(3, i) = bus[i].number.at
      BY <3>1 DEF Item, ItemAt
    <3> QED BY <2>1, <3>2, SMT
  <2> QED BY <1>1, <2>2, <2>3, <2>4 DEF Told
<1>21. AckIsTrue'
  BY <1>1 DEF AckInv, AckIsTrue
<1>22. Locked'
  BY <1>1, <1>2, CanPeerAssumption DEF AckInv, Locked
<1> QED BY <1>16, <1>17, <1>18, <1>19, <1>20, <1>21, <1>22 DEF AckInv

\* A frame that goes onto the bus brings its acknowledgement last.
LEMMA BusAdds ==
  ASSUME PeerTypes, NEW f \in Frame, bus' = bus \/ bus' = Append(bus, f),
         UNCHANGED <<acks, tasks>>
  PROVE  /\ \A x, y \in At : Precedes(x, y)' =>
              Precedes(x, y) \/ (f.block = 1 /\ y = f.number.at)
         /\ \A i \in DOMAIN bus' : (i \in DOMAIN bus /\ bus'[i] = bus[i]) \/ bus'[i] = f
<1>1. bus \in Seq(Frame)
  BY DEF PeerTypes
<1>2. /\ Len(bus) \in Nat /\ DOMAIN bus = 1 .. Len(bus)
      /\ DOMAIN Append(bus, f) = 1 .. Len(bus) + 1
      /\ Append(bus, f)[Len(bus) + 1] = f
      /\ \A h \in 1 .. Len(bus) : Append(bus, f)[h] = bus[h]
  BY <1>1, AppendIs
<1>3. \A i \in DOMAIN bus' : \/ i \in DOMAIN bus /\ bus'[i] = bus[i] /\ i < Len(bus) + 1
                             \/ bus'[i] = f /\ i = Len(bus) + 1
  <2>1. CASE bus' = bus
    BY <1>2, <2>1, SMT
  <2>2. CASE bus' = Append(bus, f)
    BY <1>2, <2>2, SMT
  <2> QED BY <2>1, <2>2
<1>4. ASSUME NEW k \in 1 .. 3, NEW i \in Nat, Item(k, i)'
      PROVE  \/ Item(k, i) /\ ItemAt(k, i) = ItemAt(k, i)' /\ (k = 3 => i < Len(bus) + 1)
             \/ k = 3 /\ i = Len(bus) + 1 /\ f.block = 1 /\ ItemAt(k, i)' = f.number.at
  <2>1. CASE k = 3
    <3>1. i \in DOMAIN bus' /\ bus'[i].block = 1
      BY <1>4, <2>1 DEF Item
    <3>2. CASE i \in DOMAIN bus /\ bus'[i] = bus[i] /\ i < Len(bus) + 1
      BY <2>1, <3>1, <3>2 DEF Item, ItemAt
    <3>3. CASE bus'[i] = f /\ i = Len(bus) + 1
      BY <2>1, <3>1, <3>3 DEF ItemAt
    <3> QED BY <1>3, <3>1, <3>2, <3>3
  <2>2. CASE k # 3
    BY <1>4, <2>2 DEF Item, ItemAt
  <2> QED BY <2>1, <2>2
<1>5. ASSUME NEW x \in At, NEW y \in At, Precedes(x, y)'
      PROVE  Precedes(x, y) \/ (f.block = 1 /\ y = f.number.at)
  <2>1. PICK k \in 1 .. 3, l \in 1 .. 3, i \in Nat, j \in Nat :
          /\ Item(k, i)' /\ Item(l, j)' /\ Before(k, i, l, j)
          /\ ItemAt(k, i)' = x /\ ItemAt(l, j)' = y
    BY <1>5 DEF Precedes, Before
  <2>2. CASE Item(l, j) /\ ItemAt(l, j) = ItemAt(l, j)' /\ (l = 3 => j < Len(bus) + 1)
    <3>1. ~ (k = 3 /\ i = Len(bus) + 1)
      <4>1. Before(k, i, l, j)
        BY <2>1
      <4> QED BY <1>2, <2>2, <4>1, SMT DEF Before
    <3>2. Item(k, i) /\ ItemAt(k, i) = x
      BY <1>4, <2>1, <3>1
    <3> QED BY <2>1, <2>2, <3>2, Placed
  <2>3. CASE f.block = 1 /\ ItemAt(l, j)' = f.number.at
    BY <2>1, <2>3
  <2> QED BY <1>4, <2>1, <2>2, <2>3
<1> QED BY <1>3, <1>5

\* The executor sends a first frame, or a disconnect frame.
LEMMA JobSentKeeps ==
  ASSUME PeerTypes, PeerTypes', AckInv, Transmit, Head(jobs).block <= 1
  PROVE  AckInv'
<1> DEFINE j == Head(jobs)
<1>1. /\ jobs # <<>> /\ jobs' = Tail(jobs) /\ Onto(bus, bus', j)
      /\ UNCHANGED <<scounter, phase, lock, tries, frame, ack, open, full, order, crossed, acks, server>>
      /\ UNCHANGED <<tasks, taken>>
  BY DEF Transmit, server
<1>2. /\ j = jobs[1] /\ j \in Frame /\ 1 \in DOMAIN jobs /\ j.block \in Nat
      /\ j.number \in Number /\ j.number.at \in At
  <2>1. jobs \in Seq(Frame)
    BY DEF PeerTypes
  <2>2. j = jobs[1] /\ j \in Frame /\ 1 \in DOMAIN jobs
    BY <1>1, <2>1, TailIs, SMT
  <2>3. j.block \in Nat /\ j.number \in Number
    BY <2>2 DEF Frame
  <2> QED BY <2>2, <2>3, NumberIs
<1>3. /\ faults <= faults' /\ (bus' = bus \/ bus' = Append(bus, j))
  <2>1. bus \in Seq(Frame) /\ faults \in 0 .. MaxFaults
    BY DEF PeerTypes
  <2> QED BY <1>1, <1>2, <2>1, OntoIs
<1> HIDE DEF j
<1>4. j.block = 1 => /\ FirstJob(1) /\ j.number = frame /\ j.msg = lock /\ lock # NoMessage
                     /\ ~ Generating
  <2> SUFFICES ASSUME j.block = 1
               PROVE  /\ FirstJob(1) /\ j.number = frame /\ j.msg = lock /\ lock # NoMessage
                      /\ ~ Generating
    OBVIOUS
  <2>1. FirstJob(1) /\ 1 \in Nat
    BY <1>2 DEF FirstJob
  <2>2. j.number = frame /\ j.msg = lock
    BY <1>2, <2>1 DEF AckInv, Executing
  <2>3. lock # NoMessage
    BY <1>2, <2>2, CanPeerAssumption DEF Frame
  <2>4. ASSUME NEW i \in Nat, Generator(i)
        PROVE  FALSE
    <3>1. i < 1
      BY <2>1, <2>4 DEF AckInv, Executing
    <3>2. i >= 1
      <4>1. jobs \in Seq(Frame)
        BY DEF PeerTypes
      <4> QED BY <2>4, <4>1, SMT DEF Generator
    <3> QED BY <3>1, <3>2, SMT
  <2> QED BY <2>1, <2>2, <2>3, <2>4 DEF Generating
<1>5. /\ \A x, y \in At : Precedes(x, y)' =>
           Precedes(x, y) \/ (j.block = 1 /\ y = frame.at)
      /\ \A i \in DOMAIN bus' : (i \in DOMAIN bus /\ bus'[i] = bus[i]) \/ bus'[i] = j
  <2>1. /\ \A x, y \in At : Precedes(x, y)' =>
             Precedes(x, y) \/ (j.block = 1 /\ y = j.number.at)
        /\ \A i \in DOMAIN bus' : (i \in DOMAIN bus /\ bus'[i] = bus[i]) \/ bus'[i] = j
    BY <1>1, <1>2, <1>3, BusAdds
  <2> QED BY <1>4, <2>1
<1>6. \A x \in At : Underway(x)' => Underway(x) \/ (j.block = 1 /\ x = frame.at)
  BY <1>5 DEF Underway
<1>7. frame.at \in At /\ scounter.at \in At /\ faults \in Nat /\ tries \in Nat
  BY CountersAre
<1>8. /\ \A i \in Nat : i \in DOMAIN jobs' => i + 1 \in DOMAIN jobs /\ jobs'[i] = jobs[i + 1]
      /\ \A i \in Nat : i \in DOMAIN jobs /\ i # 1 =>
           i - 1 \in Nat /\ i - 1 \in DOMAIN jobs' /\ jobs'[i - 1] = jobs[i]
  BY <1>1, JobDone
<1>9. /\ \A i \in Nat : Generator(i)' =>
           Generator(i + 1) /\ jobs'[i] = jobs[i + 1] /\ Left(i)' = Left(i + 1)
      /\ \A i \in Nat : FirstJob(i)' => FirstJob(i + 1) /\ jobs'[i] = jobs[i + 1]
      /\ \A i \in Nat : i + 1 \in Nat
      /\ Generating' => Generating
  <2>1. \A i \in Nat : Generator(i)' =>
          Generator(i + 1) /\ jobs'[i] = jobs[i + 1] /\ Left(i)' = Left(i + 1)
    BY <1>8 DEF Generator, Left
  <2>2. \A i \in Nat : i + 1 \in Nat
    BY SMT
  <2>3. \A i \in Nat : FirstJob(i)' => FirstJob(i + 1) /\ jobs'[i] = jobs[i + 1]
    BY <1>8 DEF FirstJob
  <2>4. Generating' => Generating
    BY <2>1, <2>2 DEF Generating
  <2> QED BY <2>1, <2>2, <2>3, <2>4
<1>10. Executing'
  <2>1. \A i \in Nat : Generator(i)' => jobs'[i].block <= Blocks[jobs'[i].msg]
    BY <1>9 DEF AckInv, Executing
  <2>2. ASSUME NEW i \in Nat, NEW h \in Nat, Generator(i)', Generator(h)'
        PROVE  i = h
    <3>1. i + 1 = h + 1
      BY <1>9, <2>2 DEF AckInv, Executing
    <3> QED BY <3>1, SMT
  <2>3. ASSUME NEW i \in Nat, NEW h \in Nat, Generator(i)', FirstJob(h)'
        PROVE  i < h
    <3>1. i + 1 < h + 1
      BY <1>9, <2>3 DEF AckInv, Executing
    <3> QED BY <3>1, SMT
  <2>4. \A i \in Nat : FirstJob(i)' =>
          jobs'[i].msg = lock' /\ jobs'[i].number = frame' /\ phase'[lock'] = "sending"
    <3> SUFFICES ASSUME NEW i \in Nat, FirstJob(i)'
                 PROVE  jobs'[i].msg = lock /\ jobs'[i].number = frame /\ phase[lock] = "sending"
      BY <1>1
    <3>1. FirstJob(i + 1) /\ i + 1 \in Nat /\ jobs'[i] = jobs[i + 1]
      BY <1>9
    <3> QED BY <3>1 DEF AckInv, Executing
  <2>5. ASSUME lock # NoMessage, Generating'
        PROVE  \E i \in Nat : FirstJob(i)'
    <3>1. PICK i \in Nat : FirstJob(i)
      BY <1>9, <2>5 DEF AckInv, Executing
    <3>2. j.block # 1
      BY <1>4, <1>9, <2>5
    <3>3. i # 1 /\ i \in DOMAIN jobs /\ jobs[i].block = 1
      BY <1>2, <3>1, <3>2 DEF FirstJob
    <3>4. i - 1 \in Nat /\ FirstJob(i - 1)'
      <4>1. i - 1 \in Nat /\ i - 1 \in DOMAIN jobs' /\ jobs'[i - 1] = jobs[i]
        BY <1>8, <3>3
      <4> QED BY <3>3, <4>1 DEF FirstJob
    <3> QED BY <3>4
  <2> QED BY <1>1, <2>1, <2>2, <2>3, <2>4, <2>5 DEF Executing
<1>11. InTurn'
  BY <1>1, <1>5, <1>7 DEF AckInv, InTurn
<1>12. AllNew => AllNew'
  BY <1>1, <1>6 DEF AllNew
<1>13. Spaced'
  <2>1. PICK e \in 0 .. Modulus - 2 :
          /\ Gap(e)
          /\ lock # NoMessage => \E d \in 0 .. Modulus - 1 : e < d /\ OldGap(d)
    BY DEF AckInv, Spaced
  <2>2. Gap(e)'
    BY <1>1, <1>9, <2>1 DEF Gap
  <2>3. \A d : OldGap(d) => OldGap(d)'
    BY <1>1, <1>6, <1>9 DEF OldGap
  <2> QED BY <1>1, <2>1, <2>2, <2>3 DEF Spaced
<1>14. Waits'
  <2>1. faults' \in Nat
    BY SMT DEF PeerTypes
  <2>2. tries > faults + 1 \/ ~ tries > faults' + 1
    BY <1>3, <1>7, <2>1, LaterFaults
  <2>3. Generating' => j.block # 1
    BY <1>4, <1>9
  <2> QED BY <1>1, <1>6, <1>7, <1>9, <1>12, <2>2, <2>3 DEF AckInv, Waits
<1>15. Told'
  BY <1>1, <1>4, <1>5 DEF AckInv, Told
<1>16. AckIsTrue' /\ Locked'
  BY <1>1 DEF AckInv, AckIsTrue, Locked
<1> QED BY <1>10, <1>11, <1>13, <1>14, <1>15, <1>16 DEF AckInv

\* The executor sends the next frame of a generator, and numbers it.
LEMMA NextSentKeeps ==
  ASSUME PeerTypes, PeerTypes', AckInv, Transmit, ~ Head(jobs).block <= 1
  PROVE  AckInv'
<1> DEFINE j == Head(jobs)
           n == Numbered(IsLast(j.msg, j.block))
           f == [j EXCEPT !.number = n]
           more == [jobs EXCEPT ![1].block = @ + 1]
<1>1. /\ jobs # <<>> /\ Onto(bus, bus', f) /\ scounter' = n
      /\ jobs' = IF j.block = Blocks[j.msg] THEN Tail(jobs) ELSE more
      /\ UNCHANGED <<phase, lock, tries, frame, ack, open, full, order, crossed, acks, server>>
      /\ UNCHANGED <<tasks, taken>>
  BY DEF Transmit, server
<1>2. /\ j = jobs[1] /\ j \in Frame /\ 1 \in DOMAIN jobs /\ jobs \in Seq(Frame)
      /\ j.block \in Nat /\ j.msg \in Message /\ 1 \in Nat /\ Generator(1)
      /\ Generating
  <2>1. jobs \in Seq(Frame)
    BY DEF PeerTypes
  <2>2. j = jobs[1] /\ j \in Frame /\ 1 \in DOMAIN jobs
    BY <1>1, <2>1, TailIs, SMT
  <2>3. j.block \in Nat /\ j.msg \in Message
    BY <2>2 DEF Frame
  <2>4. 1 \in Nat
    OBVIOUS
  <2>5. j.block > 1
    BY <2>3, SMT
  <2>6. Generator(1)
    BY <2>2, <2>5 DEF Generator
  <2> QED BY <2>1, <2>2, <2>3, <2>4, <2>6 DEF Generating
<1>3. n \in Number /\ n.at = Shift(scounter.at, 1)
  BY <1>2, IsLastType, NextNumber DEF PeerTypes
<1>4. f \in Frame /\ f.block = j.block /\ f.block # 1
  <2>1. f \in Frame /\ f.block = j.block
    BY <1>2, <1>3 DEF Frame
  <2> QED BY <1>2, <2>1, SMT DEF Generator
<1> HIDE DEF j, n, f
<1>5. faults <= faults' /\ (bus' = bus \/ bus' = Append(bus, f))
  <2>1. bus \in Seq(Frame) /\ faults \in 0 .. MaxFaults
    BY DEF PeerTypes
  <2> QED BY <1>1, <1>4, <2>1, OntoIs
<1>6. /\ \A x, y \in At : Precedes(x, y)' => Precedes(x, y)
      /\ \A i \in DOMAIN bus' : (i \in DOMAIN bus /\ bus'[i] = bus[i]) \/ bus'[i] = f
  <2>1. /\ \A x, y \in At : Precedes(x, y)' =>
             Precedes(x, y) \/ (f.block = 1 /\ y = f.number.at)
        /\ \A i \in DOMAIN bus' : (i \in DOMAIN bus /\ bus'[i] = bus[i]) \/ bus'[i] = f
    BY <1>1, <1>4, <1>5, BusAdds
  <2> QED BY <1>4, <2>1
<1>7. \A x \in At : Underway(x)' => Underway(x)
  BY <1>6 DEF Underway
<1>8. /\ frame.at \in At /\ scounter.at \in At /\ Modulus \in Nat /\ Modulus > 1
      /\ faults \in Nat /\ tries \in Nat
  BY CountersAre
<1>9. \A i \in Nat : Generator(i) => i = 1
  BY <1>2 DEF AckInv, Executing
<1>10. j.block <= Blocks[j.msg] /\ Left(1) \in Int /\ Left(1) >= 1
       /\ Left(1) = Blocks[j.msg] - j.block + 1 /\ Blocks[j.msg] \in Nat
  <2>1. j.block <= Blocks[j.msg] /\ Blocks[j.msg] \in Nat
    BY <1>2, BlocksAre DEF AckInv, Executing
  <2>2. Left(1) = Blocks[j.msg] - j.block + 1
    BY <1>2 DEF Left
  <2> QED BY <1>2, <2>1, <2>2, SMT
\* The generator that is left, and the first frames behind it.
<1> DEFINE Behind ==
      /\ \A i \in Nat : Generator(i)' => /\ i = 1 /\ Left(1)' = Left(1) - 1
                                         /\ jobs'[1].block <= Blocks[jobs'[1].msg]
      /\ \A i \in Nat : FirstJob(i)' =>
           jobs'[i].msg = lock /\ jobs'[i].number = frame /\ phase[lock] = "sending"
      /\ \A i, h \in Nat : Generator(i)' /\ FirstJob(h)' => i < h
      /\ Generating' /\ (\E i \in Nat : FirstJob(i)) => \E i \in Nat : FirstJob(i)'
<1>11. ASSUME j.block = Blocks[j.msg] PROVE Behind
  <2>1. jobs' = Tail(jobs)
    BY <1>1, <1>11
  <2>2. ASSUME NEW i \in Nat, i \in DOMAIN jobs'
        PROVE  i + 1 \in DOMAIN jobs /\ jobs'[i] = jobs[i + 1] /\ i + 1 \in Nat /\ i >= 1
    <3>1. i + 1 \in DOMAIN jobs /\ jobs'[i] = jobs[i + 1]
      BY <1>1, <2>1, <2>2, JobDone
    <3>2. jobs' \in Seq(Frame)
      BY DEF PeerTypes
    <3>3. i >= 1
      BY <2>2, <3>2, SMT
    <3> QED BY <3>1, <3>3, SMT
  <2>3. \A i \in Nat : ~ Generator(i)'
    <3> SUFFICES ASSUME NEW i \in Nat, Generator(i)'
                 PROVE  FALSE
      OBVIOUS
    <3>1. Generator(i + 1) /\ i + 1 \in Nat /\ i >= 1
      BY <2>2 DEF Generator
    <3>2. i + 1 = 1
      BY <1>9, <3>1
    <3> QED BY <3>1, <3>2, SMT
  <2>4. ASSUME NEW i \in Nat, FirstJob(i)'
        PROVE  jobs'[i].msg = lock /\ jobs'[i].number = frame /\ phase[lock] = "sending"
    <3>1. FirstJob(i + 1) /\ i + 1 \in Nat /\ jobs'[i] = jobs[i + 1]
      BY <2>2, <2>4 DEF FirstJob
    <3> QED BY <3>1 DEF AckInv, Executing
  <2>5. ~ Generating'
    BY <2>3 DEF Generating
  <2>6. Behind
    BY <2>3, <2>4, <2>5
  <2> QED BY <2>6
<1>12. ASSUME j.block # Blocks[j.msg] PROVE Behind
  <2>1. jobs' = more
    BY <1>1, <1>12
  <2>2. /\ DOMAIN jobs' = DOMAIN jobs
        /\ jobs'[1] = [j EXCEPT !.block = @ + 1]
        /\ \A i \in DOMAIN jobs : i # 1 => jobs'[i] = jobs[i]
    BY <1>1, <1>2, <2>1, OneMore
  <2>3. jobs'[1].block = j.block + 1 /\ jobs'[1].msg = j.msg
    BY <1>2, <2>2 DEF Frame
  <2>4. jobs[1].block # 1 /\ jobs'[1].block # 1
    BY <1>2, <2>3, SMT DEF Generator
  <2>5. ASSUME NEW i \in Nat, Generator(i)'
        PROVE  /\ i = 1 /\ Left(1)' = Left(1) - 1
               /\ jobs'[1].block <= Blocks[jobs'[1].msg]
    <3>1. i = 1
      BY <1>9, <2>2, <2>5 DEF Generator
    <3>2. Left(1)' = Blocks[j.msg] - (j.block + 1) + 1
      BY <2>3 DEF Left
    <3>3. Left(1)' = Left(1) - 1
      BY <1>2, <1>10, <3>2, SMT
    <3>4. jobs'[1].block <= Blocks[jobs'[1].msg]
      BY <1>2, <1>10, <1>12, <2>3, SMT
    <3> QED BY <3>1, <3>3, <3>4
  <2>6. \A i \in Nat : FirstJob(i)' <=> FirstJob(i)
    BY <2>2, <2>4 DEF FirstJob
  <2>7. \A i \in Nat : FirstJob(i) => jobs'[i] = jobs[i] /\ 1 < i
    BY <1>2, <2>2, <2>4 DEF FirstJob, AckInv, Executing
  <2>8. Behind
    <3>1. \A i \in Nat : FirstJob(i)' =>
            jobs'[i].msg = lock /\ jobs'[i].number = frame /\ phase[lock] = "sending"
      BY <2>6, <2>7 DEF AckInv, Executing
    <3>2. \A i, h \in Nat : Generator(i)' /\ FirstJob(h)' => i < h
      BY <2>5, <2>6, <2>7
    <3> QED BY <2>5, <2>6, <3>1, <3>2
  <2> QED BY <2>8
<1>13. Behind
  BY <1>11, <1>12
<1>14. Executing'
  <2>1. Generating' /\ lock # NoMessage => \E i \in Nat : FirstJob(i)'
    BY <1>2, <1>13 DEF AckInv, Executing
  <2>2. \A i, h \in Nat : Generator(i)' /\ Generator(h)' => i = h
    BY <1>13
  <2>3. \A i \in Nat : Generator(i)' => jobs'[i].block <= Blocks[jobs'[i].msg]
    BY <1>13
  <2> QED BY <1>1, <1>13, <2>1, <2>2, <2>3 DEF Executing
<1>15. InTurn'
  BY <1>1, <1>6, <1>8 DEF AckInv, InTurn
<1>16. AllNew => AllNew'
  BY <1>1, <1>7 DEF AllNew
<1>17. Spaced'
  <2>1. PICK e \in 0 .. Modulus - 2 :
          /\ Gap(e)
          /\ lock # NoMessage => \E d \in 0 .. Modulus - 1 : e < d /\ OldGap(d)
    BY DEF AckInv, Spaced
  <2>2. e + Left(1) <= Modulus - 2
    BY <1>2, <2>1 DEF Gap
  <2>3. e + 1 \in 0 .. Modulus - 2 /\ e \in 0 .. Modulus - 1
    BY <1>8, <1>10, <2>1, <2>2, SMT
  <2>4. Gap(e + 1)'
    <3>1. Shift(frame.at, e) = scounter.at
      BY <2>1 DEF Gap
    <3>2. Shift(frame.at, e + 1) = scounter'.at
      BY <1>1, <1>3, <1>8, <2>3, <3>1, ShiftOnce
    <3>3. \A i \in Nat : Generator(i)' => e + 1 + Left(i)' <= Modulus - 2
      <4> SUFFICES ASSUME NEW i \in Nat, Generator(i)'
                   PROVE  e + 1 + Left(i)' <= Modulus - 2
        OBVIOUS
      <4>1. Left(i)' = Left(1) - 1
        BY <1>13
      <4>2. e + 1 + (Left(1) - 1) <= Modulus - 2
        BY <1>8, <1>10, <2>1, <2>2, SMT
      <4> QED BY <4>1, <4>2
    <3> QED BY <1>1, <3>2, <3>3 DEF Gap
  <2>5. ASSUME NEW d \in 0 .. Modulus - 1, e < d, OldGap(d)
        PROVE  d + 1 \in 0 .. Modulus - 1 /\ e + 1 < d + 1 /\ OldGap(d + 1)'
    <3>1. d + Left(1) <= Modulus - 1
      BY <1>2, <2>5 DEF OldGap
    <3>2. d + 1 \in 0 .. Modulus - 1 /\ e + 1 < d + 1
      BY <1>8, <1>10, <2>1, <2>5, <3>1, SMT
    <3>3. \A x \in At : Underway(x)' => x = frame'.at \/ Shift(x, d + 1) = scounter'.at
      <4> SUFFICES ASSUME NEW x \in At, Underway(x)', x # frame.at
                   PROVE  Shift(x, d + 1) = scounter'.at
        BY <1>1
      <4>1. Shift(x, d) = scounter.at
        BY <1>7, <2>5 DEF OldGap
      <4>2. Shift(Shift(x, d), 1) = Shift(x, d + 1)
        BY <2>5, ShiftOnce
      <4> QED BY <1>1, <1>3, <4>1, <4>2
    <3>4. \A i \in Nat : Generator(i)' => d + 1 + Left(i)' <= Modulus - 1
      <4> SUFFICES ASSUME NEW i \in Nat, Generator(i)'
                   PROVE  d + 1 + Left(i)' <= Modulus - 1
        OBVIOUS
      <4>1. Left(i)' = Left(1) - 1
        BY <1>13
      <4>2. d + 1 + (Left(1) - 1) <= Modulus - 1
        BY <1>8, <1>10, <2>5, <3>1, SMT
      <4> QED BY <4>1, <4>2
    <3> QED BY <3>2, <3>3, <3>4 DEF OldGap
  <2> QED BY <1>1, <2>1, <2>3, <2>4, <2>5 DEF Spaced
<1>18. Waits'
  <2>1. ack # "set"
    BY <1>2 DEF AckInv, Waits, Locked
  <2>2. tries > faults + 1 \/ ~ tries > faults' + 1
    <3>1. faults' \in Nat
      BY SMT DEF PeerTypes
    <3> QED BY <1>5, <1>8, <3>1, LaterFaults
  <2> QED BY <1>1, <1>2, <1>7, <1>8, <1>16, <2>1, <2>2 DEF AckInv, Waits
<1>19. Told'
  BY <1>1, <1>4, <1>6 DEF AckInv, Told
<1>20. AckIsTrue' /\ Locked'
  BY <1>1 DEF AckInv, AckIsTrue, Locked
<1> QED BY <1>14, <1>15, <1>17, <1>18, <1>19, <1>20 DEF AckInv

LEMMA AckInvNext ==
  ASSUME MaxFaults < Tries, PeerTypes, PeerTypes', AckInv, [Next]_vars
  PROVE  AckInv'
<1>1. CASE UNCHANGED vars
  <2>1. UNCHANGED <<client, server>> /\ UNCHANGED <<jobs, bus, acks, tasks, taken, faults>>
    BY <1>1 DEF vars, server
  <2>2. Carried
    BY <2>1, StutterCarries
  <2>3. Told'
    BY <2>1 DEF AckInv, Told, client
  <2>4. faults <= faults'
    BY <2>1, CountersAre, SMT
  <2> QED BY <2>1, <2>2, <2>3, <2>4, CarriedKeeps
<1>2. CASE Next
  <2>1. ASSUME NEW m \in Message, Client(m)
        PROVE  AckInv'
    BY <2>1, SendKeeps, FirstSentKeeps, AcknowledgedKeeps, RestSentKeeps, RetryKeeps,
       GiveUpKeeps DEF Client
  <2> QED BY <1>2, <2>1, JobSentKeeps, NextSentKeeps, AckReceivedKeeps, DisconnectKeeps,
             ServerKeeps DEF Next
<1> QED BY <1>1, <1>2

\* Of CanPeer every reachable state is of its type.
THEOREM TypeCorrect == Spec => []PeerTypes
<1> QED BY TypeInit, TypeNext, PTL DEF Spec

\* While fewer frames are lost and timeouts come too early than a first frame is
\* sent at most, a send goes on to the other blocks of its message only when the
\* server took its first frame: an acknowledgement that comes late, of an
\* earlier frame of any message, never has the number that is waited for,
\* although numbers come again (Peer.send, _receive_frame).
THEOREM AckIsTrueHolds ==
  ASSUME MaxFaults < Tries
  PROVE  Spec => []AckIsTrue
<1>1. Init => PeerTypes /\ AckInv
  BY TypeInit, AckInvInit
<1>2. (PeerTypes /\ AckInv) /\ [Next]_vars => (PeerTypes /\ AckInv)'
  BY TypeNext, AckInvNext
<1>3. PeerTypes /\ AckInv => AckIsTrue
  BY DEF AckInv
<1> QED BY <1>1, <1>2, <1>3, PTL DEF Spec

-----------------------------------------------------------------------------
(* What is under way to the queue of the server's peer *)

\* The frames on the bus, from the first one on, and before them, at place 0,
\* the message that is being gathered, which counts as its latest frame.
Held(i) == IF i = 0 THEN rdata # <<>> ELSE i \in DOMAIN bus /\ bus[i].block > 0
MsgAt(i) == IF i = 0 THEN rdata[1][1] ELSE bus[i].msg
BlockAt(i) == IF i = 0 THEN Len(rdata) ELSE bus[i].block
CountAt(i) == IF i = 0 THEN rcounter.at ELSE bus[i].number.at

\* At i there is block b, of counter x, of the message numbered as the k-th.
Piece(i, k, b, x) ==
  Held(i) /\ MsgAt(i) = order[k] /\ BlockAt(i) = b /\ CountAt(i) = x
Flow(k, b, x) == \E i \in Nat : Piece(i, k, b, x)
Ahead(k, b, x, l, c, y) ==
  \E i, j \in Nat : i < j /\ Piece(i, k, b, x) /\ Piece(j, l, c, y)

\* The steps that bring no new piece and keep the order of those there are.
Drifts ==
  \A k, l \in DOMAIN order, b, c \in Nat, x, y \in At :
    /\ Flow(k, b, x)' => Flow(k, b, x)
    /\ Ahead(k, b, x, l, c, y)' => Ahead(k, b, x, l, c, y)

LEMMA MovesDrift ==
  ASSUME NEW g \in [Nat -> Nat], UNCHANGED order,
         \A i, j \in Nat : i < j /\ Held(i)' /\ Held(j)' => g[i] < g[j],
         \A i \in Nat : Held(i)' => /\ Held(g[i]) /\ MsgAt(i)' = MsgAt(g[i])
                                    /\ BlockAt(i)' = BlockAt(g[i])
                                    /\ CountAt(i)' = CountAt(g[i])
  PROVE  Drifts
<1>1. ASSUME NEW i \in Nat, NEW k, NEW b, NEW x, Piece(i, k, b, x)'
      PROVE  Piece(g[i], k, b, x)
  <2>1. Held(i)' /\ MsgAt(i)' = order[k] /\ BlockAt(i)' = b /\ CountAt(i)' = x
    BY <1>1 DEF Piece
  <2> QED BY <2>1 DEF Piece
<1>2. \A i \in Nat : g[i] \in Nat
  OBVIOUS
<1>3. \A k, b, x : Flow(k, b, x)' => Flow(k, b, x)
  BY <1>1, <1>2 DEF Flow
<1>4. ASSUME NEW k, NEW l, NEW b, NEW c, NEW x, NEW y, Ahead(k, b, x, l, c, y)'
      PROVE  Ahead(k, b, x, l, c, y)
  <2>1. PICK i \in Nat, j \in Nat : i < j /\ Piece(i, k, b, x)' /\ Piece(j, l, c, y)'
    BY <1>4 DEF Ahead
  <2>2. Held(i)' /\ Held(j)'
    BY <2>1 DEF Piece
  <2>3. g[i] < g[j]
    BY <2>1, <2>2
  <2>4. Piece(g[i], k, b, x) /\ Piece(g[j], l, c, y)
    BY <1>1, <2>1
  <2> QED BY <1>2, <2>3, <2>4 DEF Ahead
<1> QED BY <1>3, <1>4 DEF Drifts

-----------------------------------------------------------------------------
(* Why messages are received whole and in order *)

\* The place in order of the message whose frames after the first are on their
\* way: the last one, or the one before it while the last one has the lock.
Home == IF lock = NoMessage THEN Len(order) ELSE Len(order) - 1

Ordered ==
  /\ \A i, j \in DOMAIN order : order[i] = order[j] => i = j
  /\ \A m \in Message : phase[m] = "idle" <=> \A i \in DOMAIN order : order[i] # m
  /\ lock # NoMessage => Len(order) \in DOMAIN order /\ lock = order[Len(order)]
  /\ \A m \in taken : phase[m] # "idle"

Framed ==
  /\ \A i \in DOMAIN bus : bus[i].block > 0 =>
       /\ bus[i].number.last = IsLast(bus[i].msg, bus[i].block)
       /\ bus[i].block <= Blocks[bus[i].msg]
  /\ lock # NoMessage => frame.last = IsLast(lock, 1)

\* The task of a message of one block that met no other message.
Alone(i) == i \in DOMAIN tasks /\ tasks[i].number.last /\ tasks[i].msg \notin met

\* The server has the first blocks of one message, and while a task is alone
\* those of a message of one block.
Gathered ==
  /\ rdata # <<>> =>
       /\ rdata[1][1] \in taken /\ Len(rdata) <= Blocks[rdata[1][1]]
       /\ \A i \in 1 .. Len(rdata) : rdata[i] = <<rdata[1][1], i>>
  /\ \A i \in Nat : Alone(i) =>
       /\ i = Len(tasks) /\ \A j \in 1 .. i - 1 : ~ tasks[j].number.last
       /\ Len(rdata) = 1 /\ Blocks[rdata[1][1]] = 1

Streaming ==
  \A i \in DOMAIN bus : bus[i].block > 0 =>
    \E k \in DOMAIN order : k >= Home /\ bus[i].msg = order[k]

\* The counter is y at the block that comes d blocks after the one where it is
\* x: a first frame may have been numbered in between.
Counts(x, y, d) == Shift(x, d) = y \/ Shift(x, d + 1) = y

InFront(k, b, x, l, c, y) ==
  \/ k = l /\ b <= c /\ (c > 1 => b < c /\ Counts(x, y, c - b))
  \/ k < l /\ c = 1

InLine ==
  \A k, l \in DOMAIN order, b, c \in Nat, x, y \in At :
    Ahead(k, b, x, l, c, y) => InFront(k, b, x, l, c, y)

\* Of the message that has the lock there are first frames only.
FirstOnly ==
  lock # NoMessage =>
    \A b \in Nat, x \in At : Flow(Len(order), b, x) => b = 1 /\ x = frame.at

\* What a generator has yet to send goes on where the pieces under way end.
GoesOn(c, k, b, x) ==
  /\ k = Home /\ b < c
  /\ \/ Shift(x, c - b - 1) = scounter.at
     \/ lock # NoMessage /\ Shift(x, c - b) = scounter.at
ToSend ==
  \A i \in Nat : Generator(i) =>
    /\ Home \in DOMAIN order /\ jobs[i].msg = order[Home] /\ Newest <= Home
    /\ \A k \in DOMAIN order, b \in Nat, x \in At :
         Flow(k, b, x) => GoesOn(jobs[i].block, k, b, x)

\* A first frame that was taken, or sent when nothing was under way, has none
\* of the message before it behind it.
Passed ==
  lock # NoMessage =>
    /\ lock \in taken =>
         /\ ~ Generating
         /\ \A k \in DOMAIN order, b \in Nat, x \in At : Flow(k, b, x) => k = Len(order)
    /\ tries > faults + 1 =>
         ~ Generating /\ \A i \in DOMAIN bus : bus[i].block > 0 => bus[i].msg = lock

\* Newest is the place of what was received last; nothing older is under way.
NewestIsLast ==
  \/ Newest = 0 /\ \A i \in DOMAIN got : ~ Proper(got[i])
  \/ /\ Newest \in DOMAIN order
     /\ \E i \in DOMAIN got :
          /\ Proper(got[i]) /\ order[Newest] = Meaning(got[i])
          /\ \A j \in DOMAIN got : Proper(got[j]) => j <= i
NothingOlder ==
  \A k \in DOMAIN order, b \in Nat, x \in At : Flow(k, b, x) => Newest <= k

WholeInv ==
  /\ Ordered /\ Framed /\ Gathered /\ Streaming /\ InLine /\ FirstOnly
  /\ ToSend /\ Passed /\ NewestIsLast /\ NothingOlder

LEMMA PieceIs ==
  ASSUME PeerTypes, Ordered, Gathered, Streaming, NEW i \in Nat, Held(i)
  PROVE  /\ BlockAt(i) \in Nat /\ BlockAt(i) >= 1 /\ CountAt(i) \in At
         /\ \E k \in DOMAIN order : Piece(i, k, BlockAt(i), CountAt(i))
<1>1. CASE i = 0
  <2>1. rdata # <<>> /\ rdata \in Seq(Block)
    BY <1>1 DEF Held, PeerTypes
  <2>2. Len(rdata) \in Nat /\ Len(rdata) >= 1
    BY <2>1, TailIs
  <2>3. rdata[1][1] \in Message /\ phase[rdata[1][1]] # "idle"
    BY <2>1 DEF Gathered, Ordered, PeerTypes
  <2>4. PICK k \in DOMAIN order : order[k] = rdata[1][1]
    BY <2>3 DEF Ordered
  <2>5. rcounter.at \in At
    BY NumberIs DEF PeerTypes
  <2>6. MsgAt(i) = rdata[1][1] /\ BlockAt(i) = Len(rdata) /\ CountAt(i) = rcounter.at
    BY <1>1 DEF MsgAt, BlockAt, CountAt
  <2> QED BY <2>2, <2>4, <2>5, <2>6 DEF Piece
<1>2. CASE i # 0
  <2>1. i \in DOMAIN bus /\ bus[i].block > 0 /\ bus[i] \in Frame
    BY <1>2 DEF Held, PeerTypes
  <2>2. bus[i].block \in Nat /\ bus[i].number.at \in At
    <3>1. bus[i].block \in Nat /\ bus[i].number \in Number
      BY <2>1 DEF Frame
    <3> QED BY <3>1, NumberIs
  <2>3. PICK k \in DOMAIN order : order[k] = bus[i].msg
    BY <2>1 DEF Streaming
  <2>4. MsgAt(i) = bus[i].msg /\ BlockAt(i) = bus[i].block /\ CountAt(i) = bus[i].number.at
    BY <1>2 DEF MsgAt, BlockAt, CountAt
  <2>5. bus[i].block >= 1
    BY <2>1, <2>2, SMT
  <2> QED BY <2>2, <2>3, <2>4, <2>5 DEF Piece
<1> QED BY <1>1, <1>2

\* Of two messages in order one has one place.
LEMMA PlaceIs ==
  ASSUME Ordered, NEW i \in Nat, NEW k \in DOMAIN order, NEW l \in DOMAIN order,
         NEW b, NEW x, NEW c, NEW y, Piece(i, k, b, x), Piece(i, l, c, y)
  PROVE  k = l /\ b = c /\ x = y
BY DEF Piece, Ordered

\* A step that numbers nothing and brings nothing new.
LEMMA DriftsKeeps ==
  ASSUME PeerTypes, PeerTypes', WholeInv, Drifts, Ordered', Gathered', NewestIsLast',
         NothingOlder',
         UNCHANGED <<order, lock, tries, frame, scounter, full>>, faults <= faults',
         \A i \in Nat : Generator(i)' => \E h \in Nat : Generator(h) /\ jobs'[i] = jobs[h],
         \A i \in DOMAIN bus' : bus'[i].block > 0 => \E h \in DOMAIN bus : bus'[i] = bus[h],
         lock # NoMessage /\ lock \in taken' /\ lock \notin taken =>
           /\ ~ Generating
           /\ \A k \in DOMAIN order, b \in Nat, x \in At : Flow(k, b, x)' => k = Len(order),
         \A i \in Nat : Generator(i) => Newest' <= Home
  PROVE  WholeInv'
<1>1. /\ \A k \in DOMAIN order, b \in Nat, x \in At : Flow(k, b, x)' => Flow(k, b, x)
      /\ \A k, l \in DOMAIN order, b, c \in Nat, x, y \in At :
           Ahead(k, b, x, l, c, y)' => Ahead(k, b, x, l, c, y)
  <2>1. \E y \in At : TRUE
    BY CountersAre
  <2>2. 0 \in Nat
    OBVIOUS
  <2> QED BY <2>1, <2>2 DEF Drifts
<1>2. Home' = Home
  BY DEF Home
<1>3. Framed'
  BY DEF WholeInv, Framed, IsLast
<1>4. Streaming'
  BY <1>2 DEF WholeInv, Streaming
<1>5. InLine'
  BY <1>1 DEF WholeInv, InLine, InFront
<1>6. FirstOnly'
  <2> SUFFICES ASSUME lock # NoMessage, NEW b \in Nat, NEW x \in At, Flow(Len(order), b, x)'
               PROVE  b = 1 /\ x = frame.at
    BY DEF FirstOnly
  <2>1. Len(order) \in DOMAIN order
    BY DEF WholeInv, Ordered
  <2> QED BY <1>1, <2>1 DEF WholeInv, FirstOnly
<1>7. Generating' => Generating
  BY DEF Generating
<1>8. ToSend'
  <2> SUFFICES ASSUME NEW i \in Nat, Generator(i)'
               PROVE  /\ Home' \in DOMAIN order' /\ jobs'[i].msg = order'[Home'] /\ Newest' <= Home'
                      /\ \A k \in DOMAIN order', b \in Nat, x \in At :
                           Flow(k, b, x)' => GoesOn(jobs[i].block, k, b, x)'
    BY DEF ToSend
  <2>1. PICK h \in Nat : Generator(h) /\ jobs'[i] = jobs[h]
    OBVIOUS
  <2>2. \A k \in DOMAIN order, b \in Nat, x \in At :
          Flow(k, b, x)' => GoesOn(jobs[h].block, k, b, x)
    BY <1>1, <2>1 DEF WholeInv, ToSend
  <2>3. \A c, k, b, x : GoesOn(c, k, b, x)' <=> GoesOn(c, k, b, x)
    BY <1>2 DEF GoesOn
  <2> QED BY <1>2, <2>1, <2>2, <2>3 DEF WholeInv, ToSend
<1>9. Passed'
  <2> SUFFICES ASSUME lock # NoMessage
               PROVE  /\ lock \in taken' =>
                           /\ ~ Generating'
                           /\ \A k \in DOMAIN order, b \in Nat, x \in At :
                                Flow(k, b, x)' => k = Len(order)
                      /\ tries > faults' + 1 =>
                           ~ Generating' /\ \A i \in DOMAIN bus' : bus'[i].block > 0 => bus'[i].msg = lock
    BY DEF Passed
  <2>1. lock \in taken' =>
          /\ ~ Generating
          /\ \A k \in DOMAIN order, b \in Nat, x \in At : Flow(k, b, x)' => k = Len(order)
    BY <1>1 DEF WholeInv, Passed
  <2>2. tries > faults' + 1 => tries > faults + 1
    <3>1. faults \in Nat /\ faults' \in Nat /\ tries \in Nat
      BY CanPeerAssumption, SMT DEF PeerTypes
    <3> QED BY <3>1, LaterFaults
  <2>3. tries > faults' + 1 =>
          ~ Generating /\ \A i \in DOMAIN bus' : bus'[i].block > 0 => bus'[i].msg = lock
    BY <2>2 DEF WholeInv, Passed
  <2> QED BY <1>7, <2>1, <2>3
<1> QED BY <1>3, <1>4, <1>5, <1>6, <1>8, <1>9 DEF WholeInv

\* Newest, of what was received and what was given.
NewestOf(g, o) ==
  LET heard == {i \in DOMAIN g : Proper(g[i])}
      latest == CHOOSE i \in heard : \A j \in heard : j <= i
      known == {k \in DOMAIN o : o[k] = [i \in DOMAIN g |-> Meaning(g[i])][latest]}
  IN IF heard = {} \/ known = {} THEN 0 ELSE CHOOSE k \in known : TRUE

LEMMA NewestIsOf == Newest = NewestOf(got, order) /\ Newest' = NewestOf(got', order')
BY DEF Newest, NewestOf, Received

LEMMA NewestFound ==
  ASSUME NEW g \in Seq(Seq(Block)), NEW o \in Seq(Message),
         \A i, j \in DOMAIN o : o[i] = o[j] => i = j,
         NEW i \in DOMAIN g, Proper(g[i]), \A j \in DOMAIN g : Proper(g[j]) => j <= i,
         NEW k \in DOMAIN o, o[k] = Meaning(g[i])
  PROVE  NewestOf(g, o) = k
<1> DEFINE heard == {h \in DOMAIN g : Proper(g[h])}
           latest == CHOOSE h \in heard : \A j \in heard : j <= h
           known == {h \in DOMAIN o : o[h] = [j \in DOMAIN g |-> Meaning(g[j])][latest]}
<1>1. i \in heard /\ \A j \in heard : j <= i
  OBVIOUS
<1>2. latest \in heard /\ \A j \in heard : j <= latest
  BY <1>1
<1>3. DOMAIN g \subseteq Int
  OBVIOUS
<1>4. latest = i
  <2>1. i <= latest /\ latest <= i /\ i \in Int /\ latest \in Int
    BY <1>1, <1>2, <1>3
  <2> HIDE DEF latest
  <2> QED BY <2>1, SMT
<1>5. known = {k}
  <2>1. [j \in DOMAIN g |-> Meaning(g[j])][latest] = Meaning(g[i])
    BY <1>4
  <2> QED BY <2>1
<1>6. NewestOf(g, o) = IF heard = {} \/ known = {} THEN 0 ELSE CHOOSE h \in known : TRUE
  BY DEF NewestOf
<1> HIDE DEF heard, known
<1>7. (CHOOSE h \in known : TRUE) = k
  BY <1>5
<1>8. heard # {} /\ known # {}
  BY <1>1, <1>5
<1> QED BY <1>6, <1>7, <1>8

LEMMA NewestNone ==
  ASSUME NEW g, NEW o, \A i \in DOMAIN g : ~ Proper(g[i])
  PROVE  NewestOf(g, o) = 0
<1>1. {i \in DOMAIN g : Proper(g[i])} = {}
  OBVIOUS
<1> QED BY <1>1 DEF NewestOf

\* No message is received.
LEMMA NewestKept ==
  ASSUME PeerTypes, PeerTypes', Ordered, NewestIsLast, UNCHANGED order,
         got' \in {got, Append(got, Eof), Append(got, Spoilt)}
  PROVE  Newest' = Newest /\ NewestIsLast'
<1>1. /\ got \in Seq(Seq(Block)) /\ got' \in Seq(Seq(Block)) /\ order \in Seq(Message)
      /\ DOMAIN got = 1 .. Len(got) /\ Len(got) \in Nat
  BY DEF PeerTypes
<1>2. Eof \in Seq(Block) /\ Spoilt \in Seq(Block) /\ ~ Proper(Eof) /\ ~ Proper(Spoilt)
  BY QueueEnds DEF Proper
<1>3. /\ \A j \in DOMAIN got' : (j \in DOMAIN got /\ got'[j] = got[j]) \/ ~ Proper(got'[j])
      /\ \A j \in DOMAIN got : j \in DOMAIN got' /\ got'[j] = got[j]
  <2>1. CASE got' = got
    BY <2>1
  <2>2. ASSUME NEW e \in {Eof, Spoilt}, got' = Append(got, e)
        PROVE  <1>3
    <3>1. e \in Seq(Block) /\ ~ Proper(e)
      BY <1>2
    <3>5. /\ DOMAIN Append(got, e) = 1 .. Len(got) + 1 /\ Append(got, e)[Len(got) + 1] = e
          /\ \A j \in 1 .. Len(got) : Append(got, e)[j] = got[j]
      BY <1>1, <3>1, AppendIs
    <3>2. /\ DOMAIN got' = 1 .. Len(got) + 1 /\ got'[Len(got) + 1] = e
          /\ \A j \in 1 .. Len(got) : got'[j] = got[j]
      BY <2>2, <3>5
    <3>3. \A j \in 1 .. Len(got) + 1 : j \in 1 .. Len(got) \/ j = Len(got) + 1
      BY <1>1, SMT
    <3>4. \A j \in 1 .. Len(got) : j \in 1 .. Len(got) + 1
      BY <1>1, SMT
    <3> QED BY <1>1, <3>1, <3>2, <3>3, <3>4
  <2> QED BY <2>1, <2>2
<1>4. CASE Newest = 0 /\ \A i \in DOMAIN got : ~ Proper(got[i])
  <2>1. \A i \in DOMAIN got' : ~ Proper(got'[i])
    BY <1>3, <1>4
  <2>2. Newest' = 0
    BY <2>1, NewestNone, NewestIsOf
  <2> QED BY <1>4, <2>1, <2>2 DEF NewestIsLast
<1>5. CASE /\ Newest \in DOMAIN order
           /\ \E i \in DOMAIN got : /\ Proper(got[i]) /\ order[Newest] = Meaning(got[i])
                                    /\ \A j \in DOMAIN got : Proper(got[j]) => j <= i
  <2>1. PICK i \in DOMAIN got : /\ Proper(got[i]) /\ order[Newest] = Meaning(got[i])
                                /\ \A j \in DOMAIN got : Proper(got[j]) => j <= i
    BY <1>5
  <2>2. /\ i \in DOMAIN got' /\ Proper(got'[i]) /\ order[Newest] = Meaning(got'[i])
        /\ \A j \in DOMAIN got' : Proper(got'[j]) => j <= i
    BY <1>3, <2>1
  <2>3. NewestOf(got', order) = Newest
    BY <1>1, <1>5, <2>2, NewestFound DEF Ordered
  <2>4. Newest' = Newest
    BY <2>3, NewestIsOf
  <2>5. Newest' \in DOMAIN order' /\ order'[Newest'] = Meaning(got'[i])
    BY <1>5, <2>2, <2>4
  <2>6. \A d : Meaning(d)' = Meaning(d)
    BY DEF Meaning, Whole, Eof, Spoilt
  <2>7. NewestIsLast'
    BY <2>2, <2>5, <2>6 DEF NewestIsLast, Proper, Eof, Spoilt
  <2> QED BY <2>4, <2>7
<1> QED BY <1>4, <1>5 DEF NewestIsLast

\* A message is received.
LEMMA NewestMoves ==
  ASSUME PeerTypes, PeerTypes', Ordered, UNCHANGED order,
         NEW data \in Seq(Block), Proper(data), got' = Append(got, data),
         NEW k \in DOMAIN order, Meaning(data) = order[k]
  PROVE  Newest' = k /\ NewestIsLast'
<1>1. /\ got \in Seq(Seq(Block)) /\ got' \in Seq(Seq(Block)) /\ order \in Seq(Message)
      /\ DOMAIN got = 1 .. Len(got) /\ Len(got) \in Nat
  BY DEF PeerTypes
<1>2. /\ DOMAIN got' = 1 .. Len(got) + 1 /\ got'[Len(got) + 1] = data
  BY <1>1, AppendIs
<1> DEFINE i == Len(got) + 1
<1>3. /\ i \in DOMAIN got' /\ Proper(got'[i]) /\ order[k] = Meaning(got'[i])
      /\ \A j \in DOMAIN got' : Proper(got'[j]) => j <= i
  <2>1. i \in DOMAIN got' /\ \A j \in DOMAIN got' : j <= i
    BY <1>1, <1>2, SMT
  <2> QED BY <1>2, <2>1
<1> HIDE DEF i
<1>4. NewestOf(got', order) = k
  BY <1>1, <1>3, NewestFound DEF Ordered
<1>5. Newest' = k
  BY <1>4, NewestIsOf
<1>6. \A d : Meaning(d)' = Meaning(d)
  BY DEF Meaning, Whole, Eof, Spoilt
<1>7. NewestIsLast'
  BY <1>3, <1>5, <1>6 DEF NewestIsLast, Proper, Eof, Spoilt
<1> QED BY <1>5, <1>7

\* A message is given to the connection.
LEMMA NewestStays ==
  ASSUME PeerTypes, PeerTypes', Ordered, Ordered', NewestIsLast, UNCHANGED got,
         NEW m \in Message, order' = Append(order, m)
  PROVE  Newest' = Newest /\ NewestIsLast'
<1>1. /\ got \in Seq(Seq(Block)) /\ order \in Seq(Message) /\ order' \in Seq(Message)
  BY DEF PeerTypes
<1>2. \A k \in DOMAIN order : k \in DOMAIN order' /\ order'[k] = order[k]
  <2>1. /\ DOMAIN order = 1 .. Len(order) /\ DOMAIN order' = 1 .. Len(order) + 1
        /\ Len(order) \in Nat /\ \A k \in 1 .. Len(order) : order'[k] = order[k]
    BY <1>1, AppendIs
  <2> QED BY <2>1, SMT
<1>3. CASE Newest = 0 /\ \A i \in DOMAIN got : ~ Proper(got[i])
  <2>1. Newest' = 0
    BY <1>3, NewestNone, NewestIsOf
  <2> QED BY <1>3, <2>1 DEF NewestIsLast, Proper, Eof, Spoilt
<1>4. CASE /\ Newest \in DOMAIN order
           /\ \E i \in DOMAIN got : /\ Proper(got[i]) /\ order[Newest] = Meaning(got[i])
                                    /\ \A j \in DOMAIN got : Proper(got[j]) => j <= i
  <2>1. PICK i \in DOMAIN got : /\ Proper(got[i]) /\ order[Newest] = Meaning(got[i])
                                /\ \A j \in DOMAIN got : Proper(got[j]) => j <= i
    BY <1>4
  <2>2. Newest \in DOMAIN order' /\ order'[Newest] = Meaning(got[i])
    BY <1>2, <1>4, <2>1
  <2>7. \A k, l \in DOMAIN order' : order'[k] = order'[l] => k = l
    BY DEF Ordered
  <2>3. NewestOf(got, order') = Newest
    BY <1>1, <2>1, <2>2, <2>7, NewestFound
  <2>4. Newest' = Newest
    BY <2>3, NewestIsOf
  <2>5. \A d : Meaning(d)' = Meaning(d)
    BY DEF Meaning, Whole, Eof, Spoilt
  <2>6. NewestIsLast'
    BY <2>1, <2>2, <2>4, <2>5 DEF NewestIsLast, Proper, Eof, Spoilt
  <2> QED BY <2>4, <2>6
<1> QED BY <1>3, <1>4 DEF NewestIsLast

LEMMA WholeInit == Init => WholeInv
<1> SUFFICES ASSUME Init PROVE WholeInv
  OBVIOUS
<1>1. /\ order = <<>> /\ bus = <<>> /\ jobs = <<>> /\ rdata = <<>> /\ tasks = <<>> /\ got = <<>>
      /\ lock = NoMessage /\ taken = {} /\ phase = [m \in Message |-> "idle"]
  BY DEF Init
<1>2. \A i \in Nat : ~ Held(i)
  BY <1>1 DEF Held
<1>3. \A k, b, x : ~ Flow(k, b, x)
  BY <1>2 DEF Flow, Piece
<1>4. \A i \in Nat : ~ Generator(i)
  BY <1>1 DEF Generator
<1>5. DOMAIN order = {} /\ DOMAIN bus = {} /\ DOMAIN got = {}
  BY <1>1
<1>10. Gathered
  BY <1>1 DEF Gathered, Alone
<1>6. Ordered /\ Framed /\ Gathered /\ Streaming
  BY <1>1, <1>5, <1>10 DEF Ordered, Framed, Streaming
<1>7. InLine /\ FirstOnly /\ NothingOlder
  BY <1>1, <1>5 DEF InLine, FirstOnly, NothingOlder
<1>8. ToSend /\ Passed
  BY <1>1, <1>4 DEF ToSend, Passed
<1>9. NewestIsLast
  BY <1>5, NewestNone, NewestIsOf DEF NewestIsLast
<1> QED BY <1>6, <1>7, <1>8, <1>9 DEF WholeInv

LEMMA FlowKept ==
  ASSUME UNCHANGED <<order, bus, rdata, rcounter>>
  PROVE  /\ Drifts
         /\ \A k, b, x : Flow(k, b, x)' <=> Flow(k, b, x)
         /\ \A k, b, x, l, c, y : Ahead(k, b, x, l, c, y)' <=> Ahead(k, b, x, l, c, y)
<1>1. \A i, k, b, x : Piece(i, k, b, x)' <=> Piece(i, k, b, x)
  BY DEF Piece, Held, MsgAt, BlockAt, CountAt
<1>2. /\ \A k, b, x : Flow(k, b, x)' <=> Flow(k, b, x)
      /\ \A k, b, x, l, c, y : Ahead(k, b, x, l, c, y)' <=> Ahead(k, b, x, l, c, y)
  BY <1>1 DEF Flow, Ahead
<1> QED BY <1>2 DEF Drifts

LEMMA IsLastKept ==
  ASSUME UNCHANGED full
  PROVE  \A m, b : IsLast(m, b)' = IsLast(m, b)
BY DEF IsLast

LEMMA GatheredKept ==
  ASSUME Gathered, UNCHANGED <<tasks, met, rdata, taken>>
  PROVE  Gathered'
BY DEF Gathered, Alone

LEMMA OldFaults ==
  ASSUME PeerTypes, PeerTypes', [Next]_vars
  PROVE  faults <= faults'
<1>1. faults \in 0 .. MaxFaults /\ MaxFaults \in Nat /\ bus \in Seq(Frame) /\ acks \in Seq(Number)
  BY CanPeerAssumption DEF PeerTypes
<1>2. \A a, b, f : Onto(a, b, f) => faults <= faults'
  BY <1>1, SMT DEF Onto, Fault
<1>3. Due => faults <= faults'
  BY <1>1, SMT DEF Due, Fault
<1>4. faults' = faults => faults <= faults'
  BY <1>1, SMT
<1>5. CASE UNCHANGED vars
  BY <1>4, <1>5 DEF vars
<1>6. ASSUME NEW m \in Message, Client(m) PROVE faults <= faults'
  BY <1>3, <1>4, <1>6 DEF Client, Send, FirstSent, Acknowledged, RestSent, Retry, GiveUp
<1>7. CASE Transmit \/ AckReceived \/ Disconnect \/ AckSent \/ FirstHandled
  BY <1>2, <1>4, <1>7 DEF Transmit, AckReceived, Disconnect, AckSent, FirstHandled
<1>8. CASE FirstFrame \/ NextFrame \/ DisconnectFrame
  BY <1>4, <1>8 DEF FirstFrame, NextFrame, DisconnectFrame, Incoming
<1> QED BY <1>5, <1>6, <1>7, <1>8 DEF Next

\* A step that moves nothing.
LEMMA StillWhole ==
  ASSUME PeerTypes, PeerTypes', WholeInv, [Next]_vars,
         UNCHANGED <<order, bus, rdata, rcounter, got, taken>>,
         UNCHANGED <<lock, tries, frame, scounter, full, met>>, Ordered',
         DOMAIN tasks' = DOMAIN tasks, Len(tasks') = Len(tasks),
         \A i \in DOMAIN tasks : tasks'[i].number = tasks[i].number /\ tasks'[i].msg = tasks[i].msg,
         \A i \in Nat : Generator(i)' => \E h \in Nat : Generator(h) /\ jobs'[i] = jobs[h]
  PROVE  WholeInv'
<1>1. Drifts /\ \A k, b, x : Flow(k, b, x)' <=> Flow(k, b, x)
  BY FlowKept
<1>2. Gathered'
  <2>1. ASSUME NEW i \in Nat, Alone(i)'
        PROVE  /\ i = Len(tasks) /\ \A j \in 1 .. i - 1 : ~ tasks'[j].number.last
               /\ Len(rdata) = 1 /\ Blocks[rdata[1][1]] = 1
    <3>1. Alone(i)
      BY <2>1 DEF Alone
    <3>2. /\ i = Len(tasks) /\ \A j \in 1 .. i - 1 : ~ tasks[j].number.last
          /\ Len(rdata) = 1 /\ Blocks[rdata[1][1]] = 1
      BY <3>1 DEF WholeInv, Gathered
    <3>3. DOMAIN tasks = 1 .. Len(tasks) /\ \A j \in 1 .. i - 1 : j \in 1 .. i
      BY SMT DEF PeerTypes
    <3> QED BY <3>2, <3>3
  <2> QED BY <2>1 DEF WholeInv, Gathered
<1>3. Newest' = Newest /\ NewestIsLast'
  BY NewestKept DEF WholeInv
<1>4. NothingOlder'
  BY <1>1, <1>3 DEF WholeInv, NothingOlder
<1>5. faults <= faults'
  BY OldFaults
<1>6. \A i \in Nat : Generator(i) => Newest' <= Home
  BY <1>3 DEF WholeInv, ToSend
<1> QED BY <1>1, <1>2, <1>3, <1>4, <1>5, <1>6, DriftsKeeps

LEMMA StillStepsKeep ==
  ASSUME PeerTypes, PeerTypes', WholeInv, [Next]_vars,
         \/ UNCHANGED vars \/ AckReceived \/ Disconnect \/ AckSent
         \/ \E m \in Message : FirstSent(m) \/ RestSent(m)
  PROVE  WholeInv'
<1>1. UNCHANGED <<order, bus, rdata, rcounter, got, taken>>
      /\ UNCHANGED <<lock, tries, frame, scounter, full, met>>
  BY DEF vars, client, server, AckReceived, Disconnect, AckSent, FirstSent, RestSent
<1>2. UNCHANGED tasks \/ AckSent
  BY DEF vars, client, server, AckReceived, Disconnect, FirstSent, RestSent
<1>3. /\ DOMAIN tasks' = DOMAIN tasks /\ Len(tasks') = Len(tasks)
      /\ \A i \in DOMAIN tasks : tasks'[i].number = tasks[i].number /\ tasks'[i].msg = tasks[i].msg
  <2>1. CASE AckSent
    <3>1. PICK i \in DOMAIN tasks : tasks' = [tasks EXCEPT ![i].acked = TRUE]
      BY <2>1 DEF AckSent
    <3>2. tasks \in Seq(TaskRecord) /\ tasks' \in Seq(TaskRecord)
      BY DEF PeerTypes
    <3>3. DOMAIN tasks' = DOMAIN tasks
      BY <3>1
    <3>4. \A j \in DOMAIN tasks : tasks'[j].number = tasks[j].number /\ tasks'[j].msg = tasks[j].msg
      <4> TAKE j \in DOMAIN tasks
      <4>1. tasks[j] \in TaskRecord
        BY <3>2
      <4> QED BY <3>1, <4>1 DEF TaskRecord
    <3>5. Len(tasks') = Len(tasks)
      BY <3>2, <3>3, SMT
    <3> QED BY <3>3, <3>4, <3>5
  <2> QED BY <1>2, <2>1
<1>4. Ordered'
  <2>1. \A m \in Message : phase'[m] = "idle" <=> phase[m] = "idle"
    <3>1. CASE UNCHANGED phase
      BY <3>1
    <3>2. ASSUME NEW m \in Message, FirstSent(m) \/ RestSent(m)
          PROVE  \A n \in Message : phase'[n] = "idle" <=> phase[n] = "idle"
      BY <3>2 DEF FirstSent, RestSent, PeerTypes
    <3> QED BY <3>1, <3>2 DEF vars, client, AckReceived, Disconnect, AckSent
  <2>2. taken \subseteq Message
    BY DEF PeerTypes
  <2> QED BY <1>1, <2>1, <2>2 DEF WholeInv, Ordered
<1>5. \A i \in Nat : Generator(i)' => \E h \in Nat : Generator(h) /\ jobs'[i] = jobs[h]
  <2>1. CASE UNCHANGED jobs
    BY <2>1 DEF Generator
  <2>2. CASE Disconnect
    <3> DEFINE j == [msg |-> Greeting, block |-> 0, number |-> scounter]
    <3>1. j \in Frame /\ j.block = 0
      BY JobType, CanPeerAssumption DEF PeerTypes
    <3>2. jobs' = Append(jobs, j)
      BY <2>2 DEF Disconnect
    <3> HIDE DEF j
    <3>3. \A i \in Nat : i \in DOMAIN jobs' =>
            (i \in DOMAIN jobs /\ jobs'[i] = jobs[i]) \/ jobs'[i] = j
      BY <3>1, <3>2, JobAdded
    <3>4. ~ 0 > 1
      OBVIOUS
    <3> QED BY <3>1, <3>3, <3>4 DEF Generator
  <2> QED BY <2>1, <2>2 DEF vars, client, AckReceived, AckSent, FirstSent, RestSent
<1> QED BY <1>1, <1>3, <1>4, <1>5, StillWhole

-----------------------------------------------------------------------------
(* The server's steps *)

LEMMA BusTail ==
  ASSUME PeerTypes, bus # <<>>, bus' = Tail(bus)
  PROVE  /\ Head(bus) = bus[1] /\ bus[1] \in Frame /\ 1 \in DOMAIN bus
         /\ \A i \in Nat : i \in DOMAIN bus' =>
              i # 0 /\ i + 1 \in Nat /\ i + 1 \in DOMAIN bus /\ bus'[i] = bus[i + 1]
<1>1. bus \in Seq(Frame)
  BY DEF PeerTypes
<1>2. /\ DOMAIN bus = 1 .. Len(bus) /\ Len(bus) \in Nat /\ Len(bus) >= 1
      /\ DOMAIN bus' = 1 .. Len(bus) - 1 /\ Head(bus) = bus[1] /\ bus[1] \in Frame
      /\ \A h \in 1 .. Len(bus) - 1 : bus'[h] = bus[h + 1]
  BY <1>1, TailIs
<1> QED BY <1>2, SMT

\* The first frame on the bus is left out, or breaks off what is gathered.
LEMMA HeadGone ==
  ASSUME PeerTypes, bus # <<>>, bus' = Tail(bus), UNCHANGED order,
         UNCHANGED <<rdata, rcounter>> \/ rdata' = <<>>
  PROVE  /\ Drifts
         /\ rdata' = <<>> =>
              \A k, b, x : Flow(k, b, x)' => \E j \in Nat : j > 1 /\ Piece(j, k, b, x)
<1> DEFINE g == [i \in Nat |-> IF i = 0 THEN 0 ELSE i + 1]
<1>1. g \in [Nat -> Nat] /\ \A i, j \in Nat : i < j => g[i] < g[j]
  BY SMT
<1>2. ASSUME NEW i \in Nat, Held(i)'
      PROVE  /\ Held(g[i]) /\ MsgAt(i)' = MsgAt(g[i])
             /\ BlockAt(i)' = BlockAt(g[i]) /\ CountAt(i)' = CountAt(g[i])
  <2>1. CASE i = 0
    <3>1. rdata' # <<>> /\ UNCHANGED <<rdata, rcounter>> /\ g[i] = 0
      BY <1>2, <2>1 DEF Held
    <3> HIDE DEF g
    <3> QED BY <2>1, <3>1 DEF Held, MsgAt, BlockAt, CountAt
  <2>2. CASE i # 0
    <3>1. i \in DOMAIN bus' /\ bus'[i].block > 0 /\ g[i] = i + 1
      BY <1>2, <2>2 DEF Held
    <3>2. i + 1 \in DOMAIN bus /\ bus'[i] = bus[i + 1] /\ i + 1 # 0
      BY <3>1, BusTail, SMT
    <3> HIDE DEF g
    <3> QED BY <2>2, <3>1, <3>2 DEF Held, MsgAt, BlockAt, CountAt
  <2> QED BY <2>1, <2>2
<1>3. ASSUME rdata' = <<>>, NEW k, NEW b, NEW x, Flow(k, b, x)'
      PROVE  \E j \in Nat : j > 1 /\ Piece(j, k, b, x)
  <2>1. PICK i \in Nat : Piece(i, k, b, x)'
    BY <1>3 DEF Flow
  <2>2. Held(i)' /\ MsgAt(i)' = order[k] /\ BlockAt(i)' = b /\ CountAt(i)' = x
    BY <2>1 DEF Piece
  <2>3. i # 0
    BY <1>3, <2>2 DEF Held
  <2>4. g[i] \in Nat /\ g[i] > 1
    BY <2>3, SMT
  <2> HIDE DEF g
  <2>5. Piece(g[i], k, b, x)
    BY <1>2, <2>2 DEF Piece
  <2> QED BY <2>4, <2>5
<1> HIDE DEF g
<1>4. Drifts
  BY <1>1, <1>2, MovesDrift
<1> QED BY <1>3, <1>4

\* The first frame on the bus is now the latest one gathered.
LEMMA HeadTaken ==
  ASSUME PeerTypes, bus # <<>>, bus' = Tail(bus), UNCHANGED order, rdata' # <<>>,
         bus[1].block > 0, rdata'[1][1] = bus[1].msg, Len(rdata') = bus[1].block,
         rcounter' = bus[1].number
  PROVE  Drifts /\ \A k, b, x : Flow(k, b, x)' => \E j \in Nat : j >= 1 /\ Piece(j, k, b, x)
<1> DEFINE g == [i \in Nat |-> i + 1]
<1>1. g \in [Nat -> Nat] /\ \A i, j \in Nat : i < j => g[i] < g[j]
  BY SMT
<1>2. ASSUME NEW i \in Nat, Held(i)'
      PROVE  /\ Held(g[i]) /\ MsgAt(i)' = MsgAt(g[i])
             /\ BlockAt(i)' = BlockAt(g[i]) /\ CountAt(i)' = CountAt(g[i])
  <2>1. g[i] = i + 1 /\ i + 1 # 0
    BY SMT
  <2> HIDE DEF g
  <2>2. CASE i = 0
    <3>1. 0 + 1 = 1 /\ 1 \in DOMAIN bus
      BY BusTail, SMT
    <3> QED BY <2>1, <2>2, <3>1 DEF Held, MsgAt, BlockAt, CountAt
  <2>3. CASE i # 0
    <3>1. i \in DOMAIN bus' /\ bus'[i].block > 0
      BY <1>2, <2>3 DEF Held
    <3>2. i + 1 \in DOMAIN bus /\ bus'[i] = bus[i + 1]
      BY <3>1, BusTail
    <3> QED BY <2>1, <2>3, <3>1, <3>2 DEF Held, MsgAt, BlockAt, CountAt
  <2> QED BY <2>2, <2>3
<1>3. \A i \in Nat : g[i] \in Nat /\ g[i] >= 1
  BY SMT
<1> HIDE DEF g
<1>4. ASSUME NEW k, NEW b, NEW x, Flow(k, b, x)'
      PROVE  \E j \in Nat : j >= 1 /\ Piece(j, k, b, x)
  <2>1. PICK i \in Nat : Piece(i, k, b, x)'
    BY <1>4 DEF Flow
  <2>2. Held(i)' /\ MsgAt(i)' = order[k] /\ BlockAt(i)' = b /\ CountAt(i)' = x
    BY <2>1 DEF Piece
  <2>3. Piece(g[i], k, b, x)
    BY <1>2, <2>2 DEF Piece
  <2> QED BY <1>3, <2>3
<1>5. Drifts
  BY <1>1, <1>2, MovesDrift
<1> QED BY <1>4, <1>5

\* What is known of the first frame on the bus.
LEMMA HeadIs ==
  ASSUME PeerTypes, WholeInv, Incoming, Head(bus).block > 0
  PROVE  /\ bus # <<>> /\ bus' = Tail(bus) /\ UNCHANGED <<client, jobs, acks, faults>>
         /\ Head(bus) = bus[1] /\ bus[1] \in Frame /\ bus[1].msg \in Message
         /\ bus[1].block \in Nat /\ bus[1].number \in Number /\ bus[1].number.at \in At
         /\ 1 \in DOMAIN bus /\ bus[1].block <= Blocks[bus[1].msg]
         /\ bus[1].number.last = IsLast(bus[1].msg, bus[1].block)
         /\ phase[bus[1].msg] # "idle"
         /\ \A i \in DOMAIN bus' : \E h \in DOMAIN bus : bus'[i] = bus[h]
         /\ \E k \in DOMAIN order : /\ k >= Home /\ bus[1].msg = order[k]
                                    /\ Piece(1, k, bus[1].block, bus[1].number.at)
<1>1. bus # <<>> /\ bus' = Tail(bus) /\ UNCHANGED <<client, jobs, acks, faults>>
  BY DEF Incoming
<1>2. /\ Head(bus) = bus[1] /\ bus[1] \in Frame /\ 1 \in DOMAIN bus
      /\ \A i \in Nat : i \in DOMAIN bus' => i + 1 \in DOMAIN bus /\ bus'[i] = bus[i + 1]
  BY <1>1, BusTail
<1>3. /\ bus[1].msg \in Message /\ bus[1].block \in Nat /\ bus[1].number \in Number
      /\ bus[1].number.at \in At
  <2>1. bus[1].msg \in Message /\ bus[1].block \in Nat /\ bus[1].number \in Number
    BY <1>2 DEF Frame
  <2> QED BY <2>1, NumberIs
<1>4. /\ bus[1].number.last = IsLast(bus[1].msg, bus[1].block)
      /\ bus[1].block <= Blocks[bus[1].msg]
  BY <1>2 DEF WholeInv, Framed
<1>5. PICK k \in DOMAIN order : k >= Home /\ bus[1].msg = order[k]
  BY <1>2 DEF WholeInv, Streaming
<1>6. phase[bus[1].msg] # "idle"
  BY <1>3, <1>5 DEF WholeInv, Ordered
<1>7. Piece(1, k, bus[1].block, bus[1].number.at)
  <2>1. 1 # 0
    OBVIOUS
  <2> QED BY <1>2, <1>5, <2>1 DEF Piece, Held, MsgAt, BlockAt, CountAt
<1>8. \A i \in DOMAIN bus' : \E h \in DOMAIN bus : bus'[i] = bus[h]
  <2>1. \A i \in DOMAIN bus' : i \in Nat
    <3>1. bus \in Seq(Frame)
      BY DEF PeerTypes
    <3>2. Tail(bus) \in Seq(Frame)
      BY <1>1, <3>1, TailIs
    <3> QED BY <1>1, <3>2
  <2> QED BY <1>2, <2>1
<1> QED BY <1>1, <1>2, <1>3, <1>4, <1>5, <1>6, <1>7, <1>8

\* What is gathered goes to the queue, with nothing taken from the bus.
LEMMA GatheredGone ==
  ASSUME UNCHANGED <<bus, order>>, rdata' = <<>>
  PROVE  /\ Drifts
         /\ \A k, b, x : Flow(k, b, x)' => \E j \in Nat : j > 0 /\ Piece(j, k, b, x)
<1> DEFINE g == [i \in Nat |-> i]
<1>1. g \in [Nat -> Nat] /\ (\A i, j \in Nat : i < j => g[i] < g[j]) /\ \A i \in Nat : g[i] = i
  OBVIOUS
<1> HIDE DEF g
<1>2. ASSUME NEW i \in Nat, Held(i)'
      PROVE  /\ i # 0 /\ Held(i) /\ MsgAt(i)' = MsgAt(i)
             /\ BlockAt(i)' = BlockAt(i) /\ CountAt(i)' = CountAt(i)
  BY <1>2 DEF Held, MsgAt, BlockAt, CountAt
<1>3. Drifts
  BY <1>1, <1>2, MovesDrift
<1>4. ASSUME NEW k, NEW b, NEW x, Flow(k, b, x)'
      PROVE  \E j \in Nat : j > 0 /\ Piece(j, k, b, x)
  <2>1. PICK i \in Nat : Piece(i, k, b, x)'
    BY <1>4 DEF Flow
  <2>2. Held(i)' /\ MsgAt(i)' = order[k] /\ BlockAt(i)' = b /\ CountAt(i)' = x
    BY <2>1 DEF Piece
  <2>3. i # 0 /\ Piece(i, k, b, x)
    BY <1>2, <2>2 DEF Piece
  <2>4. i > 0
    BY <2>3, SMT
  <2> QED BY <2>3, <2>4
<1> QED BY <1>3, <1>4

\* Blocks of one message, all of them and in order, are that message.
LEMMA WholeIs ==
  ASSUME NEW m \in Message, NEW data \in Seq(Block), Len(data) = Blocks[m],
         \A i \in 1 .. Len(data) : data[i] = <<m, i>>
  PROVE  data = Whole(m) /\ Proper(data) /\ Meaning(data) = m
<1>1. Blocks[m] \in Nat /\ Blocks[m] >= 1
  BY BlocksAre, CanPeerAssumption, SMT
<1>2. data = Whole(m)
  <2>1. data \in [1 .. Len(data) -> Block]
    OBVIOUS
  <2>2. data = [i \in 1 .. Len(data) |-> data[i]]
    BY <2>1
  <2> QED BY <2>2 DEF Whole
<1>3. data[1] = <<m, 1>> /\ data[1][1] = m
  <2>1. 1 \in 1 .. Len(data)
    BY <1>1, SMT
  <2>2. data[1] = <<m, 1>>
    BY <2>1
  <2> QED BY <2>2
<1>4. Proper(data)
  BY <1>3, CanPeerAssumption DEF Proper, Eof, Spoilt
<1>5. Meaning(data) = data[1][1]
  BY <1>2, <1>4 DEF Meaning, Proper
<1> QED BY <1>2, <1>3, <1>4, <1>5

\* A message whose blocks are gathered is received.
LEMMA ReceivedWhole ==
  ASSUME PeerTypes, PeerTypes', WholeInv, NEW k \in DOMAIN order, NEW data \in Seq(Block),
         Len(data) = Blocks[order[k]],
         \A i \in 1 .. Len(data) : data[i] = <<order[k], i>>,
         got' = Append(got, data), UNCHANGED order,
         NEW h \in Nat, NEW b \in Nat, NEW x \in At, Piece(h, k, b, x),
         \A l, c, y : Flow(l, c, y)' => \E j \in Nat : j > h /\ Piece(j, l, c, y)
  PROVE  /\ Newest' = k /\ NewestIsLast' /\ NothingOlder'
         /\ \A i \in Nat : Generator(i) => Newest' <= Home
<1>1. order[k] \in Message /\ k \in Nat /\ Len(order) \in Nat /\ DOMAIN order = 1 .. Len(order)
  <2>1. order \in Seq(Message)
    BY DEF PeerTypes
  <2>2. DOMAIN order = 1 .. Len(order) /\ Len(order) \in Nat
    BY <2>1
  <2>3. \A i \in DOMAIN order : order[i] \in Message
    BY <2>1, <2>2
  <2>4. k \in Nat
    BY <2>2, SMT
  <2> QED BY <2>2, <2>3, <2>4
<1>2. Proper(data) /\ Meaning(data) = order[k]
  BY <1>1, WholeIs
<1>3. Newest' = k /\ NewestIsLast'
  BY <1>2, NewestMoves DEF WholeInv
<1>4. NothingOlder'
  <2> SUFFICES ASSUME NEW l \in DOMAIN order, NEW c \in Nat, NEW y \in At, Flow(l, c, y)'
               PROVE  k <= l
    BY <1>3 DEF NothingOlder
  <2>1. Ahead(k, b, x, l, c, y)
    BY DEF Ahead
  <2>2. k = l \/ k < l
    BY <2>1 DEF WholeInv, InLine, InFront
  <2>3. k \in Int /\ l \in Int
    BY <1>1
  <2> QED BY <2>2, <2>3, SMT
<1>5. ASSUME NEW i \in Nat, Generator(i)
      PROVE  Newest' <= Home
  <2>1. Flow(k, b, x)
    BY DEF Flow
  <2>2. k = Home
    BY <1>5, <2>1 DEF WholeInv, ToSend, GoesOn
  <2> QED BY <1>1, <1>3, <2>2, SMT
<1> QED BY <1>3, <1>4, <1>5

\* What the task of a first frame puts in the queue is a message of one block.
LEMMA FirstHandledGets ==
  ASSUME PeerTypes, WholeInv, FirstHandled, got' \notin {got, Append(got, Spoilt)}
  PROVE  /\ got' = Append(got, rdata) /\ rdata' = <<>> /\ rdata \in Seq(Block)
         /\ BlockAt(0) \in Nat /\ CountAt(0) \in At
         /\ \E k \in DOMAIN order :
              /\ Piece(0, k, BlockAt(0), CountAt(0)) /\ Len(rdata) = Blocks[order[k]]
              /\ \A i \in 1 .. Len(rdata) : rdata[i] = <<order[k], i>>
<1>1. got' = Append(got, rdata) /\ rdata' = <<>> /\ 1 \in Nat /\ Alone(1)
  <2>1. tasks \in Seq(TaskRecord) /\ tasks # <<>>
    BY DEF PeerTypes, FirstHandled
  <2>2. Head(tasks) = tasks[1] /\ 1 \in DOMAIN tasks
    BY <2>1, TailIs, SMT
  <2> QED BY <2>1, <2>2 DEF FirstHandled, Alone
<1>2. /\ rdata \in Seq(Block) /\ Len(rdata) = 1 /\ rdata # <<>> /\ Blocks[rdata[1][1]] = 1
  <2>1. rdata \in Seq(Block) /\ Len(rdata) = 1 /\ Blocks[rdata[1][1]] = 1
    BY <1>1 DEF WholeInv, Gathered, PeerTypes
  <2>2. rdata # <<>>
    BY <2>1, SMT
  <2> QED BY <1>1, <2>1, <2>2
<1>3. Held(0) /\ 0 \in Nat
  BY <1>2 DEF Held
<1>4. PICK k \in DOMAIN order : Piece(0, k, BlockAt(0), CountAt(0))
  BY <1>3, PieceIs DEF WholeInv
<1>5. BlockAt(0) \in Nat /\ CountAt(0) \in At
  BY <1>3, PieceIs DEF WholeInv
<1>6. order[k] = rdata[1][1]
  BY <1>4 DEF Piece, MsgAt
<1>7. Blocks[order[k]] = 1
  BY <1>2, <1>6
<1>8. \A i \in 1 .. Len(rdata) : rdata[i] = <<order[k], i>>
  BY <1>2, <1>6 DEF WholeInv, Gathered
<1> QED BY <1>1, <1>2, <1>4, <1>5, <1>7, <1>8

LEMMA FirstHandledWhole ==
  ASSUME PeerTypes, PeerTypes', WholeInv, FirstHandled
  PROVE  WholeInv'
<1>1. /\ UNCHANGED <<order, lock, tries, frame, scounter, phase, jobs, bus, rcounter, taken, faults>>
      /\ UNCHANGED <<full, met>> /\ tasks # <<>> /\ tasks' = Tail(tasks)
      /\ IF Head(tasks).number.last THEN rdata' = <<>> ELSE UNCHANGED <<got, rdata>>
  BY DEF FirstHandled, client
<1>2. ASSUME NEW i \in Nat, Alone(i)'
      PROVE  /\ i = Len(tasks') /\ \A j \in 1 .. i - 1 : ~ tasks'[j].number.last
             /\ Len(rdata') = 1 /\ Blocks[rdata'[1][1]] = 1
  <2>1. tasks \in Seq(TaskRecord) /\ tasks' \in Seq(TaskRecord)
    BY DEF PeerTypes
  <2>2. /\ Head(tasks) = tasks[1] /\ Len(tasks) \in Nat /\ Len(tasks) >= 1
        /\ DOMAIN tasks = 1 .. Len(tasks) /\ DOMAIN tasks' = 1 .. Len(tasks) - 1
        /\ \A h \in 1 .. Len(tasks) - 1 : tasks'[h] = tasks[h + 1]
    BY <1>1, <2>1, TailIs
  <2>3. i \in 1 .. Len(tasks) - 1 /\ tasks'[i].number.last /\ tasks'[i].msg \notin met
    BY <1>1, <1>2, <2>2 DEF Alone
  <2>4. /\ i + 1 \in 1 .. Len(tasks) /\ i + 1 \in Nat /\ 1 \in 1 .. (i + 1) - 1
        /\ \A j \in 1 .. i - 1 : j + 1 \in 1 .. (i + 1) - 1 /\ j \in 1 .. Len(tasks) - 1
    BY <2>2, <2>3, SMT
  <2>5. Alone(i + 1)
    BY <2>2, <2>3, <2>4 DEF Alone
  <2>6. /\ i + 1 = Len(tasks) /\ \A j \in 1 .. (i + 1) - 1 : ~ tasks[j].number.last
        /\ Len(rdata) = 1 /\ Blocks[rdata[1][1]] = 1
    BY <2>4, <2>5 DEF WholeInv, Gathered
  <2>7. UNCHANGED rdata
    BY <1>1, <2>2, <2>4, <2>6
  <2>8. \A j \in 1 .. i - 1 : ~ tasks'[j].number.last
    BY <2>2, <2>4, <2>6
  <2>9. i = Len(tasks')
    <3>1. Len(tasks) - 1 \in Nat
      BY <2>2, SMT
    <3>2. tasks' \in Seq(TaskRecord) /\ DOMAIN tasks' = 1 .. Len(tasks) - 1
      BY <2>1, <2>2, Zenon
    <3>3. Len(tasks') = Len(tasks) - 1
      BY <3>1, <3>2, LengthIs, Zenon
    <3>4. Len(tasks) \in Nat
      BY <2>2, Zenon
    <3>5. i + 1 = Len(tasks)
      BY <2>6, Zenon
    <3>6. i = Len(tasks) - 1
      BY <3>4, <3>5, SMT
    <3> QED BY <3>3, <3>6, Zenon
  <2> QED BY <2>6, <2>7, <2>8, <2>9
<1>3. Ordered'
  BY <1>1 DEF WholeInv, Ordered
<1>4. Gathered'
  BY <1>1, <1>2 DEF WholeInv, Gathered
<1>5. /\ faults <= faults'
      /\ \A i \in Nat : Generator(i)' => Generator(i) /\ jobs'[i] = jobs[i]
      /\ \A i \in DOMAIN bus' : bus'[i].block > 0 => \E h \in DOMAIN bus : bus'[i] = bus[h]
  <2>1. faults <= faults'
    BY <1>1, CountersAre, SMT
  <2> QED BY <1>1, <2>1 DEF Generator
<1>6. /\ Drifts /\ NewestIsLast' /\ NothingOlder'
      /\ \A i \in Nat : Generator(i) => Newest' <= Home
  <2>1. CASE got' \in {got, Append(got, Spoilt)}
    <3>1. Drifts
      <4>1. CASE rdata' = rdata
        BY <1>1, <4>1, FlowKept
      <4>2. CASE rdata' = <<>>
        BY <1>1, <4>2, GatheredGone
      <4> QED BY <1>1, <4>1, <4>2
    <3>2. Newest' = Newest /\ NewestIsLast'
      BY <1>1, <2>1, NewestKept DEF WholeInv
    <3>3. NothingOlder'
      BY <1>1, <3>1, <3>2, CountersAre DEF WholeInv, NothingOlder, Drifts
    <3>4. \A i \in Nat : Generator(i) => Newest' <= Home
      BY <3>2 DEF WholeInv, ToSend
    <3> QED BY <3>1, <3>2, <3>3, <3>4
  <2>2. CASE got' \notin {got, Append(got, Spoilt)}
    <3>1. /\ got' = Append(got, rdata) /\ rdata' = <<>> /\ rdata \in Seq(Block)
          /\ BlockAt(0) \in Nat /\ CountAt(0) \in At
      BY <2>2, FirstHandledGets
    <3>2. PICK k \in DOMAIN order :
            /\ Piece(0, k, BlockAt(0), CountAt(0)) /\ Len(rdata) = Blocks[order[k]]
            /\ \A i \in 1 .. Len(rdata) : rdata[i] = <<order[k], i>>
      BY <2>2, FirstHandledGets
    <3>3. Drifts /\ \A l, b, x : Flow(l, b, x)' => \E j \in Nat : j > 0 /\ Piece(j, l, b, x)
      BY <1>1, <3>1, GatheredGone
    <3>4. 0 \in Nat
      OBVIOUS
    <3> QED BY <1>1, <3>1, <3>2, <3>3, <3>4, ReceivedWhole
  <2> QED BY <2>1, <2>2
<1> QED BY <1>1, <1>3, <1>4, <1>5, <1>6, DriftsKeeps

LEMMA FirstFrameWhole ==
  ASSUME PeerTypes, PeerTypes', WholeInv, FirstFrame
  PROVE  WholeInv'
<1> DEFINE f == bus[1]
<1>1. /\ Incoming /\ Head(bus).block = 1 /\ Head(bus).block > 0
      /\ UNCHANGED got
  <2>1. Head(bus).block = 1 /\ 1 > 0
    BY SMT DEF FirstFrame
  <2> QED BY <2>1 DEF FirstFrame
<1>2. /\ bus # <<>> /\ bus' = Tail(bus) /\ UNCHANGED <<client, jobs, acks, faults>>
      /\ Head(bus) = f /\ f.msg \in Message /\ f.block \in Nat /\ f.number.at \in At
      /\ f.number \in Number
      /\ f.number.last = IsLast(f.msg, f.block) /\ f.block <= Blocks[f.msg]
      /\ phase[f.msg] # "idle"
      /\ \A i \in DOMAIN bus' : \E h \in DOMAIN bus : bus'[i] = bus[h]
  BY <1>1, HeadIs
<1>3. PICK k \in DOMAIN order : /\ k >= Home /\ f.msg = order[k]
                                /\ Piece(1, k, f.block, f.number.at)
  BY <1>1, HeadIs
<1>4. /\ f.block = 1 /\ rdata' = <<<<f.msg, 1>>>> /\ rcounter' = f.number
      /\ tasks' = Append(tasks, [msg |-> f.msg, number |-> f.number, acked |-> FALSE, new |-> ~ peer])
      /\ met' = (IF Overtaken = {} THEN met ELSE met \cup Overtaken \cup {f.msg})
      /\ taken' = taken \cup {f.msg}
  <2>1. Head(bus) = f
    BY <1>2
  <2> HIDE DEF f
  <2> QED BY <2>1 DEF FirstFrame
<1>5. UNCHANGED <<phase, order, lock, tries, frame, scounter, jobs, full>> /\ UNCHANGED faults
  BY <1>2 DEF client
<1> HIDE DEF f
<1>6. /\ rdata' # <<>> /\ rdata'[1] = <<f.msg, 1>> /\ rdata'[1][1] = f.msg /\ Len(rdata') = 1
  BY <1>4
<1>7. /\ Drifts
      /\ \A l, b, x : Flow(l, b, x)' => \E j \in Nat : j >= 1 /\ Piece(j, l, b, x)
  <2>1. bus[1].block > 0 /\ Len(rdata') = bus[1].block
    BY <1>4, <1>6, SMT DEF f
  <2> QED BY <1>2, <1>4, <1>5, <1>6, <2>1, HeadTaken DEF f
<1>8. Ordered'
  BY <1>2, <1>4, <1>5 DEF WholeInv, Ordered
<1>9. Gathered'
  <2>1. rdata'[1][1] \in taken' /\ Len(rdata') <= Blocks[f.msg]
    BY <1>2, <1>4, <1>6
  <2>2. \A i \in 1 .. Len(rdata') : rdata'[i] = <<f.msg, i>>
    BY <1>6
  <2>3. ASSUME NEW i \in Nat, Alone(i)'
        PROVE  /\ i = Len(tasks') /\ \A j \in 1 .. i - 1 : ~ tasks'[j].number.last
               /\ Len(rdata') = 1 /\ Blocks[rdata'[1][1]] = 1
    <3> DEFINE t == [msg |-> f.msg, number |-> f.number, acked |-> FALSE, new |-> ~ peer]
    <3>1. tasks \in Seq(TaskRecord) /\ tasks' \in Seq(TaskRecord) /\ t \in TaskRecord
      BY <1>2 DEF PeerTypes, TaskRecord
    <3>2. /\ Len(tasks) \in Nat /\ DOMAIN tasks = 1 .. Len(tasks)
          /\ DOMAIN tasks' = 1 .. Len(tasks) + 1 /\ tasks'[Len(tasks) + 1] = t
          /\ \A j \in 1 .. Len(tasks) : tasks'[j] = tasks[j]
      BY <1>4, <3>1, AppendIs
    <3>3. i \in 1 .. Len(tasks) + 1 /\ tasks'[i].number.last /\ tasks'[i].msg \notin met'
      BY <2>3, <3>2 DEF Alone
    <3>4. ASSUME NEW j \in 1 .. Len(tasks), tasks[j].number.last
          PROVE  /\ tasks[j].msg \in Overtaken
                 /\ met' = met \cup Overtaken \cup {f.msg}
      <4>1. tasks[j].msg \in Overtaken
        BY <3>2, <3>4 DEF Overtaken
      <4> QED BY <1>4, <4>1
    <3>5. i = Len(tasks) + 1
      <4>1. CASE i \in 1 .. Len(tasks)
        BY <3>2, <3>3, <3>4, <4>1
      <4>2. i \in 1 .. Len(tasks) \/ i = Len(tasks) + 1
        BY <3>2, <3>3, SMT
      <4> QED BY <4>1, <4>2
    <3>6. tasks'[i] = t /\ f.number.last /\ f.msg \notin met'
      BY <3>2, <3>3, <3>5
    <3>7. \A j \in 1 .. Len(tasks) : ~ tasks[j].number.last
      BY <3>4, <3>6
    <3>8. \A j \in 1 .. i - 1 : j \in 1 .. Len(tasks)
      BY <3>2, <3>5, SMT
    <3>9. \A j \in 1 .. i - 1 : ~ tasks'[j].number.last
      BY <3>2, <3>7, <3>8
    <3>10. Len(tasks') = i
      <4> HIDE DEF t
      <4>1. Len(tasks) + 1 \in Nat
        BY <3>2, SMT
      <4> QED BY <3>1, <3>2, <3>5, <4>1, LengthIs
    <3>11. Blocks[f.msg] = 1
      BY <1>2, <1>4, <3>6 DEF IsLast
    <3> QED BY <1>6, <3>9, <3>10, <3>11
  <2> QED BY <1>6, <2>1, <2>2, <2>3 DEF Gathered
<1>10. Newest' = Newest /\ NewestIsLast'
  BY <1>1, <1>5, NewestKept DEF WholeInv
<1>11. NothingOlder'
  BY <1>5, <1>7, <1>10, CountersAre DEF WholeInv, NothingOlder, Drifts
<1>12. ASSUME lock # NoMessage, lock \in taken', lock \notin taken
       PROVE  /\ ~ Generating
              /\ \A l \in DOMAIN order, b \in Nat, x \in At : Flow(l, b, x)' => l = Len(order)
  <2>1. k = Len(order)
    BY <1>3, <1>4, <1>12 DEF WholeInv, Ordered
  <2>2. Len(order) \in Nat /\ DOMAIN order = 1 .. Len(order)
    BY DEF PeerTypes
  <2>3. ASSUME NEW i \in Nat, Generator(i)
        PROVE  FALSE
    <3>1. Flow(k, f.block, f.number.at)
      BY <1>3 DEF Flow
    <3>2. k = Home
      BY <1>2, <2>3, <3>1 DEF WholeInv, ToSend, GoesOn
    <3> QED BY <1>12, <2>1, <2>2, <3>2, SMT DEF Home
  <2>4. ASSUME NEW l \in DOMAIN order, NEW b \in Nat, NEW x \in At, Flow(l, b, x)'
        PROVE  l = Len(order)
    <3>1. PICK j \in Nat : j >= 1 /\ Piece(j, l, b, x)
      BY <1>7, <2>4
    <3>2. CASE j = 1
      BY <1>3, <2>1, <3>1, <3>2, PlaceIs DEF WholeInv
    <3>3. CASE j # 1
      <4>1. 1 < j /\ 1 \in Nat
        BY <3>1, <3>3, SMT
      <4>2. Ahead(k, f.block, f.number.at, l, b, x)
        BY <1>3, <3>1, <4>1 DEF Ahead
      <4>3. k = l \/ k < l
        BY <1>2, <4>2 DEF WholeInv, InLine, InFront
      <4> QED BY <2>1, <2>2, <4>3, SMT
    <3> QED BY <3>2, <3>3
  <2> QED BY <2>3, <2>4 DEF Generating
<1>13. \A i \in Nat : Generator(i) => Newest' <= Home
  BY <1>10 DEF WholeInv, ToSend
<1>14. /\ faults <= faults'
       /\ \A i \in Nat : Generator(i)' => Generator(i) /\ jobs'[i] = jobs[i]
       /\ \A i \in DOMAIN bus' : bus'[i].block > 0 => \E h \in DOMAIN bus : bus'[i] = bus[h]
  <2>1. faults <= faults'
    BY <1>5, CountersAre, SMT
  <2> QED BY <1>2, <1>5, <2>1 DEF Generator
<1> QED BY <1>5, <1>7, <1>8, <1>9, <1>10, <1>11, <1>12, <1>13, <1>14, DriftsKeeps

LEMMA DisconnectFrameWhole ==
  ASSUME PeerTypes, PeerTypes', WholeInv, DisconnectFrame
  PROVE  WholeInv'
<1>1. /\ bus # <<>> /\ bus' = Tail(bus) /\ UNCHANGED <<client, jobs, acks, faults>>
      /\ UNCHANGED <<rdata, rcounter, taken>>
      /\ got' \in {got, Append(got, Eof)}
      /\ tasks' = [i \in DOMAIN tasks |-> [tasks[i] EXCEPT !.number.last = FALSE]]
  BY DEF DisconnectFrame, Incoming
<1>2. UNCHANGED <<phase, order, lock, tries, frame, scounter, jobs, full>> /\ UNCHANGED faults
  BY <1>1 DEF client
<1>3. \A i \in Nat : ~ Alone(i)'
  <2> SUFFICES ASSUME NEW i \in DOMAIN tasks PROVE ~ tasks'[i].number.last
    BY <1>1 DEF Alone
  <2>1. tasks[i] \in TaskRecord
    BY DEF PeerTypes
  <2>2. tasks[i].number \in Number
    BY <2>1 DEF TaskRecord
  <2> QED BY <1>1, <2>1, <2>2 DEF TaskRecord, Number
<1>4. Drifts
  BY <1>1, <1>2, HeadGone
<1>5. Ordered' /\ Gathered'
  BY <1>1, <1>2, <1>3 DEF WholeInv, Ordered, Gathered
<1>6. Newest' = Newest /\ NewestIsLast'
  BY <1>1, <1>2, NewestKept DEF WholeInv
<1>7. NothingOlder'
  BY <1>2, <1>4, <1>6, CountersAre DEF WholeInv, NothingOlder, Drifts
<1>8. \A i \in Nat : Generator(i) => Newest' <= Home
  BY <1>6 DEF WholeInv, ToSend
<1>9. /\ faults <= faults'
      /\ \A i \in Nat : Generator(i)' => Generator(i) /\ jobs'[i] = jobs[i]
  <2>1. faults <= faults'
    BY <1>2, CountersAre, SMT
  <2> QED BY <1>2, <2>1 DEF Generator
<1>10. \A i \in DOMAIN bus' : \E h \in DOMAIN bus : bus'[i] = bus[h]
  <2>1. bus' \in Seq(Frame)
    BY DEF PeerTypes
  <2>2. \A i \in DOMAIN bus' : i \in Nat
    BY <2>1
  <2> QED BY <1>1, <2>2, BusTail
<1> QED BY <1>1, <1>2, <1>4, <1>5, <1>6, <1>7, <1>8, <1>9, <1>10, DriftsKeeps

\* A task that is alone keeps what is gathered to itself: no frame that would
\* go on with it or break it off can be next.
LEMMA NoneAlone ==
  ASSUME PeerTypes, WholeInv, NextFrame, NEW i \in Nat, Alone(i)
  PROVE  FALSE
<1>1. Incoming /\ Head(bus).block > 1 /\ bus # <<>>
  BY DEF NextFrame, Incoming
<1>2. Head(bus).block > 0
  <2>1. Head(bus).block \in Nat
    BY <1>1, BusTail DEF Incoming, Frame
  <2> QED BY <1>1, <2>1, SMT
<1>3. /\ Head(bus) = bus[1] /\ bus[1].msg \in Message /\ bus[1].block \in Nat
      /\ bus[1].number.at \in At /\ bus[1].block <= Blocks[bus[1].msg]
  BY <1>1, <1>2, HeadIs
<1>4. PICK k \in DOMAIN order : /\ bus[1].msg = order[k]
                                /\ Piece(1, k, bus[1].block, bus[1].number.at)
  BY <1>1, <1>2, HeadIs
<1>5. Len(rdata) = 1 /\ Blocks[rdata[1][1]] = 1
  BY DEF WholeInv, Gathered
<1>6. rdata # <<>> /\ 0 \in Nat /\ 1 \in Nat /\ 0 < 1
  BY <1>5, SMT
<1>7. PICK l \in DOMAIN order : Piece(0, l, BlockAt(0), CountAt(0))
  BY <1>6, PieceIs DEF WholeInv, Held
<1>8. BlockAt(0) \in Nat /\ CountAt(0) \in At
  BY <1>6, PieceIs DEF WholeInv, Held
<1>9. Ahead(l, BlockAt(0), CountAt(0), k, bus[1].block, bus[1].number.at)
  BY <1>4, <1>6, <1>7 DEF Ahead
<1>10. bus[1].block # 1
  BY <1>1, <1>3, SMT
<1>11. l = k
  BY <1>3, <1>8, <1>9, <1>10 DEF WholeInv, InLine, InFront
<1>12. order[l] = rdata[1][1]
  BY <1>7 DEF Piece, MsgAt
<1>13. bus[1].block <= 1
  BY <1>3, <1>4, <1>5, <1>11, <1>12
<1> QED BY <1>1, <1>3, <1>13, SMT

\* A frame that does not go on with what is gathered.
LEMMA FrameOutWhole ==
  ASSUME PeerTypes, PeerTypes', WholeInv, NextFrame, UNCHANGED got,
         UNCHANGED <<rdata, rcounter>> \/ rdata' = <<>>
  PROVE  WholeInv'
<1>1. /\ bus # <<>> /\ bus' = Tail(bus) /\ UNCHANGED <<client, jobs, acks, faults>>
      /\ UNCHANGED <<tasks, taken, met>>
  BY DEF NextFrame, Incoming
<1>2. UNCHANGED <<phase, order, lock, tries, frame, scounter, jobs, full>> /\ UNCHANGED faults
  BY <1>1 DEF client
<1>3. Drifts
  BY <1>1, <1>2, HeadGone
<1>4. Ordered'
  BY <1>1, <1>2 DEF WholeInv, Ordered
<1>5. Gathered'
  <2>1. \A i \in Nat : ~ Alone(i)'
    BY <1>1, NoneAlone DEF Alone
  <2>2. CASE UNCHANGED <<rdata, rcounter>>
    BY <1>1, <2>1, <2>2 DEF WholeInv, Gathered
  <2>3. CASE rdata' = <<>>
    BY <1>1, <2>1, <2>3 DEF Gathered
  <2> QED BY <2>2, <2>3
<1>6. Newest' = Newest /\ NewestIsLast'
  BY <1>1, <1>2, NewestKept DEF WholeInv
<1>7. NothingOlder'
  BY <1>2, <1>3, <1>6, CountersAre DEF WholeInv, NothingOlder, Drifts
<1>8. \A i \in Nat : Generator(i) => Newest' <= Home
  BY <1>6 DEF WholeInv, ToSend
<1>9. /\ faults <= faults'
      /\ \A i \in Nat : Generator(i)' => Generator(i) /\ jobs'[i] = jobs[i]
  <2>1. faults <= faults'
    BY <1>2, CountersAre, SMT
  <2> QED BY <1>2, <2>1 DEF Generator
<1>10. \A i \in DOMAIN bus' : \E h \in DOMAIN bus : bus'[i] = bus[h]
  <2>1. bus' \in Seq(Frame)
    BY DEF PeerTypes
  <2>2. \A i \in DOMAIN bus' : i \in Nat
    BY <2>1
  <2> QED BY <1>1, <2>2, BusTail
<1> QED BY <1>1, <1>2, <1>3, <1>4, <1>5, <1>6, <1>7, <1>8, <1>9, <1>10, DriftsKeeps

\* A frame with the next counter is the next block of what is gathered.
LEMMA GoesOnWhole ==
  ASSUME PeerTypes, WholeInv, rdata # <<>>, NEW f \in Frame, NEW k \in DOMAIN order,
         f.block > 1, f.block <= Blocks[f.msg], Follows(f.number), f.number.at \in At,
         Piece(1, k, f.block, f.number.at)
  PROVE  /\ f.block = Len(rdata) + 1 /\ rdata[1][1] = order[k]
<1> DEFINE n == Len(rdata)
           x == rcounter.at
           b == f.block
<1>1. Held(0) /\ 0 \in Nat /\ BlockAt(0) = n /\ CountAt(0) = x /\ MsgAt(0) = rdata[1][1]
  BY DEF Held, BlockAt, CountAt, MsgAt
<1>2. n \in Nat /\ n >= 1 /\ x \in At /\ \E l \in DOMAIN order : Piece(0, l, n, x)
  BY <1>1, PieceIs DEF WholeInv
<1> HIDE DEF n, x
<1>3. PICK l \in DOMAIN order : Piece(0, l, n, x)
  BY <1>2
<1>4. b \in Nat /\ f.msg \in Message
  BY DEF Frame
<1>5. Ahead(l, n, x, k, b, f.number.at)
  <2>1. 0 < 1 /\ 1 \in Nat
    BY SMT
  <2> QED BY <1>1, <1>3, <2>1 DEF Ahead
<1>6. InFront(l, n, x, k, b, f.number.at)
  BY <1>2, <1>4, <1>5 DEF WholeInv, InLine
<1>7. ~ b = 1
  BY SMT
<1>8. l = k /\ n < b /\ Counts(x, f.number.at, b - n)
  BY <1>6, <1>7 DEF InFront
<1>9. f.number.at = Shift(x, 1)
  BY DEF Follows, Shift, x
<1>10. Blocks[f.msg] \in 1 .. Modulus - 1 /\ Modulus \in Nat /\ Modulus > 1
  BY <1>4, BlocksAre, CanPeerAssumption
<1>11. /\ 1 \in 0 .. Modulus - 1 /\ b - n \in 0 .. Modulus - 1 /\ b - n + 1 \in 0 .. Modulus - 1
  BY <1>2, <1>4, <1>8, <1>10, SMT
<1>12. b - n = 1 \/ b - n + 1 = 1
  BY <1>2, <1>8, <1>9, <1>11, ShiftDiffers DEF Counts
<1>13. b = n + 1
  BY <1>2, <1>4, <1>8, <1>12, SMT
<1>14. rdata[1][1] = order[k]
  BY <1>1, <1>3, <1>8 DEF Piece
<1> QED BY <1>13, <1>14 DEF n

\* What a further frame does to what is gathered.
Gathers(data, k) ==
  /\ k \in DOMAIN order /\ order[k] = bus[1].msg
  /\ Piece(1, k, bus[1].block, bus[1].number.at)
  /\ data \in Seq(Block) /\ data # <<>> /\ Len(data) = bus[1].block /\ data[1][1] = order[k]
  /\ \A i \in 1 .. Len(data) : data[i] = <<order[k], i>>
  /\ rdata # <<>> /\ rdata[1][1] = order[k] /\ rcounter' = bus[1].number
  /\ \/ rdata' = data /\ UNCHANGED got
     \/ rdata' = <<>> /\ got' = Append(got, data) /\ Len(data) = Blocks[order[k]]

LEMMA NextFrameGets ==
  ASSUME PeerTypes, WholeInv, NextFrame
  PROVE  \/ UNCHANGED got /\ (UNCHANGED <<rdata, rcounter>> \/ rdata' = <<>>)
         \/ \E data, k : Gathers(data, k)
<1> DEFINE f == bus[1]
           data == Append(rdata, <<f.msg, f.block>>)
<1>1. /\ Incoming /\ Head(bus).block > 1 /\ Head(bus).block > 0
      /\ UNCHANGED <<tasks, taken>>
  <2>1. Incoming /\ Head(bus).block > 1 /\ UNCHANGED <<tasks, taken>>
    BY DEF NextFrame
  <2>2. bus # <<>> /\ bus \in Seq(Frame)
    BY <2>1 DEF Incoming, PeerTypes
  <2>3. Head(bus) \in Frame
    BY <2>2, TailIs
  <2>4. Head(bus).block \in Nat
    BY <2>3 DEF Frame
  <2>5. Head(bus).block > 0
    BY <2>1, <2>4, SMT
  <2> QED BY <2>1, <2>2, <2>5
<1>2. /\ bus # <<>> /\ bus' = Tail(bus) /\ UNCHANGED <<client, jobs, acks, faults>>
      /\ Head(bus) = f /\ f \in Frame /\ f.msg \in Message /\ f.block \in Nat
      /\ f.number.at \in At /\ f.number \in Number
      /\ f.number.last = IsLast(f.msg, f.block) /\ f.block <= Blocks[f.msg]
  BY <1>1, HeadIs
<1>3. PICK k \in DOMAIN order : /\ k >= Home /\ f.msg = order[k]
                                /\ Piece(1, k, f.block, f.number.at)
  BY <1>1, HeadIs
<1>5. \/ UNCHANGED got /\ (UNCHANGED <<rdata, rcounter>> \/ rdata' = <<>>)
      \/ /\ rdata # <<>> /\ Follows(f.number) /\ rcounter' = f.number
         /\ rdata' = IF f.number.last THEN <<>> ELSE data
         /\ got' = IF f.number.last THEN Append(got, data) ELSE got
  BY <1>2 DEF NextFrame
<1>6. SUFFICES ASSUME rdata # <<>>, Follows(f.number), rcounter' = f.number,
                      rdata' = IF f.number.last THEN <<>> ELSE data,
                      got' = IF f.number.last THEN Append(got, data) ELSE got
               PROVE  Gathers(data, k)
  BY <1>5
<1>7. f.block = Len(rdata) + 1 /\ rdata[1][1] = f.msg
  <2>1. f.block > 1
    BY <1>1, <1>2
  <2> QED BY <1>2, <1>3, <1>6, <2>1, GoesOnWhole
<1>8. /\ data \in Seq(Block) /\ data # <<>> /\ Len(data) = f.block /\ data[1][1] = f.msg
      /\ \A i \in 1 .. Len(data) : data[i] = <<f.msg, i>>
  <2>1. rdata \in Seq(Block) /\ <<f.msg, f.block>> \in Block
    BY <1>2 DEF PeerTypes, Block
  <2>2. /\ data \in Seq(Block) /\ Len(rdata) \in Nat /\ DOMAIN rdata = 1 .. Len(rdata)
        /\ DOMAIN data = 1 .. Len(rdata) + 1 /\ data[Len(rdata) + 1] = <<f.msg, f.block>>
        /\ \A i \in 1 .. Len(rdata) : data[i] = rdata[i]
    BY <2>1, AppendIs
  <2>3. \A i \in 1 .. Len(rdata) : rdata[i] = <<f.msg, i>>
    BY <1>6, <1>7 DEF WholeInv, Gathered
  <2> HIDE DEF data
  <2>4. Len(data) = Len(rdata) + 1 /\ data # <<>>
    BY <2>2, SMT
  <2>5. \A i \in 1 .. Len(rdata) + 1 : i \in 1 .. Len(rdata) \/ i = Len(rdata) + 1
    BY <2>2, SMT
  <2>6. \A i \in 1 .. Len(data) : data[i] = <<f.msg, i>>
    BY <1>7, <2>2, <2>3, <2>4, <2>5
  <2>7. 1 \in 1 .. Len(data)
    BY <2>2, <2>4, SMT
  <2>8. data[1] = <<f.msg, 1>>
    BY <2>6, <2>7
  <2> QED BY <1>7, <2>2, <2>4, <2>6, <2>8
<1> HIDE DEF data
<1>9. f.number.last => f.block = Blocks[f.msg]
  <2>1. ~ f.block = 1
    BY <1>1, <1>2, SMT
  <2> HIDE DEF f
  <2> QED BY <1>2, <2>1 DEF IsLast
<1>10. \/ rdata' = data /\ UNCHANGED got
       \/ rdata' = <<>> /\ got' = Append(got, data) /\ Len(data) = Blocks[f.msg]
  BY <1>6, <1>8, <1>9
<1> QED BY <1>3, <1>6, <1>7, <1>8, <1>10 DEF Gathers

LEMMA NextFrameWhole ==
  ASSUME PeerTypes, PeerTypes', WholeInv, NextFrame
  PROVE  WholeInv'
<1> DEFINE f == bus[1]
<1>1. SUFFICES ASSUME NEW data, NEW k, Gathers(data, k)
               PROVE  WholeInv'
  BY NextFrameGets, FrameOutWhole
<1>2. /\ k \in DOMAIN order /\ order[k] = f.msg /\ Piece(1, k, f.block, f.number.at)
      /\ data \in Seq(Block) /\ data # <<>> /\ Len(data) = f.block /\ data[1][1] = order[k]
      /\ \A i \in 1 .. Len(data) : data[i] = <<order[k], i>>
      /\ rdata # <<>> /\ rdata[1][1] = order[k] /\ rcounter' = f.number
      /\ \/ rdata' = data /\ UNCHANGED got
         \/ rdata' = <<>> /\ got' = Append(got, data) /\ Len(data) = Blocks[order[k]]
  BY <1>1 DEF Gathers
<1>3. Incoming /\ Head(bus).block > 0 /\ UNCHANGED <<tasks, taken>> /\ \A i \in Nat : ~ Alone(i)'
  <2>1. Incoming /\ Head(bus).block > 1 /\ UNCHANGED <<tasks, taken, met>>
    BY DEF NextFrame
  <2>6. \A i \in Nat : ~ Alone(i)'
    BY <2>1, NoneAlone DEF Alone
  <2>2. bus # <<>> /\ bus \in Seq(Frame)
    BY <2>1 DEF Incoming, PeerTypes
  <2>3. Head(bus) \in Frame
    BY <2>2, TailIs
  <2>4. Head(bus).block \in Nat
    BY <2>3 DEF Frame
  <2>5. Head(bus).block > 0
    BY <2>1, <2>4, SMT
  <2> QED BY <2>1, <2>2, <2>5, <2>6
<1>4. /\ bus # <<>> /\ bus' = Tail(bus) /\ UNCHANGED <<client, jobs, acks, faults>>
      /\ Head(bus) = f /\ f.block \in Nat /\ f.number.at \in At /\ f.block <= Blocks[f.msg]
      /\ \A i \in DOMAIN bus' : \E h \in DOMAIN bus : bus'[i] = bus[h]
  BY <1>3, HeadIs
<1>5. UNCHANGED <<phase, order, lock, tries, frame, scounter, jobs, full>> /\ UNCHANGED faults
  BY <1>4 DEF client
<1> HIDE DEF f
<1>6. Ordered'
  BY <1>3, <1>5 DEF WholeInv, Ordered
<1>7. /\ Gathered' /\ Drifts /\ NewestIsLast' /\ NothingOlder'
      /\ \A i \in Nat : Generator(i) => Newest' <= Home
  <2>1. CASE rdata' = <<>> /\ got' = Append(got, data) /\ Len(data) = Blocks[order[k]]
    <3>1. Gathered'
      BY <1>3, <2>1 DEF Gathered
    <3>2. Drifts /\ \A l, b, x : Flow(l, b, x)' => \E j \in Nat : j > 1 /\ Piece(j, l, b, x)
      BY <1>4, <1>5, <2>1, HeadGone
    <3>3. 1 \in Nat
      OBVIOUS
    <3>4. /\ NewestIsLast' /\ NothingOlder'
          /\ \A i \in Nat : Generator(i) => Newest' <= Home
      BY <1>2, <1>4, <1>5, <2>1, <3>2, <3>3, ReceivedWhole
    <3> QED BY <3>1, <3>2, <3>4
  <2>2. CASE rdata' = data /\ UNCHANGED got
    <3>1. Gathered'
      <4>1. rdata'[1][1] = f.msg /\ Len(rdata') = f.block
            /\ \A i \in 1 .. Len(rdata') : rdata'[i] = <<f.msg, i>>
        BY <1>2, <2>2
      <4>2. f.msg \in taken'
        BY <1>2, <1>3 DEF WholeInv, Gathered
      <4> QED BY <1>3, <1>4, <4>1, <4>2 DEF Gathered
    <3>2. Drifts
      <4>1. /\ bus[1].block > 0 /\ rdata' # <<>> /\ rdata'[1][1] = bus[1].msg
            /\ Len(rdata') = bus[1].block /\ rcounter' = bus[1].number
        BY <1>2, <1>3, <1>4, <2>2 DEF f
      <4> QED BY <1>4, <1>5, <4>1, HeadTaken
    <3>3. Newest' = Newest /\ NewestIsLast'
      BY <1>5, <2>2, NewestKept DEF WholeInv
    <3>4. NothingOlder'
      BY <1>5, <3>2, <3>3, CountersAre DEF WholeInv, NothingOlder, Drifts
    <3>5. \A i \in Nat : Generator(i) => Newest' <= Home
      BY <3>3 DEF WholeInv, ToSend
    <3> QED BY <3>1, <3>2, <3>3, <3>4, <3>5
  <2> QED BY <1>2, <2>1, <2>2
<1>8. /\ faults <= faults'
      /\ \A i \in Nat : Generator(i)' => Generator(i) /\ jobs'[i] = jobs[i]
      /\ \A i \in DOMAIN bus' : bus'[i].block > 0 => \E h \in DOMAIN bus : bus'[i] = bus[h]
  <2>1. faults <= faults'
    BY <1>5, CountersAre, SMT
  <2> QED BY <1>4, <1>5, <2>1 DEF Generator
<1> QED BY <1>3, <1>5, <1>6, <1>7, <1>8, DriftsKeeps

-----------------------------------------------------------------------------
(* The client's steps *)

LEMMA OrderIs ==
  ASSUME PeerTypes
  PROVE  /\ order \in Seq(Message) /\ Len(order) \in Nat /\ DOMAIN order = 1 .. Len(order)
         /\ \A k \in DOMAIN order : k \in Nat /\ k >= 1 /\ k <= Len(order)
<1>1. order \in Seq(Message)
  BY DEF PeerTypes
<1>2. Len(order) \in Nat /\ DOMAIN order = 1 .. Len(order)
  BY <1>1
<1> QED BY <1>1, <1>2, SMT

LEMMA NewestBelow ==
  ASSUME PeerTypes, NewestIsLast
  PROVE  Newest <= Len(order) /\ Newest \in Nat
BY OrderIs, SMT DEF NewestIsLast

LEMMA OrderedKept ==
  ASSUME PeerTypes, Ordered, UNCHANGED <<order, taken>>,
         \A m \in Message : phase'[m] = "idle" <=> phase[m] = "idle",
         lock' = lock \/ lock' = NoMessage
  PROVE  Ordered'
<1>1. taken \subseteq Message
  BY DEF PeerTypes
<1> QED BY <1>1 DEF Ordered

\* A generator works for a message of fewer blocks than there are counters.
LEMMA GeneratorIs ==
  ASSUME PeerTypes, AckInv, NEW i \in Nat, Generator(i)
  PROVE  /\ jobs[i].block \in Nat /\ jobs[i].block <= Modulus - 1 /\ jobs[i].block > 1
         /\ jobs[i].msg \in Message /\ jobs[i].block <= Blocks[jobs[i].msg]
<1>1. jobs[i].block \in Nat /\ jobs[i].msg \in Message
  BY LeftType
<1>2. jobs[i].block <= Blocks[jobs[i].msg] /\ jobs[i].block > 1
  BY DEF AckInv, Executing, Generator
<1>3. Blocks[jobs[i].msg] \in 1 .. Modulus - 1 /\ Modulus \in Nat
  BY <1>1, BlocksAre, CanPeerAssumption
<1> QED BY <1>1, <1>2, <1>3, SMT

\* The next frame has the counter after that of the latest one.
LEMMA CountsOn ==
  ASSUME NEW x \in At, NEW y, NEW z, NEW b \in Nat, NEW c \in Nat, b < c, c <= Modulus - 1,
         z = Shift(y, 1)
  PROVE  /\ Shift(x, c - b - 1) = y => Shift(x, c - b) = z
         /\ Shift(x, c - b) = y => Shift(x, c - b + 1) = z
<1>1. Modulus \in Nat
  BY CanPeerAssumption
<1>2. /\ c - b - 1 \in 0 .. Modulus - 1 /\ c - b \in 0 .. Modulus - 1
      /\ c - b - 1 + 1 = c - b
  BY <1>1, SMT
<1>3. Shift(Shift(x, c - b - 1), 1) = Shift(x, c - b)
  BY <1>2, ShiftOnce
<1>4. Shift(Shift(x, c - b), 1) = Shift(x, c - b + 1)
  BY <1>2, ShiftOnce
<1> QED BY <1>3, <1>4

\* With a message more in order, what is under way is as before.
LEMMA FlowOfOld ==
  ASSUME PeerTypes, PeerTypes', WholeInv, NEW m \in Message, order' = Append(order, m),
         \A i \in DOMAIN order : order[i] # m, UNCHANGED <<bus, rdata, rcounter>>
  PROVE  /\ \A k \in DOMAIN order : k \in DOMAIN order' /\ order'[k] = order[k]
         /\ \A k \in DOMAIN order' : k \in DOMAIN order \/ k = Len(order) + 1
         /\ Len(order') = Len(order) + 1 /\ order'[Len(order) + 1] = m
         /\ Len(order) + 1 \in DOMAIN order'
         /\ \A k \in DOMAIN order' : \A b, x : Flow(k, b, x)' => k \in DOMAIN order /\ Flow(k, b, x)
         /\ \A k, l \in DOMAIN order' : \A b, c, x, y : Ahead(k, b, x, l, c, y)' =>
              k \in DOMAIN order /\ l \in DOMAIN order /\ Ahead(k, b, x, l, c, y)
<1>1. /\ order \in Seq(Message) /\ Len(order) \in Nat /\ DOMAIN order = 1 .. Len(order)
  BY OrderIs
<1>2. /\ order' \in Seq(Message) /\ DOMAIN order' = 1 .. Len(order) + 1
      /\ \A k \in 1 .. Len(order) : order'[k] = order[k]
      /\ order'[Len(order) + 1] = m
  BY <1>1, AppendIs
<1>3. /\ \A k \in DOMAIN order : k \in DOMAIN order' /\ order'[k] = order[k]
      /\ \A k \in DOMAIN order' : k \in DOMAIN order \/ k = Len(order) + 1
      /\ Len(order') = Len(order) + 1 /\ Len(order) + 1 \in DOMAIN order'
  BY <1>1, <1>2, SMT
<1>4. ASSUME NEW i \in Nat, NEW k \in DOMAIN order', NEW b, NEW x, Piece(i, k, b, x)'
      PROVE  k \in DOMAIN order /\ Piece(i, k, b, x)
  <2>1. Held(i)' /\ MsgAt(i)' = order'[k] /\ BlockAt(i)' = b /\ CountAt(i)' = x
    BY <1>4 DEF Piece
  <2>2. Held(i) /\ MsgAt(i) = order'[k] /\ BlockAt(i) = b /\ CountAt(i) = x
    BY <2>1 DEF Held, MsgAt, BlockAt, CountAt
  <2>3. PICK l \in DOMAIN order : Piece(i, l, BlockAt(i), CountAt(i))
    BY <2>2, PieceIs DEF WholeInv
  <2>4. order[l] = order'[k]
    BY <2>2, <2>3 DEF Piece
  <2>5. k \in DOMAIN order
    BY <1>2, <1>3, <2>4
  <2> QED BY <1>3, <2>2, <2>5 DEF Piece
<1>5. \A k \in DOMAIN order' : \A b, x : Flow(k, b, x)' => k \in DOMAIN order /\ Flow(k, b, x)
  BY <1>4 DEF Flow
<1>6. ASSUME NEW k \in DOMAIN order', NEW l \in DOMAIN order', NEW b, NEW c, NEW x, NEW y,
             Ahead(k, b, x, l, c, y)'
      PROVE  k \in DOMAIN order /\ l \in DOMAIN order /\ Ahead(k, b, x, l, c, y)
  <2>1. PICK i, j \in Nat : i < j /\ Piece(i, k, b, x)' /\ Piece(j, l, c, y)'
    BY <1>6 DEF Ahead
  <2> QED BY <1>4, <2>1 DEF Ahead
<1> QED BY <1>2, <1>3, <1>5, <1>6

LEMMA SendWhole ==
  ASSUME PeerTypes, PeerTypes', AckInv, WholeInv, NEW m \in Message, Send(m)
  PROVE  WholeInv'
<1> DEFINE j == [msg |-> m, block |-> 1, number |-> frame']
           N == Len(order)
<1>1. /\ phase[m] = "idle" /\ lock = NoMessage /\ lock' = m /\ m # NoMessage /\ tries' = 1
      /\ phase' = [phase EXCEPT ![m] = "sending"] /\ phase \in [Message -> Phase]
      /\ scounter' = Numbered(IsLast(m, 1)) /\ frame' = scounter'
      /\ jobs' = Append(jobs, j) /\ order' = Append(order, m)
      /\ UNCHANGED <<bus, rdata, rcounter, tasks, taken, got, faults, full, met>>
  BY CanPeerAssumption DEF Send, server, PeerTypes
<1>2. \A i \in DOMAIN order : order[i] # m
  BY <1>1 DEF WholeInv, Ordered
<1>3. /\ \A k \in DOMAIN order : k \in DOMAIN order' /\ order'[k] = order[k]
      /\ \A k \in DOMAIN order' : k \in DOMAIN order \/ k = N + 1
      /\ Len(order') = N + 1 /\ order'[N + 1] = m /\ N + 1 \in DOMAIN order'
  BY <1>1, <1>2, FlowOfOld
<1>4. /\ \A k \in DOMAIN order' : \A b, x : Flow(k, b, x)' => k \in DOMAIN order /\ Flow(k, b, x)
      /\ \A k, l \in DOMAIN order' : \A b, c, x, y : Ahead(k, b, x, l, c, y)' =>
           k \in DOMAIN order /\ l \in DOMAIN order /\ Ahead(k, b, x, l, c, y)
  BY <1>1, <1>2, FlowOfOld
<1>5. N \in Nat /\ \A k \in DOMAIN order : k \in Nat /\ k <= N
  BY OrderIs
<1>6. Home' = Home /\ Home = N
  <2>1. Home = N
    BY <1>1 DEF Home
  <2>2. Home' = N + 1 - 1
    BY <1>1, <1>3 DEF Home
  <2> HIDE DEF N
  <2> QED BY <1>5, <2>1, <2>2, SMT
<1>7. /\ scounter.at \in At /\ scounter'.at = Shift(scounter.at, 1)
      /\ frame'.last = IsLast(m, 1)
  <2>1. IsLast(m, 1) \in BOOLEAN /\ scounter \in Number
    BY IsLastType DEF PeerTypes
  <2>2. scounter' \in Number /\ scounter'.at = Shift(scounter.at, 1)
    BY <1>1, <2>1, NextNumber
  <2>3. frame'.last = IsLast(m, 1)
    BY <1>1 DEF Numbered
  <2> QED BY <2>2, <2>3, CountersAre
<1>8. \A i \in Nat : Generator(i)' => Generator(i) /\ jobs'[i] = jobs[i]
  <2>1. frame' \in Number /\ 1 \in Nat
    BY DEF PeerTypes
  <2>2. j \in Frame /\ j.block = 1
    BY <2>1, JobType
  <2> HIDE DEF j
  <2>3. \A i \in Nat : i \in DOMAIN jobs' => (i \in DOMAIN jobs /\ jobs'[i] = jobs[i]) \/ jobs'[i] = j
    BY <1>1, <2>2, JobAdded
  <2>4. ~ 1 > 1
    OBVIOUS
  <2> QED BY <2>2, <2>3, <2>4 DEF Generator
<1> HIDE DEF j, N
<1>9. Ordered'
  <2>1. \A i, l \in DOMAIN order' : order'[i] = order'[l] => i = l
    BY <1>2, <1>3 DEF WholeInv, Ordered
  <2>2. \A n \in Message : phase'[n] = "idle" <=> \A i \in DOMAIN order' : order'[i] # n
    <3> SUFFICES ASSUME NEW n \in Message
                 PROVE  phase'[n] = "idle" <=> \A i \in DOMAIN order' : order'[i] # n
      OBVIOUS
    <3>1. CASE n = m
      BY <1>1, <1>3, <3>1
    <3>2. CASE n # m
      <4>1. phase'[n] = phase[n]
        BY <1>1, <3>2
      <4>2. (\A i \in DOMAIN order' : order'[i] # n) <=> \A i \in DOMAIN order : order[i] # n
        BY <1>3, <3>2
      <4> QED BY <4>1, <4>2 DEF WholeInv, Ordered
    <3> QED BY <3>1, <3>2
  <2>3. \A n \in taken : phase'[n] # "idle"
    <3>1. \A n \in taken : n \in Message /\ phase[n] # "idle"
      BY DEF PeerTypes, WholeInv, Ordered
    <3> QED BY <1>1, <3>1
  <2> QED BY <1>1, <1>3, <2>1, <2>2, <2>3 DEF Ordered
<1>10. Framed'
  <2>1. \A n, b : IsLast(n, b)' = IsLast(n, b)
    BY <1>1, IsLastKept
  <2> QED BY <1>1, <1>7, <2>1 DEF WholeInv, Framed
<1>11. Gathered'
  BY <1>1, GatheredKept DEF WholeInv
<1>12. Streaming'
  BY <1>1, <1>3, <1>6 DEF WholeInv, Streaming
<1>13. InLine'
  BY <1>4 DEF WholeInv, InLine, InFront
<1>14. FirstOnly'
  <2>1. ~ N + 1 \in DOMAIN order
    BY <1>5, SMT
  <2> QED BY <1>3, <1>4, <2>1 DEF FirstOnly
<1>15. Newest' = Newest /\ NewestIsLast'
  BY <1>1, <1>9, NewestStays DEF WholeInv
<1>16. NothingOlder'
  BY <1>4, <1>15 DEF WholeInv, NothingOlder
<1>17. ToSend'
  <2> SUFFICES ASSUME NEW i \in Nat, Generator(i)'
               PROVE  /\ Home' \in DOMAIN order' /\ jobs'[i].msg = order'[Home'] /\ Newest' <= Home'
                      /\ \A k \in DOMAIN order', b \in Nat, x \in At :
                           Flow(k, b, x)' => GoesOn(jobs[i].block, k, b, x)'
    BY DEF ToSend
  <2>1. Generator(i) /\ jobs'[i] = jobs[i]
    BY <1>8
  <2>2. Home \in DOMAIN order /\ jobs[i].msg = order[Home] /\ Newest <= Home
    BY <2>1 DEF WholeInv, ToSend
  <2>3. ASSUME NEW k \in DOMAIN order', NEW b \in Nat, NEW x \in At, Flow(k, b, x)'
        PROVE  GoesOn(jobs[i].block, k, b, x)'
    <3>1. GoesOn(jobs[i].block, k, b, x)
      BY <1>4, <2>1, <2>3 DEF WholeInv, ToSend
    <3>2. k = Home /\ b < jobs[i].block /\ Shift(x, jobs[i].block - b - 1) = scounter.at
      BY <1>1, <3>1 DEF GoesOn
    <3>3. jobs[i].block \in Nat /\ jobs[i].block <= Modulus - 1
      BY <2>1, GeneratorIs
    <3>4. Shift(x, jobs[i].block - b) = scounter'.at
      <4>1. \A c \in Nat : \A y, z :
              /\ b < c /\ c <= Modulus - 1 /\ z = Shift(y, 1)
              /\ Shift(x, c - b - 1) = y
              => Shift(x, c - b) = z
        BY CountsOn
      <4> DEFINE c == jobs[i].block
      <4>2. c \in Nat /\ b < c /\ c <= Modulus - 1 /\ Shift(x, c - b - 1) = scounter.at
        BY <3>2, <3>3
      <4> HIDE DEF c
      <4>3. Shift(x, c - b) = scounter'.at
        BY <1>7, <4>1, <4>2
      <4> QED BY <4>3 DEF c
    <3> QED BY <1>1, <1>6, <2>1, <3>2, <3>4 DEF GoesOn
  <2> QED BY <1>3, <1>6, <1>15, <2>1, <2>2, <2>3
<1>18. Passed'
  <2>1. m \notin taken'
    BY <1>1 DEF WholeInv, Ordered
  <2>2. ~ tries' > faults' + 1
    BY <1>1, CountersAre, SMT
  <2> QED BY <1>1, <2>1, <2>2 DEF Passed
<1> QED BY <1>9, <1>10, <1>11, <1>12, <1>13, <1>14, <1>15, <1>16, <1>17, <1>18 DEF WholeInv

LEMMA AcknowledgedWhole ==
  ASSUME PeerTypes, PeerTypes', AckInv, WholeInv, NEW m \in Message, Acknowledged(m)
  PROVE  WholeInv'
<1> DEFINE j == [msg |-> m, block |-> 2, number |-> scounter]
           N == Len(order)
<1>1. /\ phase[m] = "waiting" /\ ack = "set" /\ phase' = [phase EXCEPT ![m] = "rest"]
      /\ lock' = NoMessage /\ phase \in [Message -> Phase]
      /\ UNCHANGED <<tries, frame, scounter, faults, order, taken, bus, rdata, rcounter, tasks, got, full, met>>
      /\ jobs' = jobs \/ jobs' = Append(jobs, j)
  BY DEF Acknowledged, server, PeerTypes
<1>2. m = lock /\ lock # NoMessage
  BY <1>1, CanPeerAssumption DEF AckInv, Locked
<1>3. scounter.at = frame.at /\ lock \in taken
  BY <1>1 DEF AckInv, Waits
<1>4. /\ N \in DOMAIN order /\ lock = order[N] /\ N \in Nat
      /\ Home' = N
  <2>1. N \in DOMAIN order /\ lock = order[N]
    BY <1>2 DEF WholeInv, Ordered
  <2> QED BY <1>1, <2>1, OrderIs DEF Home
<1>5. /\ ~ Generating
      /\ \A k \in DOMAIN order, b \in Nat, x \in At : Flow(k, b, x) => k = N
  BY <1>2, <1>3 DEF WholeInv, Passed
<1>6. /\ \A k, b, x : Flow(k, b, x)' <=> Flow(k, b, x)
      /\ \A k, b, x, l, c, y : Ahead(k, b, x, l, c, y)' <=> Ahead(k, b, x, l, c, y)
  BY <1>1, FlowKept
<1>7. \A i \in Nat : Generator(i)' => jobs'[i] = j
  <2>1. j \in Frame
    BY JobType DEF PeerTypes
  <2>2. jobs' = jobs => \A i \in Nat : ~ Generator(i)'
    BY <1>5 DEF Generating, Generator
  <2> HIDE DEF j
  <2>3. jobs' = Append(jobs, j) =>
          \A i \in Nat : i \in DOMAIN jobs' => (i \in DOMAIN jobs /\ jobs'[i] = jobs[i]) \/ jobs'[i] = j
    BY <2>1, JobAdded
  <2> QED BY <1>1, <1>5, <2>2, <2>3 DEF Generating, Generator
<1>8. j.msg = m /\ j.block = 2
  OBVIOUS
<1> HIDE DEF j, N
<1>9. Ordered'
  <2>1. \A n \in Message : phase'[n] = "idle" <=> phase[n] = "idle"
    BY <1>1
  <2> QED BY <1>1, <2>1, OrderedKept DEF WholeInv
<1>10. Framed' /\ Gathered' /\ FirstOnly' /\ Passed'
  <2>1. \A n, b : IsLast(n, b)' = IsLast(n, b)
    BY <1>1, IsLastKept
  <2> QED BY <1>1, <2>1, GatheredKept DEF WholeInv, Framed, FirstOnly, Passed
<1>11. Streaming'
  <2> SUFFICES ASSUME NEW i \in DOMAIN bus, bus[i].block > 0
               PROVE  bus[i].msg = order[N] /\ N >= N
    BY <1>1, <1>4 DEF Streaming
  <2>1. bus \in Seq(Frame)
    BY DEF PeerTypes
  <2>2. i \in Nat /\ i # 0
    BY <2>1, SMT
  <2>3. Held(i) /\ MsgAt(i) = bus[i].msg
    BY <2>2 DEF Held, MsgAt
  <2>4. PICK k \in DOMAIN order : Piece(i, k, BlockAt(i), CountAt(i))
    BY <2>2, <2>3, PieceIs DEF WholeInv
  <2>5. BlockAt(i) \in Nat /\ CountAt(i) \in At
    BY <2>2, <2>3, PieceIs DEF WholeInv
  <2>6. k = N
    BY <1>5, <2>2, <2>4, <2>5 DEF Flow
  <2> QED BY <1>4, <2>3, <2>4, <2>6, SMT DEF Piece
<1>12. InLine'
  BY <1>1, <1>6 DEF WholeInv, InLine, InFront
<1>13. Newest' = Newest /\ NewestIsLast'
  BY <1>1, NewestKept DEF WholeInv
<1>14. NothingOlder'
  BY <1>1, <1>6, <1>13 DEF WholeInv, NothingOlder
<1>15. ToSend'
  <2> SUFFICES ASSUME NEW i \in Nat, Generator(i)'
               PROVE  /\ N \in DOMAIN order' /\ jobs'[i].msg = order'[N] /\ Newest' <= N
                      /\ \A k \in DOMAIN order', b \in Nat, x \in At :
                           Flow(k, b, x)' => GoesOn(jobs[i].block, k, b, x)'
    BY <1>4 DEF ToSend
  <2>1. jobs'[i].msg = order[N] /\ jobs'[i].block = 2
    BY <1>2, <1>4, <1>7, <1>8
  <2>2. Newest <= N
    BY NewestBelow DEF WholeInv, N
  <2>3. ASSUME NEW k \in DOMAIN order, NEW b \in Nat, NEW x \in At, Flow(k, b, x)
        PROVE  k = N /\ b = 1 /\ x = frame.at
    BY <1>2, <1>5, <2>3 DEF WholeInv, FirstOnly, N
  <2>4. Shift(frame.at, 2 - 1 - 1) = scounter.at
    <3>1. 2 - 1 - 1 = 0
      BY SMT
    <3>2. Shift(frame.at, 0) = scounter.at
      BY <1>3, ShiftZero, CountersAre
    <3> QED BY <3>1, <3>2
  <2>5. 1 < 2
    OBVIOUS
  <2>6. ASSUME NEW k \in DOMAIN order', NEW b \in Nat, NEW x \in At, Flow(k, b, x)'
        PROVE  GoesOn(jobs[i].block, k, b, x)'
    <3>1. k = N /\ b = 1 /\ x = frame.at
      BY <1>1, <1>6, <2>3, <2>6
    <3> QED BY <1>1, <1>4, <2>1, <2>4, <2>5, <3>1 DEF GoesOn
  <2> QED BY <1>1, <1>4, <1>13, <2>1, <2>2, <2>6
<1> QED BY <1>9, <1>10, <1>11, <1>12, <1>13, <1>14, <1>15 DEF WholeInv

LEMMA RetryWhole ==
  ASSUME PeerTypes, PeerTypes', AckInv, WholeInv, NEW m \in Message, Retry(m)
  PROVE  WholeInv'
<1> DEFINE j == [msg |-> m, block |-> 1, number |-> frame]
<1>1. /\ phase[m] = "waiting" /\ phase' = [phase EXCEPT ![m] = "sending"]
      /\ tries' = tries + 1 /\ Due /\ jobs' = Append(jobs, j) /\ phase \in [Message -> Phase]
      /\ UNCHANGED <<lock, frame, scounter, order, taken, bus, rdata, rcounter, tasks, got, full, met>>
  BY DEF Retry, NextTry, server, PeerTypes
<1>2. m = lock /\ lock # NoMessage
  BY <1>1, CanPeerAssumption DEF AckInv, Locked
<1>3. ~ Generating
  <2>1. \A i \in Nat : ~ FirstJob(i)
    BY <1>1, <1>2, NoFirstJob
  <2> QED BY <1>2, <2>1 DEF AckInv, Executing
<1>4. \A i \in Nat : ~ Generator(i)'
  <2>1. frame \in Number /\ 1 \in Nat
    BY DEF PeerTypes
  <2>2. j \in Frame /\ j.block = 1
    BY <2>1, JobType
  <2> HIDE DEF j
  <2>3. \A i \in Nat : i \in DOMAIN jobs' => (i \in DOMAIN jobs /\ jobs'[i] = jobs[i]) \/ jobs'[i] = j
    BY <1>1, <2>2, JobAdded
  <2>4. ~ 1 > 1
    OBVIOUS
  <2> QED BY <1>3, <2>2, <2>3, <2>4 DEF Generating, Generator
<1> HIDE DEF j
<1>5. /\ \A k, b, x : Flow(k, b, x)' <=> Flow(k, b, x)
      /\ \A k, b, x, l, c, y : Ahead(k, b, x, l, c, y)' <=> Ahead(k, b, x, l, c, y)
  BY <1>1, FlowKept
<1>6. Home' = Home
  BY <1>1 DEF Home
<1>7. Ordered'
  <2>1. \A n \in Message : phase'[n] = "idle" <=> phase[n] = "idle"
    BY <1>1
  <2> QED BY <1>1, <2>1, OrderedKept DEF WholeInv
<1>8. Framed' /\ Gathered' /\ FirstOnly' /\ Streaming'
  <2>1. \A n, b : IsLast(n, b)' = IsLast(n, b)
    BY <1>1, IsLastKept
  <2>2. Framed' /\ Gathered'
    BY <1>1, <2>1, GatheredKept DEF WholeInv, Framed
  <2>3. FirstOnly' /\ Streaming'
    BY <1>1, <1>5, <1>6 DEF WholeInv, FirstOnly, Streaming
  <2> QED BY <2>2, <2>3
<1>9. InLine' /\ ToSend'
  <2>1. InLine'
    BY <1>1, <1>5 DEF WholeInv, InLine, InFront
  <2>2. ToSend'
    BY <1>4 DEF ToSend
  <2> QED BY <2>1, <2>2
<1>10. Newest' = Newest /\ NewestIsLast'
  BY <1>1, NewestKept DEF WholeInv
<1>11. NothingOlder'
  BY <1>1, <1>5, <1>10 DEF WholeInv, NothingOlder
<1>12. Passed'
  <2>1. ~ Generating'
    BY <1>4 DEF Generating
  <2>2. ASSUME tries' > faults' + 1
        PROVE  \A i \in DOMAIN bus : bus[i].block > 0 => bus[i].msg = lock
    <3>1. CASE Quiet
      BY <3>1 DEF Quiet
    <3>2. CASE ~ Quiet
      <4>1. faults' = faults + 1
        BY <1>1, <3>2 DEF Due, Fault
      <4>2. tries > faults + 1
        BY <1>1, <2>2, <4>1, CountersAre, SMT
      <4> QED BY <1>2, <4>2 DEF WholeInv, Passed
    <3> QED BY <3>1, <3>2
  <2>3. lock \in taken =>
          \A k \in DOMAIN order, b \in Nat, x \in At : Flow(k, b, x) => k = Len(order)
    BY <1>2 DEF WholeInv, Passed
  <2> QED BY <1>1, <1>5, <2>1, <2>2, <2>3 DEF Passed
<1> QED BY <1>7, <1>8, <1>9, <1>10, <1>11, <1>12 DEF WholeInv

LEMMA GiveUpWhole ==
  ASSUME MaxFaults < Tries, PeerTypes, PeerTypes', AckInv, WholeInv, NEW m \in Message, GiveUp(m)
  PROVE  WholeInv'
<1> DEFINE N == Len(order)
<1>1. /\ phase[m] = "waiting" /\ phase' = [phase EXCEPT ![m] = "failed"]
      /\ lock' = NoMessage /\ tries = Tries /\ Due /\ phase \in [Message -> Phase]
      /\ UNCHANGED <<tries, frame, scounter, order, jobs, taken, bus, rdata, rcounter, tasks, got, full, met>>
  BY DEF GiveUp, server, PeerTypes
<1>2. m = lock /\ lock # NoMessage
  BY <1>1, CanPeerAssumption DEF AckInv, Locked
<1>3. \A i \in Nat : ~ Generator(i)'
  <2>1. \A i \in Nat : ~ FirstJob(i)
    BY <1>1, <1>2, NoFirstJob
  <2> QED BY <1>1, <1>2, <2>1 DEF AckInv, Executing, Generating, Generator
<1>4. /\ \A k, b, x : Flow(k, b, x)' <=> Flow(k, b, x)
      /\ \A k, b, x, l, c, y : Ahead(k, b, x, l, c, y)' <=> Ahead(k, b, x, l, c, y)
  BY <1>1, FlowKept
<1>5. N \in DOMAIN order /\ lock = order[N] /\ Home' = N /\ N >= N
  <2>1. N \in DOMAIN order /\ lock = order[N]
    BY <1>2 DEF WholeInv, Ordered
  <2>2. N \in Nat
    BY OrderIs
  <2>3. Home' = N
    BY <1>1 DEF Home
  <2> HIDE DEF N
  <2> QED BY <2>1, <2>2, <2>3, SMT
<1> HIDE DEF N
<1>6. Ordered'
  <2>1. \A n \in Message : phase'[n] = "idle" <=> phase[n] = "idle"
    BY <1>1
  <2> QED BY <1>1, <2>1, OrderedKept DEF WholeInv
<1>7. Framed' /\ Gathered' /\ FirstOnly' /\ Passed' /\ ToSend'
  <2>1. \A n, b : IsLast(n, b)' = IsLast(n, b)
    BY <1>1, IsLastKept
  <2>2. Framed' /\ Gathered'
    BY <1>1, <2>1, GatheredKept DEF WholeInv, Framed
  <2> QED BY <1>1, <1>3, <2>2 DEF FirstOnly, Passed, ToSend
<1>8. Streaming'
  <2>1. \A i \in DOMAIN bus : bus[i].block > 0 => bus[i].msg = lock
    <3>1. CASE Quiet
      BY <3>1 DEF Quiet
    <3>2. CASE ~ Quiet
      <4>1. faults' = faults + 1 /\ faults < MaxFaults /\ MaxFaults \in Nat /\ Tries \in Nat
        BY <1>1, <3>2, CanPeerAssumption DEF Due, Fault
      <4>2. tries > faults + 1
        BY <1>1, <4>1, CountersAre, SMT
      <4> QED BY <1>2, <4>2 DEF WholeInv, Passed
    <3> QED BY <3>1, <3>2
  <2> QED BY <1>1, <1>5, <2>1 DEF Streaming
<1>9. InLine'
  BY <1>1, <1>4 DEF WholeInv, InLine, InFront
<1>10. Newest' = Newest /\ NewestIsLast'
  BY <1>1, NewestKept DEF WholeInv
<1>11. NothingOlder'
  BY <1>1, <1>4, <1>10 DEF WholeInv, NothingOlder
<1> QED BY <1>6, <1>7, <1>8, <1>9, <1>10, <1>11 DEF WholeInv

\* A frame is sent, or lost: it comes after all that is under way.
LEMMA PieceAdded ==
  ASSUME PeerTypes, PeerTypes', WholeInv, NEW f \in Frame,
         bus' = bus \/ bus' = Append(bus, f), UNCHANGED <<order, rdata, rcounter>>,
         NEW h \in DOMAIN order, f.block > 0 => f.msg = order[h]
  PROVE  /\ \A i \in DOMAIN bus' : (i \in DOMAIN bus /\ bus'[i] = bus[i]) \/ bus'[i] = f
         /\ \A k \in DOMAIN order : \A b, x : Flow(k, b, x)' =>
              \/ Flow(k, b, x)
              \/ f.block > 0 /\ k = h /\ b = f.block /\ x = f.number.at
         /\ \A k, l \in DOMAIN order : \A b, c, x, y : Ahead(k, b, x, l, c, y)' =>
              \/ Ahead(k, b, x, l, c, y)
              \/ /\ f.block > 0 /\ Flow(k, b, x)
                 /\ l = h /\ c = f.block /\ y = f.number.at
<1> DEFINE e == Len(bus) + 1
<1>1. bus \in Seq(Frame)
  BY DEF PeerTypes
<1>2. /\ Len(bus) \in Nat /\ DOMAIN bus = 1 .. Len(bus)
      /\ DOMAIN Append(bus, f) = 1 .. Len(bus) + 1
      /\ Append(bus, f)[Len(bus) + 1] = f
      /\ \A i \in 1 .. Len(bus) : Append(bus, f)[i] = bus[i]
  BY <1>1, AppendIs
<1>3. \A i \in DOMAIN bus' : \/ i \in DOMAIN bus /\ bus'[i] = bus[i] /\ i < e
                             \/ bus'[i] = f /\ i = e
  <2>1. CASE bus' = bus
    BY <1>2, <2>1, SMT
  <2>2. CASE bus' = Append(bus, f)
    BY <1>2, <2>2, SMT
  <2> QED BY <2>1, <2>2
<1>4. e \in Nat /\ e # 0 /\ 0 < e
  BY <1>2, SMT
<1> HIDE DEF e
<1>5. ASSUME NEW i \in Nat, Held(i)'
      PROVE  \/ /\ Held(i) /\ MsgAt(i)' = MsgAt(i) /\ BlockAt(i)' = BlockAt(i)
                /\ CountAt(i)' = CountAt(i) /\ i < e
             \/ /\ i = e /\ f.block > 0 /\ MsgAt(i)' = f.msg /\ BlockAt(i)' = f.block
                /\ CountAt(i)' = f.number.at
  <2>1. CASE i = 0
    BY <1>4, <1>5, <2>1 DEF Held, MsgAt, BlockAt, CountAt
  <2>2. CASE i # 0
    <3>1. i \in DOMAIN bus' /\ bus'[i].block > 0
      BY <1>5, <2>2 DEF Held
    <3>2. CASE i \in DOMAIN bus /\ bus'[i] = bus[i] /\ i < e
      BY <2>2, <3>1, <3>2 DEF Held, MsgAt, BlockAt, CountAt
    <3>3. CASE bus'[i] = f /\ i = e
      BY <2>2, <3>1, <3>3 DEF MsgAt, BlockAt, CountAt
    <3> QED BY <1>3, <3>1, <3>2, <3>3
  <2> QED BY <2>1, <2>2
<1>6. ASSUME NEW i \in Nat, NEW k \in DOMAIN order, NEW b, NEW x, Piece(i, k, b, x)'
      PROVE  \/ Piece(i, k, b, x) /\ i < e
             \/ i = e /\ f.block > 0 /\ k = h /\ b = f.block /\ x = f.number.at
  <2>1. Held(i)' /\ MsgAt(i)' = order[k] /\ BlockAt(i)' = b /\ CountAt(i)' = x
    BY <1>6 DEF Piece
  <2>2. CASE /\ Held(i) /\ MsgAt(i)' = MsgAt(i) /\ BlockAt(i)' = BlockAt(i)
             /\ CountAt(i)' = CountAt(i) /\ i < e
    BY <2>1, <2>2 DEF Piece
  <2>3. CASE /\ i = e /\ f.block > 0 /\ MsgAt(i)' = f.msg /\ BlockAt(i)' = f.block
             /\ CountAt(i)' = f.number.at
    <3>1. order[k] = order[h]
      BY <2>1, <2>3
    <3>2. k = h
      BY <3>1 DEF WholeInv, Ordered
    <3> QED BY <2>1, <2>3, <3>2
  <2> QED BY <1>5, <2>1, <2>2, <2>3
<1>7. \A k \in DOMAIN order : \A b, x : Flow(k, b, x)' =>
        Flow(k, b, x) \/ (f.block > 0 /\ k = h /\ b = f.block /\ x = f.number.at)
  BY <1>6 DEF Flow
<1>8. ASSUME NEW k \in DOMAIN order, NEW l \in DOMAIN order, NEW b, NEW c, NEW x, NEW y,
             Ahead(k, b, x, l, c, y)'
      PROVE  \/ Ahead(k, b, x, l, c, y)
             \/ f.block > 0 /\ Flow(k, b, x) /\ l = h /\ c = f.block /\ y = f.number.at
  <2>1. PICK i, j \in Nat : i < j /\ Piece(i, k, b, x)' /\ Piece(j, l, c, y)'
    BY <1>8 DEF Ahead
  <2>2. j < e \/ j = e
    BY <1>6, <2>1
  <2>3. i # e
    BY <1>4, <2>1, <2>2, SMT
  <2>4. Piece(i, k, b, x)
    BY <1>6, <2>1, <2>3
  <2>5. CASE Piece(j, l, c, y)
    BY <2>1, <2>4, <2>5 DEF Ahead
  <2>6. CASE f.block > 0 /\ l = h /\ c = f.block /\ y = f.number.at
    BY <2>4, <2>6 DEF Flow
  <2> QED BY <1>6, <2>1, <2>5, <2>6
<1> QED BY <1>3, <1>7, <1>8

LEMMA JobSentWhole ==
  ASSUME PeerTypes, PeerTypes', AckInv, WholeInv, Transmit, Head(jobs).block <= 1
  PROVE  WholeInv'
<1> DEFINE j == Head(jobs)
           N == Len(order)
<1>1. /\ jobs # <<>> /\ jobs' = Tail(jobs) /\ Onto(bus, bus', j)
      /\ UNCHANGED <<scounter, phase, lock, tries, frame, order, rdata, rcounter, tasks, taken, got, full, met>>
  BY DEF Transmit, server
<1>2. /\ j = jobs[1] /\ j \in Frame /\ 1 \in DOMAIN jobs /\ j.block \in Nat /\ 1 \in Nat
  <2>1. jobs \in Seq(Frame)
    BY DEF PeerTypes
  <2>2. j = jobs[1] /\ j \in Frame /\ 1 \in DOMAIN jobs
    BY <1>1, <2>1, TailIs, SMT
  <2> QED BY <2>2 DEF Frame
<1>3. /\ faults <= faults' /\ (bus' = bus \/ bus' = Append(bus, j))
  <2>1. bus \in Seq(Frame) /\ faults \in 0 .. MaxFaults
    BY DEF PeerTypes
  <2> QED BY <1>1, <1>2, <2>1, OntoIs
<1> HIDE DEF j
<1>4. j.block > 0 => /\ j.block = 1 /\ j.number = frame /\ j.msg = lock /\ lock # NoMessage
                     /\ ~ Generating
  <2> SUFFICES ASSUME j.block > 0
               PROVE  /\ j.block = 1 /\ j.number = frame /\ j.msg = lock /\ lock # NoMessage
                      /\ ~ Generating
    OBVIOUS
  <2>1. j.block = 1
    BY <1>2, SMT DEF j
  <2>2. FirstJob(1)
    BY <1>2, <2>1 DEF FirstJob
  <2>3. j.number = frame /\ j.msg = lock
    BY <1>2, <2>2 DEF AckInv, Executing
  <2>4. lock # NoMessage
    BY <1>2, <2>3, CanPeerAssumption DEF Frame
  <2>5. ASSUME NEW i \in Nat, Generator(i)
        PROVE  FALSE
    <3>1. i < 1
      BY <1>2, <2>2, <2>5 DEF AckInv, Executing
    <3>2. i >= 1
      <4>1. jobs \in Seq(Frame)
        BY DEF PeerTypes
      <4> QED BY <2>5, <4>1, SMT DEF Generator
    <3> QED BY <3>1, <3>2, SMT
  <2> QED BY <2>1, <2>3, <2>4, <2>5 DEF Generating
<1>5. \A i \in Nat : Generator(i)' => \E g \in Nat : Generator(g) /\ jobs'[i] = jobs[g]
  <2>1. \A i \in Nat : i \in DOMAIN jobs' => i + 1 \in DOMAIN jobs /\ jobs'[i] = jobs[i + 1]
    BY <1>1, JobDone
  <2>2. \A i \in Nat : i + 1 \in Nat
    OBVIOUS
  <2> QED BY <2>1, <2>2 DEF Generator
<1>6. Ordered'
  BY <1>1, OrderedKept DEF WholeInv
<1>7. Gathered'
  BY <1>1, GatheredKept DEF WholeInv
<1>8. Newest' = Newest /\ NewestIsLast'
  BY <1>1, NewestKept DEF WholeInv
<1>9. CASE ~ j.block > 0
  <2>1. \A i \in Nat : Held(i)' => /\ Held(i) /\ MsgAt(i)' = MsgAt(i)
                                   /\ BlockAt(i)' = BlockAt(i) /\ CountAt(i)' = CountAt(i)
    <3>1. bus \in Seq(Frame)
      BY DEF PeerTypes
    <3>2. \A i \in DOMAIN bus' : (i \in DOMAIN bus /\ bus'[i] = bus[i]) \/ bus'[i] = j
      <4>1. /\ Len(bus) \in Nat /\ DOMAIN bus = 1 .. Len(bus)
            /\ DOMAIN Append(bus, j) = 1 .. Len(bus) + 1
            /\ Append(bus, j)[Len(bus) + 1] = j
            /\ \A i \in 1 .. Len(bus) : Append(bus, j)[i] = bus[i]
        BY <1>2, <3>1, AppendIs
      <4>2. CASE bus' = bus
        BY <4>2
      <4>3. CASE bus' = Append(bus, j)
        BY <4>1, <4>3, SMT
      <4> QED BY <1>3, <4>2, <4>3
    <3> QED BY <1>1, <1>9, <3>2 DEF Held, MsgAt, BlockAt, CountAt
  <2> DEFINE g == [i \in Nat |-> i]
  <2>2. g \in [Nat -> Nat] /\ (\A i, h \in Nat : i < h => g[i] < g[h]) /\ \A i \in Nat : g[i] = i
    OBVIOUS
  <2> HIDE DEF g
  <2>3. Drifts
    BY <1>1, <2>1, <2>2, MovesDrift
  <2>4. NothingOlder'
    BY <1>1, <1>8, <2>3, CountersAre DEF WholeInv, NothingOlder, Drifts
  <2>5. \A i \in DOMAIN bus' : bus'[i].block > 0 => \E h \in DOMAIN bus : bus'[i] = bus[h]
    <3>1. bus' \in Seq(Frame)
      BY DEF PeerTypes
    <3>2. \A i \in DOMAIN bus' : i \in Nat /\ i # 0
      BY <3>1, SMT
    <3>3. bus \in Seq(Frame)
      BY DEF PeerTypes
    <3>4. \A i \in DOMAIN bus' : (i \in DOMAIN bus /\ bus'[i] = bus[i]) \/ bus'[i] = j
      BY <1>2, <1>3, <1>1, BusAdds
    <3> QED BY <1>9, <3>4
  <2>6. \A i \in Nat : Generator(i) => Newest' <= Home
    BY <1>8 DEF WholeInv, ToSend
  <2> QED BY <1>1, <1>3, <1>5, <1>6, <1>7, <1>8, <2>3, <2>4, <2>5, <2>6, DriftsKeeps
<1>10. CASE j.block > 0
  <2>1. /\ j.block = 1 /\ j.number = frame /\ j.msg = lock /\ lock # NoMessage
        /\ ~ Generating
    BY <1>4, <1>10
  <2>2. N \in DOMAIN order /\ lock = order[N] /\ N \in Nat
    BY <2>1, OrderIs DEF WholeInv, Ordered
  <2>3. j.msg = order[N]
    BY <2>1, <2>2
  <2>4. /\ \A i \in DOMAIN bus' : (i \in DOMAIN bus /\ bus'[i] = bus[i]) \/ bus'[i] = j
        /\ \A k \in DOMAIN order : \A b, x : Flow(k, b, x)' =>
             Flow(k, b, x) \/ (k = N /\ b = 1 /\ x = frame.at)
        /\ \A k, l \in DOMAIN order : \A b, c, x, y : Ahead(k, b, x, l, c, y)' =>
             \/ Ahead(k, b, x, l, c, y)
             \/ Flow(k, b, x) /\ l = N /\ c = 1 /\ y = frame.at
    <3> HIDE DEF N
    <3>1. /\ \A i \in DOMAIN bus' : (i \in DOMAIN bus /\ bus'[i] = bus[i]) \/ bus'[i] = j
          /\ \A k \in DOMAIN order : \A b, x : Flow(k, b, x)' =>
               \/ Flow(k, b, x)
               \/ j.block > 0 /\ k = N /\ b = j.block /\ x = j.number.at
          /\ \A k, l \in DOMAIN order : \A b, c, x, y : Ahead(k, b, x, l, c, y)' =>
               \/ Ahead(k, b, x, l, c, y)
               \/ /\ j.block > 0 /\ Flow(k, b, x)
                  /\ l = N /\ c = j.block /\ y = j.number.at
      BY <1>1, <1>2, <1>3, <2>2, <2>3, PieceAdded
    <3> QED BY <2>1, <3>1
  <2>5. Home' = Home /\ Home <= N
    <3>1. Home' = Home
      BY <1>1 DEF Home
    <3>2. Home = N - 1
      BY <2>1 DEF Home
    <3> HIDE DEF N
    <3> QED BY <2>2, <3>1, <3>2, SMT
  <2>6. \A i \in Nat : ~ Generator(i)'
    BY <1>5, <2>1 DEF Generating
  <2> HIDE DEF N
  <2>7. \A n, b : IsLast(n, b)' = IsLast(n, b)
    BY <1>1, IsLastKept
  <2>8. Framed'
    <3>1. 1 <= Blocks[j.msg]
      <4>1. j.msg \in Message
        BY <1>2 DEF Frame
      <4> QED BY <4>1, BlocksAre, CanPeerAssumption, SMT
    <3>2. j.number.last = IsLast(j.msg, j.block) /\ j.block <= Blocks[j.msg]
      BY <2>1, <3>1 DEF WholeInv, Framed
    <3> QED BY <1>1, <2>4, <2>7, <3>2 DEF WholeInv, Framed
  <2>9. Streaming'
    <3>1. N >= Home
      BY <2>2, <2>5, SMT DEF Home
    <3>2. \A i \in DOMAIN bus : bus[i].block > 0 =>
            \E k \in DOMAIN order : k >= Home /\ bus[i].msg = order[k]
      BY DEF WholeInv, Streaming
    <3> QED BY <1>1, <2>2, <2>3, <2>4, <2>5, <3>1, <3>2 DEF Streaming
  <2>10. FirstOnly'
    <3>1. \A b \in Nat, x \in At : Flow(N, b, x) => b = 1 /\ x = frame.at
      BY <2>1 DEF WholeInv, FirstOnly, N
    <3>2. \A k \in DOMAIN order, b \in Nat, x \in At :
            Flow(k, b, x)' /\ k = N => b = 1 /\ x = frame.at
      BY <2>4, <3>1
    <3>3. Len(order') = N /\ N \in DOMAIN order'
      BY <1>1, <2>2 DEF N
    <3> QED BY <1>1, <3>2, <3>3 DEF FirstOnly
  <2>11. InLine'
    <3> SUFFICES ASSUME NEW k \in DOMAIN order, NEW l \in DOMAIN order, NEW b \in Nat, NEW c \in Nat,
                        NEW x \in At, NEW y \in At, Ahead(k, b, x, l, c, y)'
                 PROVE  InFront(k, b, x, l, c, y)
      BY <1>1 DEF InLine, InFront
    <3>1. CASE Ahead(k, b, x, l, c, y)
      BY <3>1 DEF WholeInv, InLine
    <3>2. CASE Flow(k, b, x) /\ l = N /\ c = 1
      <4>1. k \in Nat /\ k <= N
        BY OrderIs DEF N
      <4>2. k = N \/ k < N
        BY <2>2, <4>1, SMT
      <4>3. k = N => b = 1
        BY <2>1, <3>2 DEF WholeInv, FirstOnly, N
      <4>4. ~ 1 > 1 /\ 1 <= 1
        OBVIOUS
      <4> QED BY <3>2, <4>2, <4>3, <4>4 DEF InFront
    <3> QED BY <2>4, <3>1, <3>2
  <2>12. NothingOlder'
    <3>1. Newest <= N
      BY NewestBelow DEF WholeInv, N
    <3> QED BY <1>1, <1>8, <2>4, <3>1 DEF WholeInv, NothingOlder
  <2>13. Passed'
    <3>1. lock \in taken => \A k \in DOMAIN order, b \in Nat, x \in At : Flow(k, b, x)' => k = N
      BY <2>1, <2>4 DEF WholeInv, Passed, N
    <3>2. tries > faults' + 1 => tries > faults + 1
      <4>1. faults \in Nat /\ faults' \in Nat /\ tries \in Nat
        BY CanPeerAssumption, SMT DEF PeerTypes
      <4> QED BY <1>3, <4>1, LaterFaults
    <3>3. tries > faults' + 1 => \A i \in DOMAIN bus' : bus'[i].block > 0 => bus'[i].msg = lock
      BY <2>1, <2>4, <3>2 DEF WholeInv, Passed
    <3> QED BY <1>1, <2>6, <3>1, <3>3 DEF Passed, Generating, N
  <2>14. ToSend'
    BY <2>6 DEF ToSend
  <2> QED BY <1>6, <1>7, <1>8, <2>8, <2>9, <2>10, <2>11, <2>12, <2>13, <2>14 DEF WholeInv
<1> QED BY <1>9, <1>10

LEMMA NextSentWhole ==
  ASSUME PeerTypes, PeerTypes', AckInv, WholeInv, Transmit, ~ Head(jobs).block <= 1
  PROVE  WholeInv'
<1> DEFINE j == Head(jobs)
           n == Numbered(IsLast(j.msg, j.block))
           f == [j EXCEPT !.number = n]
           more == [jobs EXCEPT ![1].block = @ + 1]
           N == Len(order)
           c == j.block
<1>1. /\ jobs # <<>> /\ Onto(bus, bus', f) /\ scounter' = n
      /\ jobs' = IF c = Blocks[j.msg] THEN Tail(jobs) ELSE more
      /\ UNCHANGED <<phase, lock, tries, frame, order, rdata, rcounter, tasks, taken, got, full, met>>
  BY DEF Transmit, server
<1>2. /\ j = jobs[1] /\ j \in Frame /\ 1 \in DOMAIN jobs /\ jobs \in Seq(Frame)
      /\ c \in Nat /\ j.msg \in Message /\ 1 \in Nat /\ Generator(1)
      /\ Generating
  <2>1. jobs \in Seq(Frame)
    BY DEF PeerTypes
  <2>2. j = jobs[1] /\ j \in Frame /\ 1 \in DOMAIN jobs
    BY <1>1, <2>1, TailIs, SMT
  <2>3. j.block \in Nat /\ j.msg \in Message
    BY <2>2 DEF Frame
  <2>4. 1 \in Nat
    OBVIOUS
  <2>5. j.block > 1
    BY <2>3, SMT
  <2>6. Generator(1)
    BY <2>2, <2>5 DEF Generator
  <2> QED BY <2>1, <2>2, <2>3, <2>4, <2>6 DEF Generating
<1>3. /\ n \in Number /\ n.at = Shift(scounter.at, 1) /\ n.last = IsLast(j.msg, c)
      /\ scounter.at \in At /\ n.at \in At
  <2>1. n \in Number /\ n.at = Shift(scounter.at, 1)
    BY <1>2, IsLastType, NextNumber DEF PeerTypes
  <2>2. n.last = IsLast(j.msg, c)
    BY DEF Numbered
  <2> QED BY <2>1, <2>2, CountersAre, NumberIs
<1>4. /\ f \in Frame /\ f.block = c /\ f.msg = j.msg /\ f.number = n
  BY <1>2, <1>3 DEF Frame
<1>5. c > 1 /\ c <= Modulus - 1 /\ c <= Blocks[j.msg] /\ Blocks[j.msg] \in Nat
  <2>1. c > 1 /\ c <= Modulus - 1 /\ c <= Blocks[j.msg]
    BY <1>2, GeneratorIs
  <2> QED BY <1>2, <2>1, BlocksAre
<1>6. /\ Home \in DOMAIN order /\ j.msg = order[Home] /\ Newest <= Home
      /\ \A k \in DOMAIN order, b \in Nat, x \in At : Flow(k, b, x) => GoesOn(c, k, b, x)
  BY <1>2 DEF WholeInv, ToSend
<1>7. \A i \in Nat : Generator(i) => i = 1
  BY <1>2 DEF AckInv, Executing
<1>8. N \in Nat /\ Home' = Home /\ (lock # NoMessage => Home = N - 1)
  <2>1. N \in Nat
    BY OrderIs
  <2>2. Home' = Home
    BY <1>1 DEF Home
  <2>3. lock # NoMessage => Home = N - 1
    BY DEF Home
  <2> QED BY <2>1, <2>2, <2>3
<1> HIDE DEF n, f
<1>9. faults <= faults' /\ (bus' = bus \/ bus' = Append(bus, f))
  <2>1. bus \in Seq(Frame) /\ faults \in 0 .. MaxFaults
    BY DEF PeerTypes
  <2> QED BY <1>1, <1>4, <2>1, OntoIs
<1>10. \A i \in Nat : Generator(i)' => jobs'[i].block = c + 1 /\ jobs'[i].msg = j.msg
  <2>1. ASSUME c = Blocks[j.msg], NEW i \in Nat, Generator(i)'
        PROVE  FALSE
    <3>1. i + 1 \in DOMAIN jobs /\ jobs'[i] = jobs[i + 1] /\ i + 1 \in Nat
      BY <1>1, <2>1, JobDone DEF Generator
    <3>2. Generator(i + 1)
      BY <2>1, <3>1 DEF Generator
    <3>3. i + 1 = 1
      BY <1>7, <3>1, <3>2
    <3>4. jobs' \in Seq(Frame) /\ i \in DOMAIN jobs'
      BY <2>1 DEF PeerTypes, Generator
    <3>5. i >= 1
      BY <3>4, SMT
    <3> QED BY <3>3, <3>5, SMT
  <2>2. ASSUME c # Blocks[j.msg], NEW i \in Nat, Generator(i)'
        PROVE  jobs'[i].block = c + 1 /\ jobs'[i].msg = j.msg
    <3>1. jobs' = more
      BY <1>1, <2>2
    <3>2. /\ DOMAIN jobs' = DOMAIN jobs
          /\ jobs'[1] = [j EXCEPT !.block = @ + 1]
          /\ \A h \in DOMAIN jobs : h # 1 => jobs'[h] = jobs[h]
      BY <1>1, <1>2, <3>1, OneMore
    <3>3. jobs'[1].block = j.block + 1 /\ jobs'[1].msg = j.msg
      BY <1>2, <3>2 DEF Frame
    <3>4. i = 1
      BY <1>7, <2>2, <3>2 DEF Generator
    <3> QED BY <3>3, <3>4
  <2> QED BY <2>1, <2>2
<1> HIDE DEF j, N, c
<1>11. /\ \A i \in DOMAIN bus' : (i \in DOMAIN bus /\ bus'[i] = bus[i]) \/ bus'[i] = f
       /\ \A k \in DOMAIN order : \A b, x : Flow(k, b, x)' =>
            Flow(k, b, x) \/ (k = Home /\ b = c /\ x = n.at)
       /\ \A k, l \in DOMAIN order : \A b, d, x, y : Ahead(k, b, x, l, d, y)' =>
            \/ Ahead(k, b, x, l, d, y)
            \/ Flow(k, b, x) /\ l = Home /\ d = c /\ y = n.at
  <2>1. f.msg = order[Home]
    BY <1>4, <1>6
  <2>2. /\ \A i \in DOMAIN bus' : (i \in DOMAIN bus /\ bus'[i] = bus[i]) \/ bus'[i] = f
        /\ \A k \in DOMAIN order : \A b, x : Flow(k, b, x)' =>
             \/ Flow(k, b, x)
             \/ f.block > 0 /\ k = Home /\ b = f.block /\ x = f.number.at
        /\ \A k, l \in DOMAIN order : \A b, d, x, y : Ahead(k, b, x, l, d, y)' =>
             \/ Ahead(k, b, x, l, d, y)
             \/ /\ f.block > 0 /\ Flow(k, b, x)
                /\ l = Home /\ d = f.block /\ y = f.number.at
    BY <1>1, <1>4, <1>6, <1>9, <2>1, PieceAdded
  <2> QED BY <1>4, <2>2
\* The counter from a piece under way to the new one.
<1>12. ASSUME NEW k \in DOMAIN order, NEW b \in Nat, NEW x \in At, Flow(k, b, x)
       PROVE  /\ k = Home /\ b < c
              /\ \/ Shift(x, c - b) = n.at
                 \/ lock # NoMessage /\ Shift(x, c - b + 1) = n.at
  <2>1. GoesOn(c, k, b, x)
    BY <1>6, <1>12
  <2>2. k = Home /\ b < c
    BY <2>1 DEF GoesOn
  <2>3. \A y, z : z = Shift(y, 1) =>
          /\ Shift(x, c - b - 1) = y => Shift(x, c - b) = z
          /\ Shift(x, c - b) = y => Shift(x, c - b + 1) = z
    <3>1. \A d \in Nat : \A y, z :
            /\ b < d /\ d <= Modulus - 1 /\ z = Shift(y, 1)
            /\ Shift(x, d - b - 1) = y
            => Shift(x, d - b) = z
      BY CountsOn
    <3>2. \A d \in Nat : \A y, z :
            /\ b < d /\ d <= Modulus - 1 /\ z = Shift(y, 1)
            /\ Shift(x, d - b) = y
            => Shift(x, d - b + 1) = z
      BY CountsOn
    <3> QED BY <1>2, <1>5, <2>2, <3>1, <3>2
  <2>4. /\ Shift(x, c - b - 1) = scounter.at => Shift(x, c - b) = n.at
        /\ Shift(x, c - b) = scounter.at => Shift(x, c - b + 1) = n.at
    BY <1>3, <2>3
  <2> QED BY <2>1, <2>2, <2>4 DEF GoesOn
<1>13. Ordered'
  BY <1>1, OrderedKept DEF WholeInv
<1>14. Gathered'
  BY <1>1, GatheredKept DEF WholeInv
<1>15. Newest' = Newest /\ NewestIsLast'
  BY <1>1, NewestKept DEF WholeInv
<1>16. Framed'
  <2>1. \A m, b : IsLast(m, b)' = IsLast(m, b)
    BY <1>1, IsLastKept
  <2>2. f.number.last = IsLast(f.msg, f.block) /\ f.block <= Blocks[f.msg]
    BY <1>3, <1>4, <1>5
  <2> QED BY <1>1, <1>11, <2>1, <2>2 DEF WholeInv, Framed
<1>17. Streaming'
  <2>1. Home >= Home
    BY <1>6, OrderIs, SMT
  <2>2. \A i \in DOMAIN bus : bus[i].block > 0 =>
          \E k \in DOMAIN order : k >= Home /\ bus[i].msg = order[k]
    BY DEF WholeInv, Streaming
  <2>3. \A i \in DOMAIN bus' : bus'[i].block > 0 =>
          \E k \in DOMAIN order : k >= Home /\ bus'[i].msg = order[k]
    BY <1>4, <1>6, <1>11, <2>1, <2>2
  <2> QED BY <1>1, <1>8, <2>3 DEF Streaming
<1>18. InLine'
  <2> SUFFICES ASSUME NEW k \in DOMAIN order, NEW l \in DOMAIN order, NEW b \in Nat, NEW d \in Nat,
                      NEW x \in At, NEW y \in At, Ahead(k, b, x, l, d, y)'
               PROVE  InFront(k, b, x, l, d, y)
    BY <1>1 DEF InLine, InFront
  <2>1. CASE Ahead(k, b, x, l, d, y)
    BY <2>1 DEF WholeInv, InLine
  <2>2. CASE Flow(k, b, x) /\ l = Home /\ d = c /\ y = n.at
    <3>1. /\ k = Home /\ b < c
          /\ Shift(x, c - b) = n.at \/ Shift(x, c - b + 1) = n.at
      BY <1>12, <2>2
    <3>2. b <= c
      BY <1>2, <3>1, SMT
    <3> QED BY <2>2, <3>1, <3>2 DEF InFront, Counts
  <2> QED BY <1>11, <2>1, <2>2
<1>19. FirstOnly'
  <2>1. ASSUME lock # NoMessage
        PROVE  \A k \in DOMAIN order, b \in Nat, x \in At :
                 Flow(k, b, x)' /\ k = N => b = 1 /\ x = frame.at
    <3>1. Home # N
      BY <1>8, <2>1, SMT
    <3>2. \A b \in Nat, x \in At : Flow(N, b, x) => b = 1 /\ x = frame.at
      BY <2>1 DEF WholeInv, FirstOnly, N
    <3> QED BY <1>11, <3>1, <3>2
  <2>2. Len(order') = N /\ UNCHANGED <<lock, frame, order>>
    BY <1>1 DEF N
  <2>3. lock # NoMessage => N \in DOMAIN order'
    BY <2>2 DEF WholeInv, Ordered, N
  <2> QED BY <2>1, <2>2, <2>3 DEF FirstOnly
<1>20. NothingOlder'
  BY <1>1, <1>6, <1>11, <1>15 DEF WholeInv, NothingOlder
<1>21. Passed'
  <2> SUFFICES ASSUME lock # NoMessage
               PROVE  lock \notin taken /\ ~ tries > faults' + 1
    BY <1>1 DEF Passed
  <2>1. lock \notin taken /\ ~ tries > faults + 1
    BY <1>2 DEF WholeInv, Passed
  <2>2. tries > faults' + 1 => tries > faults + 1
    <3>1. faults \in Nat /\ faults' \in Nat /\ tries \in Nat
      BY CanPeerAssumption, SMT DEF PeerTypes
    <3> QED BY <1>9, <3>1, LaterFaults
  <2> QED BY <2>1, <2>2
<1>22. ToSend'
  <2> SUFFICES ASSUME NEW i \in Nat, Generator(i)'
               PROVE  /\ Home' \in DOMAIN order' /\ jobs'[i].msg = order'[Home'] /\ Newest' <= Home'
                      /\ \A k \in DOMAIN order', b \in Nat, x \in At :
                           Flow(k, b, x)' => GoesOn(jobs[i].block, k, b, x)'
    BY DEF ToSend
  <2>1. jobs'[i].block = c + 1 /\ jobs'[i].msg = order[Home]
    BY <1>6, <1>10
  <2>2. ASSUME NEW k \in DOMAIN order, NEW b \in Nat, NEW x \in At, Flow(k, b, x)',
               NEW d, d = c + 1
        PROVE  /\ k = Home /\ b < d
               /\ \/ Shift(x, d - b - 1) = n.at
                  \/ lock # NoMessage /\ Shift(x, d - b) = n.at
    <3>1. CASE Flow(k, b, x)
      <4>1. /\ k = Home /\ b < c
            /\ \/ Shift(x, c - b) = n.at
               \/ lock # NoMessage /\ Shift(x, c - b + 1) = n.at
        BY <1>12, <3>1
      <4>2. d - b - 1 = c - b /\ d - b = c - b + 1 /\ b < d
        BY <1>2, <2>2, <4>1, SMT
      <4> QED BY <4>1, <4>2
    <3>2. CASE k = Home /\ b = c /\ x = n.at
      <4>1. d - c - 1 = 0 /\ c < d
        BY <1>2, <2>2, SMT
      <4>2. Shift(n.at, 0) = n.at
        BY <1>3, ShiftZero
      <4> QED BY <3>2, <4>1, <4>2
    <3> QED BY <1>11, <2>2, <3>1, <3>2
  <2>3. ASSUME NEW k \in DOMAIN order', NEW b \in Nat, NEW x \in At, Flow(k, b, x)'
        PROVE  GoesOn(jobs[i].block, k, b, x)'
    <3> DEFINE d == jobs'[i].block
    <3>1. d = c + 1 /\ scounter' = n /\ lock' = lock /\ order' = order
      BY <1>1, <2>1
    <3> HIDE DEF d
    <3>2. /\ k = Home /\ b < d
          /\ \/ Shift(x, d - b - 1) = n.at
             \/ lock # NoMessage /\ Shift(x, d - b) = n.at
      BY <2>2, <2>3, <3>1
    <3>3. /\ k = Home' /\ b < d
          /\ \/ Shift(x, d - b - 1) = scounter'.at
             \/ lock' # NoMessage /\ Shift(x, d - b) = scounter'.at
      BY <1>8, <3>1, <3>2
    <3> QED BY <3>3 DEF GoesOn, d
  <2> QED BY <1>1, <1>6, <1>8, <1>15, <2>1, <2>3
<1> QED BY <1>13, <1>14, <1>15, <1>16, <1>17, <1>18, <1>19, <1>20, <1>21, <1>22 DEF WholeInv

LEMMA WholeNext ==
  ASSUME MaxFaults < Tries, PeerTypes, PeerTypes', AckInv, WholeInv, [Next]_vars
  PROVE  WholeInv'
<1>1. CASE UNCHANGED vars
  BY <1>1, StillStepsKeep
<1>2. CASE Next
  <2>1. ASSUME NEW m \in Message, Client(m)
        PROVE  WholeInv'
    <3>1. CASE FirstSent(m) \/ RestSent(m)
      BY <3>1, StillStepsKeep
    <3> QED BY <2>1, <3>1, SendWhole, AcknowledgedWhole, RetryWhole, GiveUpWhole DEF Client
  <2>2. CASE Transmit
    BY <2>2, JobSentWhole, NextSentWhole
  <2>3. CASE AckReceived \/ Disconnect \/ AckSent
    BY <2>3, StillStepsKeep
  <2>4. CASE FirstFrame \/ NextFrame \/ DisconnectFrame \/ FirstHandled
    BY <2>4, FirstFrameWhole, NextFrameWhole, DisconnectFrameWhole, FirstHandledWhole
  <2> QED BY <1>2, <2>1, <2>2, <2>3, <2>4 DEF Next
<1> QED BY <1>1, <1>2

-----------------------------------------------------------------------------
(* Every step is one of the channel, or none *)

\* What was received is what it was, or has something more at its end.
LEMMA ReceivedIs ==
  ASSUME PeerTypes
  PROVE  /\ got' = got => Received' = Received
         /\ \A data \in Seq(Block) : got' = Append(got, data) =>
              Received' = Append(Received, Meaning(data))
<1>1. \A d : Meaning(d)' = Meaning(d)
  BY DEF Meaning, Whole, Eof, Spoilt
<1>2. got' = got => Received' = Received
  BY <1>1 DEF Received
<1>3. ASSUME NEW data \in Seq(Block), got' = Append(got, data)
      PROVE  Received' = Append(Received, Meaning(data))
  <2> DEFINE L == Len(got)
             M == Meaning(data)
             U == {Meaning(d) : d \in Seq(Block)}
  <2>1. got \in Seq(Seq(Block))
    BY DEF PeerTypes
  <2>2. /\ L \in Nat /\ DOMAIN got = 1 .. L /\ DOMAIN got' = 1 .. L + 1
        /\ got'[L + 1] = data /\ \A i \in 1 .. L : got'[i] = got[i] /\ got[i] \in Seq(Block)
    BY <1>3, <2>1, AppendIs
  <2>3. Received = [i \in 1 .. L |-> Meaning(got[i])]
    BY <2>2 DEF Received
  <2>4. Received' = [i \in 1 .. L + 1 |-> Meaning(got'[i])]
    BY <1>1, <2>2 DEF Received
  <2>5. M \in U /\ \A i \in 1 .. L : Meaning(got[i]) \in U
    BY <2>2
  <2> HIDE DEF L, M, U
  <2>6. Received \in Seq(U) /\ Len(Received) = L
    BY <2>2, <2>3, <2>5
  <2>7. /\ DOMAIN Append(Received, M) = 1 .. L + 1 /\ Append(Received, M)[L + 1] = M
        /\ \A i \in 1 .. L : Append(Received, M)[i] = Received[i]
        /\ Append(Received, M) \in Seq(U)
    BY <2>5, <2>6, AppendIs
  <2>8. Append(Received, M) = [i \in 1 .. L + 1 |-> Append(Received, M)[i]]
    <3> DEFINE A == Append(Received, M)
    <3>1. A \in Seq(U) /\ DOMAIN A = 1 .. L + 1
      BY <2>7
    <3> HIDE DEF A
    <3>2. A \in [1 .. Len(A) -> U] /\ DOMAIN A = 1 .. Len(A)
      BY <3>1
    <3>3. A = [i \in 1 .. L + 1 |-> A[i]]
      BY <3>1, <3>2
    <3> QED BY <3>3 DEF A
  <2>9. \A i \in 1 .. L + 1 : i \in 1 .. L \/ i = L + 1
    BY <2>2, SMT
  <2>10. \A i \in 1 .. L + 1 : Append(Received, M)[i] = Meaning(got'[i])
    <3> SUFFICES ASSUME NEW i \in 1 .. L + 1
                 PROVE  Append(Received, M)[i] = Meaning(got'[i])
      OBVIOUS
    <3>1. CASE i \in 1 .. L
      BY <2>2, <2>3, <2>7, <3>1
    <3>2. CASE i = L + 1
      BY <2>2, <2>7, <3>2 DEF M
    <3> QED BY <2>9, <3>1, <3>2
  <2>11. Append(Received, M) = Received'
    BY <2>4, <2>8, <2>10
  <2> QED BY <2>11 DEF M
<1> QED BY <1>2, <1>3

\* A message that is gathered is received by a step of the channel.
LEMMA GetStep ==
  ASSUME PeerTypes, PeerTypes', WholeInv, NEW k \in DOMAIN order, NEW data \in Seq(Block),
         Len(data) = Blocks[order[k]], \A i \in 1 .. Len(data) : data[i] = <<order[k], i>>,
         got' = Append(got, data), UNCHANGED order,
         NEW h \in Nat, NEW b \in Nat, NEW x \in At, Piece(h, k, b, x)
  PROVE  Channel!Get(k)
<1>1. order[k] \in Message /\ k \in Nat /\ k # 0
  <2>1. order \in Seq(Message) /\ DOMAIN order = 1 .. Len(order) /\ k \in Nat /\ k >= 1
    BY OrderIs
  <2> QED BY <2>1, SMT
<1>2. Proper(data) /\ Meaning(data) = order[k]
  BY <1>1, WholeIs
<1>3. Newest' = k
  BY <1>2, NewestMoves DEF WholeInv
<1>4. Newest <= k
  BY DEF WholeInv, NothingOlder, Flow
<1>5. Received' = Append(Received, order[k])
  BY <1>2, ReceivedIs
<1> QED BY <1>1, <1>3, <1>4, <1>5 DEF Channel!Get

LEMMA ChannelInit == Init => Channel!Init
<1> SUFFICES ASSUME Init PROVE Channel!Init
  OBVIOUS
<1>1. order = <<>> /\ got = <<>>
  BY DEF Init
<1>2. Received = <<>>
  BY <1>1 DEF Received
<1>3. Newest = 0
  BY <1>1, NewestNone, NewestIsOf
<1> QED BY <1>1, <1>2, <1>3 DEF Channel!Init

\* What the queue gets that is no message means none.
LEMMA EndsMean == Meaning(Eof) = "eof" /\ Meaning(Spoilt) = "spoilt"
<1>1. ASSUME NEW m \in Message, NEW n \in {0, 1}, <<<<NoMessage, n>>>> = Whole(m)
      PROVE  FALSE
  <2>1. 1 \in 1 .. Blocks[m]
    BY BlocksAre, CanPeerAssumption, SMT
  <2>2. Whole(m)[1] = <<m, 1>>
    BY <2>1 DEF Whole
  <2>3. <<<<NoMessage, n>>>>[1] = <<NoMessage, n>>
    OBVIOUS
  <2>4. <<m, 1>> = <<NoMessage, n>>
    BY <1>1, <2>2, <2>3
  <2>5. m = NoMessage
    BY <2>4
  <2> QED BY <2>5, CanPeerAssumption
<1>2. Eof # Spoilt
  <2>1. ~ 0 = 1
    OBVIOUS
  <2> QED BY <2>1 DEF Eof, Spoilt
<1>3. ~ (\E m \in Message : Eof = Whole(m)) /\ ~ (\E m \in Message : Spoilt = Whole(m))
  BY <1>1 DEF Eof, Spoilt
<1> QED BY <1>2, <1>3 DEF Meaning

LEMMA ChannelNext ==
  ASSUME PeerTypes, PeerTypes', AckInv, WholeInv, WholeInv', [Next]_vars
  PROVE  [Channel!Next]_<<order, Received, Newest>>
<1>1. ASSUME UNCHANGED <<order, got>>
      PROVE  UNCHANGED <<order, Received, Newest>>
  <2>1. Received' = Received
    BY <1>1, ReceivedIs
  <2>2. Newest' = Newest
    BY <1>1, NewestKept DEF WholeInv
  <2> QED BY <1>1, <2>1, <2>2
<1>2. ASSUME NEW m \in Message, Send(m)
      PROVE  Channel!Give(m)
  <2>1. order' = Append(order, m) /\ UNCHANGED got
    BY <1>2 DEF Send, server
  <2>2. Received' = Received
    BY <2>1, ReceivedIs
  <2>3. Newest' = Newest
    BY <2>1, NewestStays DEF WholeInv
  <2> QED BY <2>1, <2>2, <2>3 DEF Channel!Give
<1>11. ASSUME FirstHandled, got' = Append(got, Spoilt)
       PROVE  Channel!Spoil
  <2>1. UNCHANGED order
    BY <1>11 DEF FirstHandled, client
  <2>2. Received' = Append(Received, "spoilt")
    BY <1>11, QueueEnds, EndsMean, ReceivedIs
  <2>3. Newest' = Newest
    BY <1>11, <2>1, NewestKept DEF WholeInv
  <2> QED BY <2>1, <2>2, <2>3 DEF Channel!Spoil
<1>3. ASSUME FirstHandled, got' \notin {got, Append(got, Spoilt)}
      PROVE  \E k \in DOMAIN order : Channel!Get(k)
  <2>1. /\ got' = Append(got, rdata) /\ rdata \in Seq(Block)
        /\ BlockAt(0) \in Nat /\ CountAt(0) \in At
    BY <1>3, FirstHandledGets
  <2>2. PICK k \in DOMAIN order :
          /\ Piece(0, k, BlockAt(0), CountAt(0)) /\ Len(rdata) = Blocks[order[k]]
          /\ \A i \in 1 .. Len(rdata) : rdata[i] = <<order[k], i>>
    BY <1>3, FirstHandledGets
  <2>3. UNCHANGED order /\ 0 \in Nat
    BY <1>3 DEF FirstHandled, client
  <2> QED BY <2>1, <2>2, <2>3, GetStep
<1>4. ASSUME NextFrame, got' # got
      PROVE  \E k \in DOMAIN order : Channel!Get(k)
  <2>1. PICK data, k : Gathers(data, k)
    BY <1>4, NextFrameGets
  <2>2. /\ k \in DOMAIN order /\ Piece(1, k, bus[1].block, bus[1].number.at)
        /\ data \in Seq(Block) /\ \A i \in 1 .. Len(data) : data[i] = <<order[k], i>>
        /\ got' = Append(got, data) /\ Len(data) = Blocks[order[k]]
    BY <1>4, <2>1 DEF Gathers
  <2>3. UNCHANGED order /\ 1 \in Nat
    BY <1>4 DEF NextFrame, Incoming, client
  <2>4. bus[1].block \in Nat /\ bus[1].number.at \in At
    <3>1. bus # <<>> /\ bus \in Seq(Frame)
      BY <1>4 DEF NextFrame, Incoming, PeerTypes
    <3>2. bus[1] \in Frame
      BY <3>1, TailIs
    <3>3. bus[1].block \in Nat /\ bus[1].number \in Number
      BY <3>2 DEF Frame
    <3> QED BY <3>3, NumberIs
  <2>5. Channel!Get(k)
    BY <2>2, <2>3, <2>4, GetStep
  <2> QED BY <2>2, <2>5
<1>5. ASSUME DisconnectFrame, got' # got
      PROVE  Channel!Close
  <2>1. got' = Append(got, Eof) /\ UNCHANGED order
    BY <1>5 DEF DisconnectFrame, Incoming, client
  <2>4. Received' = Append(Received, "eof")
    BY <2>1, QueueEnds, EndsMean, ReceivedIs
  <2>5. Newest' = Newest
    BY <2>1, NewestKept DEF WholeInv
  <2> QED BY <2>1, <2>4, <2>5 DEF Channel!Close
<1>6. CASE UNCHANGED vars
  BY <1>1, <1>6 DEF vars, client, server
<1>7. ASSUME NEW m \in Message, Client(m)
      PROVE  Channel!Give(m) \/ UNCHANGED <<order, got>>
  BY <1>2, <1>7 DEF Client, FirstSent, Acknowledged, RestSent, Retry, GiveUp, server
<1>8. CASE Transmit \/ AckReceived \/ Disconnect \/ AckSent \/ FirstFrame
  <2>1. UNCHANGED <<order, got>>
    BY <1>8 DEF Transmit, AckReceived, Disconnect, AckSent, FirstFrame, Incoming, client, server
  <2> QED BY <1>1, <2>1
<1>9. CASE NextFrame \/ DisconnectFrame \/ FirstHandled
  <2>1. UNCHANGED order
    BY <1>9 DEF NextFrame, DisconnectFrame, FirstHandled, Incoming, client
  <2> QED BY <1>1, <1>3, <1>4, <1>5, <1>9, <1>11, <2>1 DEF Channel!Next
<1>10. CASE \E m \in Message : Client(m)
  BY <1>1, <1>7, <1>10 DEF Channel!Next
<1> QED BY <1>6, <1>8, <1>9, <1>10 DEF Next

\* While fewer frames are lost and timeouts come too early than a first frame is
\* sent at most, the peer of the server keeps the promise of the channel,
\* whatever frames are lost, sent again or acknowledged late and in whatever
\* order the tasks of first frames and the next frames come: but for what the
\* task of a message of one block takes from another one, its queue gets whole
\* messages only, each at a place in the order of the numbering that is not
\* before that of the message it got last (Peer.send, _receive_frame).
THEOREM ChannelKept ==
  ASSUME MaxFaults < Tries
  PROVE  Spec => WholeAndInOrder
<1>1. Init => PeerTypes /\ AckInv /\ WholeInv /\ Channel!Init
  BY TypeInit, AckInvInit, WholeInit, ChannelInit
<1>2. (PeerTypes /\ AckInv /\ WholeInv) /\ [Next]_vars => (PeerTypes /\ AckInv /\ WholeInv)'
  BY TypeNext, AckInvNext, WholeNext
<1>3. PeerTypes /\ AckInv /\ WholeInv /\ (PeerTypes /\ AckInv /\ WholeInv)' /\ [Next]_vars
        => [Channel!Next]_<<order, Received, Newest>>
  BY ChannelNext
<1> QED BY <1>1, <1>2, <1>3, PTL DEF Spec, WholeAndInOrder, Channel!Spec

-----------------------------------------------------------------------------
(* Addresses.  Two nodes that want one address contest it: one of them asked *)
(* while the other held it, and each of its questions, but perhaps one whose *)
(* answer is still on its way, cost a fault.  Hence who gets an address that *)
(* somebody has was cheated as often as an address is asked for.             *)

\* A node that waits for an objection to its address or owns it.
Holds(n) == stage[n] = "owner" \/ future[n] = "pending"
Rivals(n, m) == n # m /\ Holds(n) /\ Holds(m) /\ local[n] = local[m]

Has(box, remote) == \E i \in DOMAIN box : box[i] = remote
AcqOf(a) == [dlc |-> "ACQ", src |-> a]
AncOf(a) == {[dlc |-> "ANC_LISTEN", src |-> a], [dlc |-> "ANC_IGN", src |-> a]}

\* A question for the address of n is on its way to m, or an answer to n.
UnderWay(n, m) ==
  \/ Has(inbox[m], AcqOf(local[n]))
  \/ \E f \in AncOf(local[n]) : Has(inbox[n], f)

\* Node n asks for the address that m holds.
Doubted(n, m) ==
  /\ future[n] = "pending"
  /\ \/ questions[n] <= losses
     \/ UnderWay(n, m) /\ questions[n] <= losses + 1

Contested == \A n, m \in Node : Rivals(n, m) => Doubted(n, m) \/ Doubted(m, n)

\* What a node does goes with what it waits for.
Stages ==
  \A n \in Node :
    /\ stage[n] = "acquiring" <=> future[n] # "none"
    /\ stage[n] \in {"acquiring", "owner"} => local[n] \in Address

AddressInv == TypeOK /\ Stages /\ (losses < Questions => Contested)
-----------------------------------------------------------------------------
LEMMA AppendHas ==
  ASSUME NEW S, NEW s \in Seq(S), NEW e \in S
  PROVE  /\ Has(Append(s, e), e)
         /\ \A f : Has(s, f) => Has(Append(s, e), f)
<1>1. /\ DOMAIN Append(s, e) = 1 .. (Len(s) + 1) /\ Append(s, e)[Len(s) + 1] = e
      /\ DOMAIN s = 1 .. Len(s) /\ Len(s) \in Nat
      /\ \A i \in 1 .. Len(s) : Append(s, e)[i] = s[i]
  OBVIOUS
<1>2. Len(s) + 1 \in DOMAIN Append(s, e) /\ DOMAIN s \subseteq DOMAIN Append(s, e)
  BY <1>1
<1> QED
  BY <1>1, <1>2 DEF Has

\* Reading a frame takes away no other.
LEMMA TailHas ==
  ASSUME NEW S, NEW s \in Seq(S), s # <<>>, NEW f, Has(s, f), Head(s) # f
  PROVE  Has(Tail(s), f)
<1>1. PICK i \in DOMAIN s : s[i] = f
  BY DEF Has
<1>2. i \in 1 .. Len(s) /\ Len(s) \in Nat /\ i # 1
  BY <1>1
<1>3. i - 1 \in DOMAIN Tail(s) /\ Tail(s)[i - 1] = s[i]
  BY <1>2
<1> QED
  BY <1>1, <1>3 DEF Has

\* Who does not get a frame that is cast lost it, which is a fault.
LEMMA CastLemma ==
  ASSUME NEW n \in Node, NEW dlc \in Kind, NEW src \in Address, NEW boxes \in [Node -> Seq(RemoteFrame)],
         NEW spent \in Nat, Cast(n, dlc, src, boxes, spent)
  PROVE  /\ inbox' \in [Node -> Seq(RemoteFrame)]
         /\ losses' \in Nat /\ losses' >= spent /\ losses' <= MaxLosses
         /\ \A m \in Node : \A f : Has(boxes[m], f) => Has(inbox'[m], f)
         /\ \A m \in Node \ {n} : Has(inbox'[m], [dlc |-> dlc, src |-> src]) \/ losses' >= spent + 1
<1> DEFINE remote == [dlc |-> dlc, src |-> src]
<1>1. PICK lost \in SUBSET (Node \ {n}) :
        /\ spent + Cardinality(lost) <= MaxLosses
        /\ losses' = spent + Cardinality(lost)
        /\ inbox' = [m \in Node |-> IF m = n \/ m \in lost THEN boxes[m] ELSE Append(boxes[m], remote)]
  BY DEF Cast
<1>2. IsFiniteSet(lost) /\ Cardinality(lost) \in Nat /\ (lost # {} => Cardinality(lost) >= 1)
  <2>1. IsFiniteSet(lost)
    BY FS_Subset, CanAddressAssumption
  <2> QED
    BY <2>1, FS_CardinalityType, FS_EmptySet
<1>3. remote \in RemoteFrame
  BY DEF RemoteFrame
<1>4. \A m \in Node : /\ Append(boxes[m], remote) \in Seq(RemoteFrame)
                      /\ Has(Append(boxes[m], remote), remote)
                      /\ \A f : Has(boxes[m], f) => Has(Append(boxes[m], remote), f)
  BY <1>3, AppendHas
<1> QED
  BY <1>1, <1>2, <1>4

\* A node still waits for an objection that it is owed.
LEMMA StillDoubted ==
  ASSUME NEW n \in Node, NEW m \in Node, questions[n] \in Nat, losses \in Nat, losses' \in Nat,
         Doubted(n, m), future'[n] = "pending", questions'[n] = questions[n], losses' >= losses,
         UnderWay(n, m) => UnderWay(n, m)' \/ losses' >= losses + 1
  PROVE  Doubted(n, m)'
<1>1. CASE questions[n] <= losses
  BY <1>1 DEF Doubted
<1>2. CASE UnderWay(n, m) /\ questions[n] <= losses + 1
  BY <1>2 DEF Doubted
<1> QED
  BY <1>1, <1>2 DEF Doubted

\* No frame got lost from an inbox: what is under way remains so.
LEMMA StillUnderWay ==
  ASSUME NEW n \in Node, NEW m \in Node, UnderWay(n, m), local'[n] = local[n],
         \A x \in Node : \A f : Has(inbox[x], f) => Has(inbox'[x], f)
  PROVE  UnderWay(n, m)'
BY DEF UnderWay

\* Two nodes that a step does not concern.
Steady(n) == /\ Holds(n) /\ local'[n] = local[n] /\ questions'[n] = questions[n] /\ future'[n] = future[n]
NoneLost == /\ losses' \in Nat /\ losses' >= losses
            /\ \A x \in Node : \A f : Has(inbox[x], f) => Has(inbox'[x], f)

LEMMA SteadyDoubt ==
  ASSUME TypeOK, NoneLost, NEW n \in Node, NEW m \in Node, Doubted(n, m), Steady(n)
  PROVE  Doubted(n, m)'
<1>1. UnderWay(n, m) => UnderWay(n, m)'
  BY StillUnderWay DEF NoneLost, Steady
<1>2. questions[n] \in Nat /\ losses \in Nat /\ future[n] = "pending"
  BY CanAddressAssumption DEF TypeOK, Doubted
<1> QED
  BY <1>1, <1>2, StillDoubted DEF NoneLost, Steady

LEMMA SamePair ==
  ASSUME TypeOK, Contested, NoneLost, NEW n \in Node, NEW m \in Node, Rivals(n, m)',
         Steady(n), Steady(m)
  PROVE  Doubted(n, m)' \/ Doubted(m, n)'
<1>1. Rivals(n, m)
  BY DEF Rivals, Steady
<1> QED
  BY <1>1, SteadyDoubt DEF Contested

\* A step that makes no node a holder and takes no frames away.
LEMMA SameContest ==
  ASSUME TypeOK, Contested, NoneLost, \A x \in Node : Holds(x)' => Steady(x)
  PROVE  Contested'
BY SamePair DEF Contested, Rivals

-----------------------------------------------------------------------------
LEMMA InitAddress == AddressInit => AddressInv
<1> SUFFICES ASSUME AddressInit PROVE AddressInv
  OBVIOUS
<1>1. TypeOK
  BY CanAddressAssumption DEF AddressInit, TypeOK
<1>2. Stages /\ Contested
  BY DEF AddressInit, Stages, Contested, Rivals, Holds
<1> QED
  BY <1>1, <1>2 DEF AddressInv

LEMMA DoubtArises ==
  ASSUME NEW n \in Node, NEW m \in Node, future'[n] = "pending",
         \/ questions'[n] <= losses'
         \/ UnderWay(n, m)' /\ questions'[n] <= losses' + 1
  PROVE  Doubted(n, m)'
BY DEF Doubted

LEMMA AcquireStep ==
  ASSUME AddressInv, NEW n \in Node, NEW a \in Address, Acquire(n, a)
  PROVE  AddressInv'
<1> USE CanAddressAssumption DEF AddressInv, TypeOK
<1>1. /\ inbox' \in [Node -> Seq(RemoteFrame)] /\ NoneLost
      /\ \A m \in Node \ {n} : Has(inbox'[m], AcqOf(a)) \/ losses' >= losses + 1
  BY CastLemma DEF Acquire, Kind, NoneLost, AcqOf
<1>count. losses \in Nat /\ losses' \in Nat /\ losses' >= losses
  BY <1>1 DEF NoneLost
<1>2. TypeOK'
  <2>1. UNCHANGED <<listening, available, discovers>> /\ 1 \in 0 .. Questions
    BY DEF Acquire
  <2>2. /\ local' \in [Node -> Address \cup {NoAddress}]
        /\ future' \in [Node -> {"none", "pending", "conflict", "taken"}]
        /\ questions' \in [Node -> 0 .. Questions]
        /\ stage' \in [Node -> {"idle", "acquiring", "owner", "failed"}]
        /\ attempts' \in [Node -> Nat]
    BY <2>1 DEF Acquire
  <2> QED
    BY <1>count, <1>1, <2>1, <2>2
<1>3. Stages'
  BY DEF Acquire, Stages
<1>4. ASSUME losses < Questions PROVE Contested'
  <2> SUFFICES ASSUME NEW x \in Node, NEW y \in Node, Rivals(x, y)'
               PROVE  Doubted(x, y)' \/ Doubted(y, x)'
    BY DEF Contested
  <2>1. \A z \in Node \ {n} : Holds(z)' => Steady(z)
    BY DEF Acquire, Holds, Steady
  <2>2. ASSUME NEW z \in Node \ {n}, Rivals(n, z)' PROVE Doubted(n, z)'
    <3>1. local'[n] = a /\ future'[n] = "pending" /\ questions'[n] = 1
      BY DEF Acquire
    <3>2. Has(inbox'[z], AcqOf(a)) => UnderWay(n, z)'
      BY <3>1 DEF UnderWay
    <3>3. Has(inbox'[z], AcqOf(a)) \/ losses' >= losses + 1
      BY <1>1
    <3>4. CASE UnderWay(n, z)'
      BY <1>count, <3>1, <3>4, DoubtArises
    <3>5. CASE losses' >= losses + 1
      BY <1>count, <3>1, <3>5, DoubtArises
    <3> QED
      BY <3>2, <3>3, <3>4, <3>5
  <2>3. CASE x = n \/ y = n
    BY <2>2, <2>3 DEF Rivals
  <2>4. CASE x # n /\ y # n
    BY <1>1, <1>4, <2>1, <2>4, SamePair DEF Rivals
  <2> QED
    BY <2>3, <2>4
<1> QED
  BY <1>1, <1>2, <1>3, <1>4 DEF NoneLost

\* An objection on its way makes it a fault to go on.
LEMMA UnderWayIsUnheard ==
  ASSUME NEW n \in Node, NEW m \in Node, n # m, UnderWay(n, m)
  PROVE  ~ Heard(n)
BY DEF UnderWay, Heard, Has, AcqOf, AncOf

LEMMA AskAgainStep ==
  ASSUME AddressInv, NEW n \in Node, AskAgain(n)
  PROVE  AddressInv'
<1> USE CanAddressAssumption DEF AddressInv, TypeOK
<1>1. local[n] \in Address /\ questions[n] \in Nat /\ questions[n] < Questions /\ stage[n] = "acquiring"
  BY DEF AskAgain, LastTry, Stages
<1>2. Waited(n) \in Nat /\ Waited(n) >= losses /\ (~ Heard(n) => Waited(n) = losses + 1)
  BY DEF Waited
<1>3. /\ inbox' \in [Node -> Seq(RemoteFrame)] /\ NoneLost /\ losses' >= Waited(n)
      /\ \A m \in Node \ {n} : Has(inbox'[m], AcqOf(local[n])) \/ losses' >= Waited(n) + 1
  <2>1. Cast(n, "ACQ", local[n], inbox, Waited(n)) /\ "ACQ" \in Kind
    BY DEF AskAgain, Kind
  <2>2. /\ inbox' \in [Node -> Seq(RemoteFrame)]
        /\ losses' \in Nat /\ losses' >= Waited(n)
        /\ \A m \in Node : \A f : Has(inbox[m], f) => Has(inbox'[m], f)
        /\ \A m \in Node \ {n} : Has(inbox'[m], AcqOf(local[n])) \/ losses' >= Waited(n) + 1
    BY <1>1, <1>2, <2>1, CastLemma DEF AcqOf
  <2> QED
    BY <1>2, <2>2 DEF NoneLost
<1>count. losses \in Nat /\ losses' \in Nat /\ losses' >= losses
  BY <1>3 DEF NoneLost
<1>4. TypeOK'
  <2>1. /\ UNCHANGED <<local, future, listening, available, stage, attempts, discovers>>
        /\ questions' \in [Node -> 0 .. Questions]
    BY <1>1 DEF AskAgain
  <2> QED
    BY <1>count, <1>3, <2>1
<1>5. Stages'
  BY DEF AskAgain, Stages
<1>6. ASSUME losses < Questions PROVE Contested'
  <2> SUFFICES ASSUME NEW x \in Node, NEW y \in Node, Rivals(x, y)'
               PROVE  Doubted(x, y)' \/ Doubted(y, x)'
    BY DEF Contested
  <2>1. \A z \in Node \ {n} : Holds(z)' => Steady(z)
    BY DEF AskAgain, Holds, Steady
  <2>2. ASSUME NEW z \in Node \ {n}, Rivals(n, z)' PROVE Doubted(n, z)' \/ Doubted(z, n)'
    <3>1. /\ local'[n] = local[n] /\ future'[n] = "pending" /\ questions'[n] = questions[n] + 1
          /\ Rivals(n, z) /\ Holds(z)'
      BY <2>2 DEF AskAgain, Rivals, Holds
    <3>2. CASE Doubted(z, n)
      BY <1>3, <2>1, <3>1, <3>2, SteadyDoubt
    <3>3. CASE UnderWay(n, z) /\ questions[n] <= losses + 1
      <4>1. UnderWay(n, z)' /\ losses' >= losses + 1
        <5>1. UnderWay(n, z)'
          BY <1>3, <3>1, <3>3, StillUnderWay DEF NoneLost
        <5>2. ~ Heard(n)
          BY <3>3, UnderWayIsUnheard
        <5> QED
          BY <1>2, <1>3, <1>count, <5>1, <5>2
      <4>2. questions'[n] <= losses' + 1
        BY <1>count, <1>1, <3>1, <3>3, <4>1
      <4> QED
        BY <3>1, <4>1, <4>2, DoubtArises
    <3>4. CASE questions[n] <= losses
      <4>1. Has(inbox'[z], AcqOf(local[n])) => UnderWay(n, z)'
        BY <3>1 DEF UnderWay
      <4>2. Has(inbox'[z], AcqOf(local[n])) \/ losses' >= losses + 1
        <5>1. Has(inbox'[z], AcqOf(local[n])) \/ losses' >= Waited(n) + 1
          BY <1>3
        <5> QED
          BY <1>count, <1>2, <5>1
      <4>3. \/ questions'[n] <= losses'
            \/ UnderWay(n, z)' /\ questions'[n] <= losses' + 1
        BY <1>count, <1>1, <3>1, <3>4, <4>1, <4>2
      <4> QED
        BY <3>1, <4>3, DoubtArises
    <3> QED
      BY <1>6, <3>1, <3>2, <3>3, <3>4 DEF Contested, Doubted
  <2>3. CASE x = n \/ y = n
    BY <2>2, <2>3 DEF Rivals
  <2>4. CASE x # n /\ y # n
    BY <1>3, <1>6, <2>1, <2>4, SamePair DEF Rivals
  <2> QED
    BY <2>3, <2>4
<1> QED
  BY <1>3, <1>4, <1>5, <1>6 DEF NoneLost

LEMMA OwnStep ==
  ASSUME AddressInv, NEW n \in Node, Own(n)
  PROVE  AddressInv'
<1> USE CanAddressAssumption DEF AddressInv, TypeOK
<1>1. local[n] \in Address /\ questions[n] = Questions /\ future[n] = "pending"
  BY DEF Own, LastTry, Stages
<1>2. NoneLost /\ (~ Heard(n) => losses' = losses + 1)
  BY DEF Own, Waited, NoneLost
<1>3. TypeOK'
  BY <1>2 DEF Own, NoneLost
<1>4. Stages'
  BY <1>1 DEF Own, Stages
<1>5. ASSUME losses' < Questions PROVE Contested'
  <2> SUFFICES ASSUME NEW x \in Node, NEW y \in Node, Rivals(x, y)'
               PROVE  Doubted(x, y)' \/ Doubted(y, x)'
    BY DEF Contested
  <2>0. losses < Questions
    BY <1>2, <1>5 DEF NoneLost
  <2>1. \A z \in Node \ {n} : Holds(z)' => Steady(z)
    BY DEF Own, Holds, Steady
  <2>2. ASSUME NEW z \in Node \ {n}, Rivals(n, z)' PROVE Doubted(z, n)'
    <3>1. Rivals(n, z) /\ Holds(z)'
      BY <1>1, <2>2 DEF Own, Rivals, Holds
    <3>2. ~ Doubted(n, z)
      BY <1>1, <1>2, <1>5, <3>1, UnderWayIsUnheard DEF Doubted, NoneLost
    <3> QED
      BY <1>2, <2>0, <2>1, <3>1, <3>2, SteadyDoubt DEF Contested
  <2>3. CASE x = n \/ y = n
    BY <2>2, <2>3 DEF Rivals
  <2>4. CASE x # n /\ y # n
    BY <1>2, <2>0, <2>1, <2>4, SamePair DEF Rivals
  <2> QED
    BY <2>3, <2>4
<1> QED
  BY <1>3, <1>4, <1>5

\* A step of an owner, or one that ends a claim: no node becomes a holder.
LEMMA ObjectedStep ==
  ASSUME AddressInv, NEW n \in Node, Objected(n) \/ Deactivate(n)
  PROVE  AddressInv'
<1> USE DEF AddressInv
<1>1. TypeOK'
  <2>1. CASE Objected(n)
    BY <2>1 DEF Objected, TypeOK
  <2>2. CASE Deactivate(n)
    BY <2>2 DEF Deactivate, TypeOK
  <2> QED
    BY <2>1, <2>2
<1>2. Stages'
  BY DEF Objected, Deactivate, Stages, TypeOK
<1>3. \A x \in Node : Holds(x)' => Steady(x)
  BY DEF Objected, Deactivate, Stages, TypeOK, Holds, Steady
<1>4. NoneLost /\ losses' = losses
  BY DEF Objected, Deactivate, NoneLost, TypeOK
<1> QED
  BY <1>1, <1>2, <1>3, <1>4, SameContest

LEMMA AnnounceLemma ==
  ASSUME TypeOK, NEW n \in Node, local[n] \in Address,
         NEW boxes \in [Node -> Seq(RemoteFrame)], Announce(n, boxes)
  PROVE  /\ inbox' \in [Node -> Seq(RemoteFrame)]
         /\ losses' \in Nat /\ losses' >= losses
         /\ \A m \in Node : \A f : Has(boxes[m], f) => Has(inbox'[m], f)
         /\ \A m \in Node \ {n} : \/ \E f \in AncOf(local[n]) : Has(inbox'[m], f)
                                  \/ losses' >= losses + 1
<1> DEFINE dlc == IF listening'[n] THEN "ANC_LISTEN" ELSE "ANC_IGN"
<1>1. dlc \in Kind /\ [dlc |-> dlc, src |-> local[n]] \in AncOf(local[n])
  BY DEF Kind, AncOf
<1>2. losses \in Nat /\ Cast(n, dlc, local[n], boxes, losses)
  BY DEF TypeOK, Announce
<1> QED
  BY <1>1, <1>2, CastLemma

LEMMA OwnerStep ==
  ASSUME AddressInv, NEW n \in Node, Bind(n) \/ Discover(n)
  PROVE  AddressInv'
<1> USE DEF AddressInv
<1>1. inbox \in [Node -> Seq(RemoteFrame)] /\ local[n] \in Address /\ losses \in Nat
  BY DEF TypeOK, Bind, Discover, Stages
<1>2. inbox' \in [Node -> Seq(RemoteFrame)] /\ NoneLost
  <2>1. CASE Bind(n)
    BY <1>1, <2>1, AnnounceLemma DEF Bind, NoneLost
  <2>2. CASE Discover(n)
    <3>1. PICK dlc \in {"DISC_LISTEN", "DISC_IGN", "DISC"} : Cast(n, dlc, local[n], inbox, losses)
      BY <2>2 DEF Discover
    <3>2. dlc \in Kind
      BY DEF Kind
    <3> QED
      BY <1>1, <3>1, <3>2, CastLemma DEF NoneLost
  <2> QED
    BY <2>1, <2>2
<1>3. UNCHANGED <<local, future, questions, stage, available, attempts>>
  BY DEF Bind, Discover, node
<1>4. listening' \in [Node -> BOOLEAN] /\ discovers' \in Nat
  <2>1. CASE Bind(n)
    BY <2>1 DEF Bind, TypeOK
  <2>2. CASE Discover(n)
    BY <2>2 DEF Discover, node, TypeOK
  <2> QED
    BY <2>1, <2>2
<1>5. TypeOK' /\ Stages'
  BY <1>2, <1>3, <1>4 DEF TypeOK, Stages, NoneLost
<1>6. \A x \in Node : Holds(x)' => Steady(x)
  BY <1>3 DEF Holds, Steady
<1>7. losses' < Questions => losses < Questions
  BY <1>1, <1>2, CanAddressAssumption DEF NoneLost
<1> QED
  BY <1>2, <1>5, <1>6, <1>7, SameContest

-----------------------------------------------------------------------------
\* What is left in the inboxes when node n reads a frame.
LEMMA RestLemma ==
  ASSUME inbox \in [Node -> Seq(RemoteFrame)], NEW n \in Node, inbox[n] # <<>>
  PROVE  /\ Rest(n) \in [Node -> Seq(RemoteFrame)]
         /\ Head(inbox[n]) \in RemoteFrame
         /\ \A x \in Node : \A f :
              Has(inbox[x], f) /\ (x = n => f # Head(inbox[n])) => Has(Rest(n)[x], f)
<1>1. inbox[n] \in Seq(RemoteFrame) /\ Rest(n) = [inbox EXCEPT ![n] = Tail(inbox[n])]
  BY DEF Rest
<1>2. Tail(inbox[n]) \in Seq(RemoteFrame) /\ Head(inbox[n]) \in RemoteFrame
  BY <1>1
<1>3. \A f : Has(inbox[n], f) /\ f # Head(inbox[n]) => Has(Tail(inbox[n]), f)
  BY <1>1, TailHas
<1> QED
  BY <1>1, <1>2, <1>3

\* A node that reads a frame changes no more than its future; one that waits for
\* an objection and goes on waiting read none.
LEMMA ReadContest ==
  ASSUME TypeOK, Stages, Contested, NEW n \in Node, Taken(n),
         future' \in [Node -> {"none", "pending", "conflict", "taken"}],
         \A x \in Node \ {n} : future'[x] = future[x],
         future'[n] = "pending" =>
           /\ future[n] = "pending"
           /\ Head(inbox[n]) \notin AncOf(local[n]) \cup {AcqOf(local[n])},
         losses' \in Nat, losses' >= losses,
         \A x \in Node : \A f : Has(Rest(n)[x], f) => Has(inbox'[x], f),
         \A x \in Node \ {n} :
           (Holds(n) /\ Head(inbox[n]) = AcqOf(local[n])) =>
             \/ \E f \in AncOf(local[n]) : Has(inbox'[x], f)
             \/ losses' >= losses + 1
             \/ ~ Holds(n)'
  PROVE  Contested'
<1>1. /\ inbox \in [Node -> Seq(RemoteFrame)] /\ inbox[n] # <<>>
      /\ UNCHANGED <<local, questions, stage>>
      /\ losses \in Nat /\ \A x \in Node : questions[x] \in Nat
  BY CanAddressAssumption DEF TypeOK, Taken
<1>2. \A x \in Node : Holds(x)' => Holds(x)
  BY <1>1 DEF Holds
<1>3. ASSUME NEW x \in Node, NEW y \in Node, Rivals(x, y)', Doubted(x, y)
      PROVE  Doubted(x, y)'
  <2>1. Holds(x)' /\ Holds(y)' /\ x # y /\ local[x] = local[y] /\ Rivals(x, y)
    BY <1>1, <1>2, <1>3 DEF Rivals
  <2>2. future[x] = "pending" /\ future'[x] = "pending"
    <3>1. future[x] = "pending"
      BY <1>3 DEF Doubted
    <3>2. stage[x] # "owner"
      BY <3>1 DEF Stages
    <3> QED
      BY <1>1, <2>1, <3>1, <3>2 DEF Holds
  <2>3. ASSUME UnderWay(x, y) PROVE UnderWay(x, y)' \/ losses' >= losses + 1
    <3>1. CASE Has(inbox[y], AcqOf(local[x]))
      <4>1. CASE y = n /\ Head(inbox[n]) = AcqOf(local[x])
        <5>1. x # n /\ Holds(n) /\ Holds(n)' /\ Head(inbox[n]) = AcqOf(local[n])
          BY <1>2, <2>1, <4>1
        <5>2. \/ \E f \in AncOf(local[n]) : Has(inbox'[x], f)
              \/ losses' >= losses + 1
          BY <5>1
        <5>3. local'[x] = local[n]
          BY <1>1, <2>1, <4>1
        <5> QED
          BY <5>2, <5>3 DEF UnderWay
      <4>2. CASE ~ (y = n /\ Head(inbox[n]) = AcqOf(local[x]))
        BY <1>1, <3>1, <4>2, RestLemma DEF UnderWay
      <4> QED
        BY <4>1, <4>2
    <3>2. CASE \E f \in AncOf(local[x]) : Has(inbox[x], f)
      <4>1. PICK f \in AncOf(local[x]) : Has(inbox[x], f)
        BY <3>2
      <4>2. x = n => f # Head(inbox[n])
        BY <2>2, <4>1
      <4>3. Has(inbox'[x], f)
        BY <1>1, <4>1, <4>2, RestLemma
      <4> QED
        BY <1>1, <4>1, <4>3 DEF UnderWay
    <3> QED
      BY <2>3, <3>1, <3>2 DEF UnderWay
  <2> QED
    BY <1>1, <1>3, <2>2, <2>3, StillDoubted
<1> SUFFICES ASSUME NEW x \in Node, NEW y \in Node, Rivals(x, y)'
             PROVE  Doubted(x, y)' \/ Doubted(y, x)'
  BY DEF Contested
<1>4. Rivals(x, y) /\ Rivals(y, x)'
  BY <1>1, <1>2 DEF Rivals
<1> QED
  BY <1>3, <1>4 DEF Contested

LEMMA ReadStep ==
  ASSUME AddressInv, NEW n \in Node, AskedFor(n) \/ Announced(n) \/ Discovered(n) \/ Ignored(n)
  PROVE  AddressInv'
<1> USE DEF AddressInv
<1> DEFINE remote == Head(inbox[n])
<1>1. /\ inbox \in [Node -> Seq(RemoteFrame)] /\ losses \in Nat /\ Taken(n)
      /\ inbox[n] # <<>> /\ remote \in RemoteFrame /\ Rest(n) \in [Node -> Seq(RemoteFrame)]
  BY RestLemma DEF TypeOK, AskedFor, Announced, Discovered, Ignored, Taken
<1>2. UNCHANGED <<local, questions, listening, available, stage, attempts, discovers>>
  BY <1>1 DEF Taken
<1>3. /\ future' \in [Node -> {"none", "pending", "conflict", "taken"}]
      /\ \A x \in Node \ {n} : future'[x] = future[x]
      /\ future'[n] # "none" <=> future[n] # "none"
      /\ future'[n] = "pending" => future[n] = "pending"
  BY DEF AskedFor, Announced, Discovered, Ignored, TypeOK
<1>4. CASE Announce(n, Rest(n)) /\ UNCHANGED future /\ local[n] \in Address /\ future[n] # "pending"
  <2>1. /\ inbox' \in [Node -> Seq(RemoteFrame)]
        /\ losses' \in Nat /\ losses' >= losses
        /\ \A m \in Node : \A f : Has(Rest(n)[m], f) => Has(inbox'[m], f)
        /\ \A m \in Node \ {n} : \/ \E f \in AncOf(local[n]) : Has(inbox'[m], f)
                                 \/ losses' >= losses + 1
    BY <1>1, <1>4, AnnounceLemma
  <2>2. Contested => Contested'
    BY <1>1, <1>3, <1>4, <2>1, ReadContest
  <2>3. TypeOK' /\ Stages'
    BY <1>2, <1>3, <1>4, <2>1 DEF TypeOK, Stages
  <2>4. losses' < Questions => losses < Questions
    BY <1>1, <2>1, CanAddressAssumption
  <2> QED
    BY <2>2, <2>3, <2>4
<1>5. CASE /\ Discovered(n) /\ future[n] = "pending"
  <2>1. Announce(n, Rest(n)) /\ UNCHANGED future /\ local[n] \in Address
    BY <1>5 DEF Discovered, Asks, TypeOK
  <2>2. /\ inbox' \in [Node -> Seq(RemoteFrame)]
        /\ losses' \in Nat /\ losses' >= losses
        /\ \A m \in Node : \A f : Has(Rest(n)[m], f) => Has(inbox'[m], f)
    BY <1>1, <2>1, AnnounceLemma
  <2>3. remote \notin AncOf(local[n]) \cup {AcqOf(local[n])}
    BY <1>5 DEF Discovered, Asks, AncOf, AcqOf
  <2>4. Contested => Contested'
    BY <1>1, <1>3, <2>1, <2>2, <2>3, ReadContest
  <2>5. TypeOK' /\ Stages'
    BY <1>2, <2>1, <2>2 DEF TypeOK, Stages
  <2>6. losses' < Questions => losses < Questions
    BY <1>1, <2>2, CanAddressAssumption
  <2> QED
    BY <2>4, <2>5, <2>6
<1>6. CASE inbox' = Rest(n) /\ UNCHANGED losses
           /\ (remote \notin AncOf(local[n]) \cup {AcqOf(local[n])} \/ future'[n] # "pending")
           /\ (remote = AcqOf(local[n]) => future[n] = "pending" /\ future'[n] = "conflict")
  <2>1. (Holds(n) /\ remote = AcqOf(local[n])) => ~ Holds(n)'
    <3> SUFFICES ASSUME remote = AcqOf(local[n]) PROVE ~ Holds(n)'
      OBVIOUS
    <3>1. future[n] = "pending" /\ future'[n] = "conflict"
      BY <1>6
    <3>2. stage'[n] = "acquiring"
      BY <1>2, <3>1 DEF Stages
    <3> QED
      BY <3>1, <3>2 DEF Holds
  <2>2. Contested => Contested'
    <3>1. future'[n] = "pending" =>
            /\ future[n] = "pending"
            /\ remote \notin AncOf(local[n]) \cup {AcqOf(local[n])}
      BY <1>3, <1>6
    <3>2. losses' \in Nat /\ losses' >= losses
      BY <1>1, <1>6
    <3>3. \A x \in Node : \A f : Has(Rest(n)[x], f) => Has(inbox'[x], f)
      BY <1>6
    <3> QED
      BY <1>1, <1>3, <2>1, <3>1, <3>2, <3>3, ReadContest
  <2>3. TypeOK' /\ Stages'
    BY <1>1, <1>2, <1>3, <1>6 DEF TypeOK, Stages
  <2> QED
    BY <1>6, <2>2, <2>3
<1>7. CASE AskedFor(n)
  <2>1. remote = AcqOf(local[n]) /\ local[n] \in Address
    BY <1>1, <1>7 DEF AskedFor, AcqOf, RemoteFrame
  <2> QED
    BY <1>4, <1>6, <1>7, <2>1 DEF AskedFor, TypeOK
<1>8. CASE Announced(n)
  <2>1. remote # AcqOf(local[n]) /\ future'[n] # "pending"
    BY <1>8 DEF Announced, AcqOf, TypeOK
  <2> QED
    BY <1>6, <1>8, <2>1 DEF Announced
<1>9. CASE Ignored(n)
  <2>1. remote \notin AncOf(local[n]) \cup {AcqOf(local[n])}
    BY <1>9 DEF Ignored, AncOf, AcqOf
  <2> QED
    BY <1>6, <1>9, <2>1 DEF Ignored
<1>10. CASE Discovered(n) /\ future[n] # "pending"
  BY <1>4, <1>10 DEF Discovered, Asks, TypeOK
<1> QED
  BY <1>5, <1>7, <1>8, <1>9, <1>10

LEMMA NextAddress == AddressInv /\ [AddressNext]_addressVars => AddressInv'
<1> SUFFICES ASSUME AddressInv, [AddressNext]_addressVars PROVE AddressInv'
  OBVIOUS
<1>1. CASE UNCHANGED addressVars
  BY <1>1 DEF addressVars, node, AddressInv, TypeOK, Stages, Contested, Rivals, Holds, Doubted, UnderWay
<1>2. CASE AddressNext
  BY <1>2, AcquireStep, AskAgainStep, OwnStep, ObjectedStep, OwnerStep, ReadStep DEF AddressNext
<1> QED
  BY <1>1, <1>2

\* The fields keep their types; no node asks more than Questions times.
THEOREM AddressTypeCorrect == AddressSpec => []TypeOK
<1>1. AddressInv => TypeOK
  BY DEF AddressInv
<1> QED
  BY InitAddress, NextAddress, <1>1, PTL DEF AddressSpec

\* However many nodes there are and however their frames are delayed, two of them
\* have one address only when Questions frames were lost or too late: an address is
\* asked for eight times (can.py:143-166) because that many losses are needed.
THEOREM OwnersKeepApart == AddressSpec => []OwnersDiffer
<1>1. AddressInv => OwnersDiffer
  <2> SUFFICES ASSUME AddressInv, losses < Questions PROVE OwnersDiffer
    BY CanAddressAssumption DEF OwnersDiffer, AddressInv, TypeOK
  <2>1. \A n, m \in Node :
          ~ (n # m /\ stage[n] = "owner" /\ stage[m] = "owner" /\ local[n] = local[m])
    BY DEF AddressInv, Contested, Rivals, Holds, Doubted, Stages
  <2> QED
    BY <2>1 DEF OwnersDiffer
<1> QED
  BY InitAddress, NextAddress, <1>1, PTL DEF AddressSpec
=============================================================================
