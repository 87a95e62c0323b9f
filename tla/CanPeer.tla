------------------------------- MODULE CanPeer -------------------------------
(***************************************************************************)
(* One connection over a CAN bus, SHVCAN.Peer on either side, in the       *)
(* direction from a client to a server.  A message is cut into blocks of   *)
(* 62 bytes, one frame each.  The first frame is sent again until it is    *)
(* acknowledged, under a lock; the others follow once, from the thread     *)
(* that sends, outside the lock.  Every frame has a counter.  The receiver *)
(* runs one task for every frame, and the task of a first frame awaits the *)
(* sending of the acknowledgement before it looks at the data again.       *)
(***************************************************************************)
EXTENDS Integers, Sequences

CONSTANTS
  Message,      \* messages, each given to Peer.send once
  Greeting,     \* the reset message RpcClientCAN sends when it connects
  NoMessage,    \* nobody holds the lock
  Blocks,       \* the number of blocks of each message, fewer than counters
  Modulus,      \* of the counter: 0x80
  First,        \* the random values a client's counter starts with
  Tries,        \* how often a first frame is sent: 25
  MaxFaults     \* bound: frames lost and timeouts that come too early

ASSUME CanPeerAssumption ==
  /\ Greeting \in Message /\ NoMessage \notin Message
  /\ Modulus \in Nat /\ Modulus > 1 /\ First \subseteq 0 .. Modulus - 2
  /\ Blocks \in [Message -> 1 .. Modulus - 1] /\ Blocks[Greeting] = 1
  /\ Tries \in Nat \ {0} /\ MaxFaults \in Nat

VARIABLES
  phase,     \* of each send: where in Peer.send it is
  lock,      \* who holds _sendlock
  tries,     \* how often the holder sent its first frame
  frame,     \* the number of the first frame of the holder
  scounter,  \* _scounter of the client: counter and last-frame flag
  ack,       \* _acknowledgement: "none", "pending" or "set"
  jobs,      \* frames and generators of frames _sendexecutor has to send
  open,      \* the client did not disconnect
  bus,       \* frames on their way to the server
  acks,      \* acknowledgements on their way to the client
  peer,      \* the server has a Peer for the client
  rdata,     \* _rdata: the blocks so far
  rcounter,  \* _rcounter of the server
  tasks,     \* tasks of first frames that await the sending of the acknowledgement;
             \* "msg" is a history
  got,       \* what was put in the queue of the server's Peer
  faults,
  full,      \* which messages have a last block of 62 bytes too; never changes
  \* Histories: the messages in the order of their numbering; the first frames
  \* the server took; messages whose frames were numbered amid those of another
  \* send; messages that met in the server, one overtaking another's task.
  order, taken, crossed, met

client == <<phase, lock, tries, frame, scounter, ack, open, full, order, crossed>>
server == <<peer, rdata, rcounter, tasks, got, taken, met>>
vars == <<client, jobs, bus, acks, server, faults>>

Number == [at : 0 .. Modulus - 1, last : BOOLEAN]
\* What the queue gets at the end of the connection.
Eof == <<<<NoMessage, 0>>>>
\* What it gets from the task of a message that met another one: whatever rdata
\* is by then.
Spoilt == <<<<NoMessage, 1>>>>
\* Block 0 stands for the disconnect frame.
Frame == [msg : Message, block : Nat, number : Number]

Init ==
  /\ phase = [m \in Message |-> "idle"]
  /\ lock = NoMessage
  /\ tries = 0
  /\ \E n \in First : scounter = [at |-> n, last |-> FALSE]
  /\ frame = scounter
  /\ ack = "none"
  /\ jobs = <<>> /\ bus = <<>> /\ acks = <<>>
  /\ open = TRUE
  /\ peer = FALSE
  /\ rdata = <<>>
  /\ rcounter = [at |-> 0, last |-> FALSE]
  /\ tasks = <<>> /\ got = <<>>
  /\ faults = 0
  /\ full \in SUBSET {m \in Message : Blocks[m] > 1}
  /\ order = <<>> /\ taken = {} /\ crossed = {} /\ met = {}

Fault == faults < MaxFaults /\ faults' = faults + 1

\* A frame is put on the bus, or lost.
Onto(wire, wire1, f) ==
  \/ wire1 = Append(wire, f) /\ UNCHANGED faults
  \/ wire1 = wire /\ Fault

-----------------------------------------------------------------------------
(* The client *)

\* The counter _dataframe gives to the next frame.
Numbered(last) == [at |-> (scounter.at + 1) % Modulus, last |-> last]

\* msglen <= 62 for the first block, (i + 62) > msglen for the others.
IsLast(m, block) ==
  IF block = 1 THEN Blocks[m] = 1 ELSE block = Blocks[m] /\ m \notin full

\* send takes the lock, numbers the first frame and gives it to the executor.
Send(m) ==
  /\ phase[m] = "idle" /\ lock = NoMessage /\ open
  /\ order = <<>> => m = Greeting
  /\ phase' = [phase EXCEPT ![m] = "sending"]
  /\ lock' = m
  /\ tries' = 1
  /\ scounter' = Numbered(IsLast(m, 1))
  /\ frame' = scounter'
  /\ ack' = "pending"
  /\ jobs' = Append(jobs, [msg |-> m, block |-> 1, number |-> frame'])
  /\ order' = Append(order, m)
  /\ LET unsent == {jobs[i].msg : i \in {k \in DOMAIN jobs : jobs[k].block > 1}}
     IN crossed' = IF unsent = {} THEN crossed ELSE crossed \cup unsent \cup {m}
  /\ UNCHANGED <<open, full, bus, acks, server, faults>>

\* The executor's thread sends the next frame: one it was given, or the next
\* one of a generator, which is numbered only now.
Transmit ==
  /\ jobs # <<>>
  /\ LET j == Head(jobs)
         n == Numbered(IsLast(j.msg, j.block))
     IN IF j.block <= 1
        THEN /\ Onto(bus, bus', j)
             /\ jobs' = Tail(jobs)
             /\ UNCHANGED scounter
        ELSE /\ Onto(bus, bus', [j EXCEPT !.number = n])
             /\ jobs' = IF j.block = Blocks[j.msg] THEN Tail(jobs)
                        ELSE [jobs EXCEPT ![1].block = @ + 1]
             /\ scounter' = n
  /\ UNCHANGED <<phase, lock, tries, frame, ack, open, full, order, crossed, acks, server>>

\* The executor is done with what send gave it.
Executed(m) == \A i \in DOMAIN jobs : jobs[i].msg # m \/ jobs[i].block = 0

\* The first frame was sent: send waits for its acknowledgement.
FirstSent(m) ==
  /\ phase[m] = "sending" /\ Executed(m)
  /\ phase' = [phase EXCEPT ![m] = "waiting"]
  /\ UNCHANGED <<lock, tries, frame, scounter, ack, open, full, order, crossed, jobs,
                 bus, acks, server, faults>>

\* The acknowledgement came: the lock is released, the other blocks follow.
Acknowledged(m) ==
  /\ phase[m] = "waiting" /\ ack = "set"
  /\ phase' = [phase EXCEPT ![m] = "rest"]
  /\ lock' = NoMessage
  /\ ack' = "none"
  /\ jobs' = IF Blocks[m] = 1 THEN jobs
             ELSE Append(jobs, [msg |-> m, block |-> 2, number |-> scounter])
  /\ UNCHANGED <<tries, frame, scounter, open, full, order, crossed, bus, acks, server, faults>>

\* The generator of the other frames is exhausted: send returns.
RestSent(m) ==
  /\ phase[m] = "rest" /\ Executed(m)
  /\ phase' = [phase EXCEPT ![m] = "sent"]
  /\ UNCHANGED <<lock, tries, frame, scounter, ack, open, full, order, crossed, jobs,
                 bus, acks, server, faults>>

\* Nothing of m, nor an answer to it, is under way: the timeout is due.
Quiet == bus = <<>> /\ acks = <<>> /\ tasks = <<>>
Due == IF Quiet THEN UNCHANGED faults ELSE Fault

\* Variant: tries are not counted.
NextTry_Same == tries

NextTry == tries + 1

\* 0.2 seconds without acknowledgement: the same frame again.
Retry(m) ==
  /\ phase[m] = "waiting" /\ ack = "pending" /\ tries < Tries
  /\ Due
  /\ phase' = [phase EXCEPT ![m] = "sending"]
  /\ tries' = NextTry
  /\ jobs' = Append(jobs, [msg |-> m, block |-> 1, number |-> frame])
  /\ UNCHANGED <<lock, frame, scounter, ack, open, full, order, crossed, bus, acks, server>>

\* The last try: EOFError.
GiveUp(m) ==
  /\ phase[m] = "waiting" /\ ack = "pending" /\ tries = Tries
  /\ Due
  /\ phase' = [phase EXCEPT ![m] = "failed"]
  /\ lock' = NoMessage
  /\ ack' = "none"
  /\ UNCHANGED <<tries, frame, scounter, open, full, order, crossed, jobs, bus, acks, server>>

\* Variant: the number of an acknowledgement is not looked at.
Acknowledges_Any(number) == open /\ ack # "none"

Acknowledges(number) == open /\ ack # "none" /\ number = scounter

\* An acknowledgement comes: it counts if it has the number of the frame that
\* was numbered last and a send waits.  A second one for the same future raises
\* InvalidStateError in the task that handles it, and changes nothing.
AckReceived ==
  /\ acks # <<>>
  /\ acks' = Tail(acks)
  /\ ack' = IF Acknowledges(Head(acks)) THEN "set" ELSE ack
  /\ UNCHANGED <<phase, lock, tries, frame, scounter, open, full, order, crossed, jobs, bus,
                 server, faults>>

\* disconnect: the peer is forgotten and the server told; sends go on, as the
\* bus stays open for the other locals of the SHVCAN.
Disconnect ==
  /\ open /\ order # <<>>
  /\ open' = FALSE
  /\ jobs' = Append(jobs, [msg |-> Greeting, block |-> 0, number |-> scounter])
  /\ UNCHANGED <<phase, lock, tries, frame, scounter, ack, full, order, crossed, bus, acks,
                 server, faults>>

-----------------------------------------------------------------------------
(* The server *)

\* The next frame, whose handler runs up to its first await.
Incoming ==
  /\ bus # <<>>
  /\ bus' = Tail(bus)
  /\ UNCHANGED <<client, jobs, acks, faults>>

\* Messages of one block, whose tasks will take rdata for theirs.
Overtaken == {tasks[i].msg : i \in {k \in DOMAIN tasks : tasks[k].number.last}}

\* The first frame of a message starts over, for a Peer made by it or known.
FirstFrame ==
  /\ Incoming
  /\ LET f == Head(bus) IN
     /\ f.block = 1
     /\ peer' = TRUE
     /\ rdata' = <<<<f.msg, 1>>>>
     /\ rcounter' = f.number
     /\ tasks' = Append(tasks, [msg |-> f.msg, number |-> f.number, acked |-> FALSE,
                                new |-> ~ peer])
     /\ met' = IF Overtaken = {} THEN met ELSE met \cup Overtaken \cup {f.msg}
     /\ taken' = taken \cup {f.msg}
  /\ UNCHANGED got

\* Variant: a frame that was lost is not noticed.
Follows_Any(number) == TRUE

Follows(number) == number.at = (rcounter.at + 1) % Modulus

\* Another frame goes on with the message, is a copy, or comes after a lost one.
NextFrame ==
  /\ Incoming
  /\ LET f == Head(bus)
         copy == rcounter = [at |-> f.number.at, last |-> FALSE]
         data == Append(rdata, <<f.msg, f.block>>)
     IN
     /\ f.block > 1
     /\ \/ /\ ~ peer \/ rdata = <<>> \/ copy
           /\ UNCHANGED <<rdata, rcounter, got>>
        \/ /\ peer /\ rdata # <<>> /\ ~ copy
           /\ ~ Follows(f.number)
           /\ rdata' = <<>>
           /\ UNCHANGED <<rcounter, got>>
        \/ /\ peer /\ rdata # <<>> /\ ~ copy
           /\ Follows(f.number)
           /\ rcounter' = f.number
           /\ rdata' = IF f.number.last THEN <<>> ELSE data
           /\ got' = IF f.number.last THEN Append(got, data) ELSE got
  /\ UNCHANGED <<peer, tasks, taken, met>>

\* The disconnect frame: the queue gets None and the Peer is forgotten; what
\* its tasks still do is seen by nobody.
DisconnectFrame ==
  /\ Incoming
  /\ Head(bus).block = 0
  /\ peer' = FALSE
  /\ got' = IF peer THEN Append(got, Eof) ELSE got
  /\ tasks' = [i \in DOMAIN tasks |-> [tasks[i] EXCEPT !.number.last = FALSE]]
  /\ UNCHANGED <<rdata, rcounter, taken, met>>

\* The executor of the server sends the acknowledgement of the oldest task.
AckSent ==
  /\ \E i \in DOMAIN tasks :
       /\ ~ tasks[i].acked /\ \A k \in 1 .. i - 1 : tasks[k].acked
       /\ tasks' = [tasks EXCEPT ![i].acked = TRUE]
       /\ Onto(acks, acks', tasks[i].number)
  /\ UNCHANGED <<client, jobs, bus, peer, rdata, rcounter, got, taken, met>>

\* Variant: every greeting is reported.
Hidden_Never(t) == FALSE

\* The greeting that made the Peer is not reported.
Hidden(t) == t.new /\ rdata = <<<<Greeting, 1>>>>

\* The task goes on: a message of one block is complete, and taken from rdata,
\* whatever that is now.
FirstHandled ==
  /\ tasks # <<>> /\ Head(tasks).acked
  /\ tasks' = Tail(tasks)
  /\ IF Head(tasks).number.last
     THEN /\ got' = IF Hidden(Head(tasks)) THEN got
                    ELSE Append(got, IF Head(tasks).msg \in met THEN Spoilt ELSE rdata)
          /\ rdata' = <<>>
     ELSE UNCHANGED <<got, rdata>>
  /\ UNCHANGED <<client, jobs, bus, acks, peer, rcounter, taken, met, faults>>

-----------------------------------------------------------------------------
Client(m) == \/ Send(m) \/ FirstSent(m) \/ Acknowledged(m) \/ RestSent(m)
             \/ Retry(m) \/ GiveUp(m)

Next ==
  \/ \E m \in Message : Client(m)
  \/ Transmit \/ AckReceived \/ Disconnect
  \/ FirstFrame \/ NextFrame \/ DisconnectFrame \/ AckSent \/ FirstHandled

\* Both event loops run what is ready, both executors send what they were
\* given, the bus delivers, and timers expire.
Fairness ==
  /\ \A m \in Message : WF_vars(FirstSent(m) \/ Acknowledged(m) \/ RestSent(m)
                                \/ Retry(m) \/ GiveUp(m))
  /\ WF_vars(Transmit) /\ WF_vars(AckReceived)
  /\ WF_vars(FirstFrame \/ NextFrame \/ DisconnectFrame)
  /\ WF_vars(AckSent) /\ WF_vars(FirstHandled)

Spec == Init /\ [][Next]_vars /\ Fairness

-----------------------------------------------------------------------------
(* Properties *)

\* The blocks of m, all of them and in order.
Whole(m) == [i \in 1 .. Blocks[m] |-> <<m, i>>]

\* What was received, in terms of messages.
Meaning(data) ==
  CASE data = Eof -> "eof"
    [] data = Spoilt -> "spoilt"
    [] \E m \in Message : data = Whole(m) -> data[1][1]
    [] OTHER -> "mangled"

Received == [i \in DOMAIN got |-> Meaning(got[i])]

Proper(data) == data # Eof /\ data # Spoilt

\* The place in order of the message that was received last, 0 for none.
Newest ==
  LET heard == {i \in DOMAIN got : Proper(got[i])}
      latest == CHOOSE i \in heard : \A j \in heard : j <= i
      known == {k \in DOMAIN order : order[k] = Received[latest]}
  IN IF heard = {} \/ known = {} THEN 0 ELSE CHOOSE k \in known : TRUE

\* Messages are received whole and in the order of their numbering, whatever
\* frames are lost, sent again or acknowledged late (Peer.send, _receive_frame):
\* all but what the queue gets for a message of one block that met another one
\* in the server, a first frame of one overtaking the task of the other.
Channel == INSTANCE MessageChannel WITH sent <- order, got <- Received, newest <- Newest
WholeAndInOrder == Channel!Spec

\* A send that goes on after its first frame was acknowledged is right to do
\* so: the acknowledgement of an earlier frame is never taken for it.
AckIsTrue == \A m \in Message : phase[m] \in {"rest", "sent"} => m \in taken

\* While nothing is lost and the timeouts are long enough, every message that
\* was sent is received, once and in its place, but for the greeting, which
\* nobody is told of: unless its last block is full, its frames were numbered
\* amid those of another send, or it met another message in the server.
AllArrive ==
  LET well(m) == m \notin full \cup crossed \cup met IN
  (faults = 0 /\ open /\ Quiet
     /\ \A m \in Message : phase[m] \in {"idle", "sent", "failed"})
    => SelectSeq(Received, LAMBDA r : r \in Message /\ well(r))
         = SelectSeq(order, LAMBDA m : m # Greeting /\ well(m))

\* Every send ends, acknowledged or by EOFError.
SendsEnd == \A m \in Message :
  phase[m] = "sending" ~> phase[m] \in {"sent", "failed"}
=============================================================================
