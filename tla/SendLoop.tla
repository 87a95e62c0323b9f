------------------------------ MODULE SendLoop ------------------------------
(***************************************************************************)
(* How an SHVBase peer sends: _send queues a message with a future and     *)
(* waits for it, _send_loop takes one permit of the semaphore for every    *)
(* message, the queued ones before the idle ones, and the receive loop     *)
(* (_loop) stops it.  A message stands for one _send in progress: its      *)
(* future and its place in the queue.                                      *)
(***************************************************************************)
EXTENDS Integers, Sequences, SequencesExt

CONSTANTS
  Handler,     \* responses sent by the tasks of requests
  Reply,       \* messages the receive loop sends itself
  Caller,      \* requests sent by the tasks of the application
  Idle,        \* an idle message in place of a queued one
  IdleMax,     \* idle messages kept at most: Client._send_queue drops the oldest
  MaxPermits   \* bound: permits up to which idle messages are announced

Msg == Handler \cup Reply \cup Caller

ASSUME SendLoopAssumption ==
  /\ Idle \notin Msg
  /\ IdleMax \in Nat \ {0}
  /\ MaxPermits \in Nat

VARIABLES
  queue,    \* __send_queue
  permits,  \* permits of __send_semaphore, the one handed to the loop included
  idle,     \* messages _idle_message would return, one after the other
  loop,     \* _send_loop: at acquire, in client.send, or ended
  item,     \* what client.send was given, when loop is "sending"
  fut,      \* the future of each message
  recv,     \* _loop
  link      \* client.connected

vars == <<queue, permits, idle, loop, item, fut, recv, link>>

Init ==
  /\ queue = <<>>
  /\ permits = 1           \* asyncio.Semaphore()
  /\ idle = 0
  /\ loop = "acquire"
  /\ item = Idle
  /\ fut = [m \in Msg |-> "none"]
  /\ recv = "running"
  /\ link = "up"

Alive == loop \in {"acquire", "sending"}
InFlight(m) == loop = "sending" /\ item = m
Free(m) == fut[m] # "pending" /\ ~ InFlight(m) /\ m \notin ToSet(queue)

\* The receive loop waits for the next message.
Receiving == recv = "running" /\ \A r \in Reply : fut[r] # "pending"

\* Cancelling a task that waits in _send cancels the future it waits for.
Cancelled(ms) ==
  [m \in Msg |-> IF m \in ms /\ fut[m] = "pending" THEN "cancelled" ELSE fut[m]]

-----------------------------------------------------------------------------
(* The senders *)

\* Variant: a message is queued and the loop is not told.
Enqueue_Silent(m, futures) ==
  /\ Free(m)
  /\ queue' = Append(queue, m)
  /\ fut' = [futures EXCEPT ![m] = "pending"]
  /\ UNCHANGED permits

\* _send up to the await of its future.
Enqueue(m, futures) ==
  /\ Free(m)
  /\ queue' = Append(queue, m)
  /\ permits' = permits + 1
  /\ fut' = [futures EXCEPT ![m] = "pending"]

\* A call of the application, whatever became of the connection.
CallSends(m) ==
  /\ m \in Caller
  /\ Enqueue(m, fut)
  /\ UNCHANGED <<idle, loop, item, recv, link>>

\* The task of a request responds.
HandlerSends(m) ==
  /\ m \in Handler
  /\ recv # "ended"
  /\ Enqueue(m, fut)
  /\ UNCHANGED <<idle, loop, item, recv, link>>

\* The receive loop answers what it received.
LoopReplies(r) ==
  /\ Receiving
  /\ Enqueue(r, fut)
  /\ UNCHANGED <<idle, loop, item, recv, link>>

\* The peer aborts the request m responds to: its task is cancelled, then the
\* loop answers the abort itself.
PeerAborts(m, r) ==
  /\ Receiving
  /\ m \in Handler
  /\ Enqueue(r, Cancelled({m}))
  /\ UNCHANGED <<idle, loop, item, recv, link>>

\* The peer resets the connection: every request's task is cancelled.
Reset ==
  /\ Receiving
  /\ fut' = Cancelled(Handler)
  /\ UNCHANGED <<queue, permits, idle, loop, item, recv, link>>

\* The application gives up a call, for example by asyncio.timeout.
CallCancelled(m) ==
  /\ fut[m] = "pending"
  /\ fut' = Cancelled({m})
  /\ UNCHANGED <<queue, permits, idle, loop, item, recv, link>>

\* RpcBroker.Client.send, or the first progress of a request since the last
\* one was sent: another idle message, and a permit for it.
IdleReady ==
  /\ permits < MaxPermits
  /\ idle' = IF idle < IdleMax THEN idle + 1 ELSE idle
  /\ permits' = permits + 1
  /\ UNCHANGED <<queue, loop, item, fut, recv, link>>

\* A request ends before its progress was sent.
IdleWithdrawn ==
  /\ idle > 0
  /\ idle' = idle - 1
  /\ UNCHANGED <<queue, permits, loop, item, fut, recv, link>>

-----------------------------------------------------------------------------
(* The send loop *)

\* Variant: every permit is taken at once.
Acquire_DrainsPermits ==
  /\ loop = "acquire"
  /\ permits > 0
  /\ permits' = 0
  /\ \/ /\ queue # <<>>
        /\ item' = Head(queue)
        /\ queue' = Tail(queue)
        /\ loop' = "sending"
        /\ UNCHANGED idle
     \/ /\ queue = <<>> /\ idle > 0
        /\ item' = Idle
        /\ idle' = idle - 1
        /\ loop' = "sending"
        /\ UNCHANGED queue
     \/ /\ queue = <<>> /\ idle = 0
        /\ UNCHANGED <<queue, idle, loop, item>>
  /\ UNCHANGED <<fut, recv, link>>

\* One permit for one message, a queued one if there is any.
Acquire ==
  /\ loop = "acquire"
  /\ permits > 0
  /\ permits' = permits - 1
  /\ \/ /\ queue # <<>>
        /\ item' = Head(queue)
        /\ queue' = Tail(queue)
        /\ loop' = "sending"
        /\ UNCHANGED idle
     \/ /\ queue = <<>> /\ idle > 0
        /\ item' = Idle
        /\ idle' = idle - 1
        /\ loop' = "sending"
        /\ UNCHANGED queue
     \/ /\ queue = <<>> /\ idle = 0
        /\ UNCHANGED <<queue, idle, loop, item>>
  /\ UNCHANGED <<fut, recv, link>>

\* Variant: a failure is not reported to the one who waits.
Transmitted_ForgetsFailure ==
  /\ loop = "sending"
  /\ IF item # Idle /\ fut[item] = "cancelled"
     THEN loop' = "crashed" /\ UNCHANGED fut
     ELSE /\ loop' = "acquire"
          /\ fut' = IF link = "up" /\ item # Idle THEN [fut EXCEPT ![item] = "sent"] ELSE fut
  /\ UNCHANGED <<queue, permits, idle, item, recv, link>>

\* client.send returned or raised, and the future is told.  Telling a
\* cancelled future raises InvalidStateError, which ends the loop.
Transmitted ==
  /\ loop = "sending"
  /\ IF item # Idle /\ fut[item] = "cancelled"
     THEN loop' = "crashed" /\ UNCHANGED fut
     ELSE /\ loop' = "acquire"
          /\ fut' = IF item = Idle THEN fut
                    ELSE [fut EXCEPT ![item] = IF link = "up" THEN "sent" ELSE "failed"]
  /\ UNCHANGED <<queue, permits, idle, item, recv, link>>

-----------------------------------------------------------------------------
(* The end of the connection *)

LinkLost ==
  /\ link = "up"
  /\ link' = "down"
  /\ UNCHANGED <<queue, permits, idle, loop, item, fut, recv>>

\* SHVBase.disconnect cancels the receive loop, wherever it waits.
Disconnect ==
  /\ recv = "running"
  /\ recv' = "cancelled"
  /\ link' = "down"
  /\ fut' = Cancelled(Reply)
  /\ UNCHANGED <<queue, permits, idle, loop, item>>

\* The "finally" of _loop, after EOFError or the cancellation.
LoopEnds ==
  /\ recv = "cancelled" \/ (Receiving /\ link = "down")
  /\ recv' = "ended"
  /\ loop' = IF Alive THEN "ended" ELSE loop
  /\ fut' = Cancelled(Handler)
  /\ UNCHANGED <<queue, permits, idle, item, link>>

Next ==
  \/ \E m \in Caller : CallSends(m) \/ CallCancelled(m)
  \/ \E m \in Handler : HandlerSends(m)
  \/ \E r \in Reply : LoopReplies(r)
  \/ \E m \in Handler, r \in Reply : PeerAborts(m, r)
  \/ Reset
  \/ IdleReady
  \/ IdleWithdrawn
  \/ Acquire
  \/ Transmitted
  \/ LinkLost
  \/ Disconnect
  \/ LoopEnds

\* asyncio runs the ready tasks, and a transport accepts a message or fails.
\* Nothing is assumed of the peer or the application.
Fairness == WF_vars(Acquire) /\ WF_vars(Transmitted) /\ WF_vars(LoopEnds)

Spec == Init /\ [][Next]_vars /\ Fairness

-----------------------------------------------------------------------------
(* Properties *)

\* Every variable holds what the code's fields may hold.
TypeOK ==
  /\ queue \in Seq(Msg)
  /\ permits \in Nat
  /\ idle \in 0 .. IdleMax
  /\ loop \in {"acquire", "sending", "crashed", "ended"}
  /\ item \in Msg \cup {Idle}
  /\ fut \in [Msg -> {"none", "pending", "sent", "failed", "cancelled"}]
  /\ recv \in {"running", "cancelled", "ended"}
  /\ link \in {"up", "down"}

\* While the send loop runs, there is a permit for every message that waits,
\* queued or idle: the loop never sleeps with work left, whatever was dropped,
\* withdrawn or announced twice.
PermitsCoverWork == Alive => permits >= Len(queue) + idle

\* While the send loop runs, every _send that waits has its message in the
\* queue or in client.send: no one waits for a message that is gone.
WaitingIsQueued ==
  Alive => \A m \in Msg : fut[m] = "pending" => m \in ToSet(queue) \/ InFlight(m)

\* A _send ends, in success, failure or cancellation, unless the loop itself
\* ended.
SendsAreServed ==
  \A m \in Msg : (fut[m] = "pending") ~> (fut[m] # "pending" \/ ~ Alive)
=============================================================================
