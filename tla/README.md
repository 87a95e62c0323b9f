# A TLA+ model of pyshv

pyshv is the Python implementation of Silicon Heaven RPC: peers that exchange
requests, responses and signals over byte transports, and a broker that joins
many peers into one tree of nodes.  Everything runs on one asyncio event loop per
process (the CAN transport adds one sending thread), so what is hard in the
program is mostly order: what another task did between two `await`s, what a
cancelled task left behind, what becomes of a message that comes late, twice or
never.  Beside that there are some thousand lines of conversions, of types,
values, messages, URLs and patterns, whose hazards are at their boundaries.

1. [Inventory](#1-inventory)
2. [Modules](#2-modules)
3. [Runs](#3-runs)
4. [Fairness](#4-fairness)
5. [Proofs](#5-proofs)
6. [What the code does not keep](#6-what-the-code-does-not-keep)
7. [Abstractions](#7-abstractions)
8. [Not modelled](#8-not-modelled)
9. [Plan](#9-plan)

To check a run: `tlc -config <run>.cfg <module>`, with the module of the table in
section 3; to check the proofs: `tlapm <module>Proofs.tla`.  Sources are named
relative to `src/shv/`.

## 1. Inventory

| Part | Source | State | Operations | What is hard | What makes it correct |
|---|---|---|---|---|---|
| Broker core | `broker/broker.py` | `_clients`, `_mounts`, `_subs`, `__next_caller_id`; per client its ID, role, login, queue | login, register, unregister, reset, subscribe, unsubscribe, route a request / response / signal, disconnectClient, idle timeout, EOF | operations of many clients interleave at every await; a client leaves in the middle of any of them | tables agree, mount points are disjoint, responses go back to the asker, who leaves holds nothing |
| Passing on of subscriptions | `broker/broker.py:725` | `_subs_task`, deadlines | expire subscriptions, subscribe at sub-brokers | awaits inside iterations, two clocks | sub-brokers have what is subscribed, and have it again before it expires |
| Broker configuration | `broker/config.py`, `broker/utils.py` | configuration | login, access level, autosetup, mount point generation | several roles, a mount point in the way | the mount point is free, every access has a reason |
| Message exchange of a peer | `rpcapi/base.py` | `_requests`, `_responses`, send queue, semaphore, futures | call, query, retry, abort, respond, progress, reset, disconnect; `ls`, `dir` | timeouts against late answers, cancellation at any await, lost messages | calls end, nothing is left registered, no send is forgotten; `ls` and `dir` tell what there is |
| Client of a broker | `rpcapi/client.py`, `rpcapi/device.py` | login task, `_connected`, `_subscribes` | connect, login, reconnect, resubscribe, call | reconnect while calls wait; the login restarts | who believes to be logged in is, and calls end |
| Value client | `rpcapi/valueclient.py` | cache, futures | get, set, wait, snapshot, update by signal | signals against answers | the cache is what the device said last |
| Message format | `rpcmessage.py`, `rpcdef/errors.py`, `rpcdef/access.py` | request ID counter | classify, respond, abort | what each broker on the way rewrites | what is meant arrives |
| CAN transport | `rpctransport/can.py` | peers, counters, acknowledgement, addresses | send in fragments, acknowledge, acquire an address | frames lost, repeated, mixed; a thread | messages arrive whole and in order, addresses are unique |
| Stream transports | `rpctransport/{stream,tcp,unix,pipe,tty,ws}.py` | position of the reader, clients of a server | frame, escape, checksum; accept, close | resynchronisation, ends at any time | only what was sent is received; each end learns of the other's end |
| File node | `rpcdef/file.py` | offset, two buffers | read, write, seek, flush, truncate | buffers over partial remote calls | behaves as a file |
| Types | `rpctypes/` | none | validate, inflate, deflate, text | widths, limits, bit fields | deflate undoes inflate, text is parsed back |
| Serialisation | `chainpack.py`, `commonpack.py`, `cpon.py` | none | read, write | widths, signs, time zones | reading undoes writing |
| Other conversions | `rpclogin.py`, `rpcurl.py`, `rpcri.py`, `path.py`, `rpcparam.py`, `rpcdef/dir.py` | none | parse, format, match | what is optional, what is like something else | nothing is lost, only the right password passes, a pattern matches what it covers |

How they interact: a transport (`RpcClient`) gives messages to `SHVBase`, whose
receive loop (`_loop`) awaits `_message` for each.  Requests become tasks;
responses are put into the queue of the call that waits; everything sent goes
through one `_send_loop`.  `RpcBroker.Client` overrides `_message`, so that
requests below a mount point, responses with caller IDs and signals go to other
clients: they are appended to the other client's `_send_queue`, and its send loop
is woken as for an "idle message".  Clients of a broker share its tables and
nothing else.

Components with their status, and every hazard with its line, are in
`PROJECT.json`.

## 2. Modules

State machines, in the order in which messages pass through them:

| Module | Models |
|---|---|
| `MessageChannel` | abstract: what one connection promises to its receiver |
| `StreamLink` (`MCTransport`) | a client and a server of a stream transport, byte by byte; implements `MessageChannel` for every connection |
| `CanPeer` (`MCCan`) | one connection over CAN frames; implements `MessageChannel` |
| `CanAddress` (`MCDevice`) | acquisition of dynamic addresses on a CAN bus |
| `SendLoop` | `_send`, `_send_loop`, the queue, the semaphore, and how `_loop` stops them |
| `RpcCall` | `SHVBase.call` on one side, `_requests` on the other, messages in between |
| `ClientSession` (`MCTransport`) | `SHVClient`: the login task, the gate of other calls, losses, reconnects |
| `ValueClient` | `SHVValueClient`: cache, handler, futures and the tasks that use them |
| `ByteFile` | abstract: a file with a position |
| `RpcFile` (`MCDevice`) | `RpcFile` over `FileProvider`, its buffers and calls; implements `ByteFile`, but for single operations |
| `Broker` (`MCBroker`) | the broker's tables, its clients' sessions and the messages between them |
| `BrokerSubs` (`MCBrokerSubs`) | `_subs_loop` between what clients do |

Operators, which one instance checks on bounded inputs:

| Module | Models |
|---|---|
| `RpcTypes`, `RpcTypesStandard`, `RpcTypeText` | the types: validate, inflate and deflate; the standard ones; text and its parser |
| `RpcParam` | `shvget` and its kin, `RpcDir` to and from SHV |
| `RpcLogin`, `RpcUrl`, `ResourceId`, `ChainPack` | logins, URLs, paths and patterns, packed bytes |
| `RpcMessage` | messages: kinds, fields and setters, answers, and what brokers write into them |
| `BrokerConfig` | who may log in with what access and mount point |
| `NodeTree` | what a peer, a device and a broker answer to `ls`, `dir` and the methods of their nodes |
| `Conversions` (`MCConversions`) | takes one input of any of them and states what must come of it |

Proofs: `BrokerProofs`, `BrokerSubsProofs`, `SendLoopProofs`, `RpcCallProofs`,
`ClientSessionProofs`, `ValueClientProofs`, `RpcFileProofs`; and `CanProofs` for both
`CanPeer` and `CanAddress`, whose names are apart for that.

How they fit together.  What `Broker` calls "the loop awaits the sending of its
reply" (`busy`) is a `_send` of `SendLoop`; what it queues for another client is an
idle message of that client's `SendLoop`.  What `RpcCall` sends goes through a
`SendLoop` on either side; there it is one step, because `SendLoop` shows that a send
ends as long as its loop runs.  `ClientSession` has the tasks of `RpcCall` as far as
they wait for the login and for the sender.  `BrokerSubs` refines the part of `Broker`
that is `_subs` by deadlines and by what other brokers were given.  `MessageChannel`
is the promise both kinds of transport are shown to keep, and what `SendLoop` and
`RpcCall` rely on (with losses: a CAN or serial connection may drop a message).

An action is a stretch of code that runs without an await that suspends.  That is
what asyncio guarantees and the granularity at which tasks can interfere.  Where
the code's variables are kept is said at each `VARIABLES`; the lines behind each
definition are in `PROJECT.json`, "map".  Some correspondences worth knowing:

* `Broker`: `link` is the transport and the loop task of a client: `"cancelled"` the
  loop was cancelled and has not noticed yet, `"closing"` and `"failing"` it is in its
  `finally`, `"closed"` and `"dead"` it ended (`"failing"` and `"dead"` with an exception,
  the transport still open).  `waits` are the clients whose end a task of this client
  awaits, `hung` says that such a task went on to send a reply after the send loop was
  gone; the loop cannot end before either is over.  `Login` is the whole branch of
  `LoginClient._message`, `RegisterClient` all of `register_client` with its two
  `ValueError`s and the `lsmod`; `Reset`, `LoopEnds`, `DisconnectClient` and
  `IdleTimeout` contain `UnregisterClient` as the code does.  `Refused`, `Granted` and
  `Protected` are the access checks of `Client._message`.  Each queued message carries
  the caller IDs and, as a history value, who asked.
* `SendLoop`: a message stands for one `_send` under way.  Handlers are request
  tasks (cancelled by an abort, a reset or the end of the loop), replies are sent by
  the receive loop itself, callers are tasks of the application.
* `RpcCall`: the peer's `ready` is the event loop's queue of first steps and done
  callbacks, in order: the place where a request that was sent twice meets the
  callback of its first task.
* `CanPeer`: `jobs` is the queue of the sending thread, which numbers the frames
  after the first when it sends them; `tasks` are the tasks of first frames, which
  await the sending of their acknowledgement before they look at the data again, while
  the next frames are handled.
* `RpcFile`: an operation is a sequence of calls, each of which may fail or be made
  twice; the mapping to `ByteFile` overlays the write buffer on the file.
  The history `astray` says whether the operation meets a case its buffers fail.
* `ValueClient`: `ready` are the tasks that got their answer and did not go on; the
  histories `overtaken` and `origin` say how the cached value got there.
* `BrokerSubs`: `Runs` marks the steps of the task between two awaits, in which
  nothing else happens.

## 3. Runs

| Run | Module | Checks | Instance |
|---|---|---|---|
| `broker_registry` | `MCBroker` | `TablesAreTrue`, `MountsDisjoint`, `OnlyOwnerUnsubscribes`, `EofUnregisters`, `LsmodTracksTree` | 2 clients; a role that mounts on `test/dev1`, `test/dev1/sub`, `test/dev2` or a reserved node and one that only asks; 3 registrations, one pending task per client |
| `broker_routing` | `MCBroker` | `TablesAreTrue`, `ResponseReachesAsker` | 2 clients that both ask and serve, requests of any access level that carry a caller ID already |
| `broker_subs` | `MCBrokerSubs` | `LeasesAreKept`, `SubsReachBrokers` | 2 peers of any kind, 2 identifiers, 2 logins, a lease of 2 ticks renewed every tick |
| `sendloop` | `SendLoop` | `PermitsCoverWork`, `WaitingIsQueued`, `SendsAreServed` | 2 handlers, 1 reply, 1 caller, 2 idle messages, 4 permits |
| `rpccall` | `RpcCall` | `RegisteredIsCurrent`, `WaitingIsReachable`, `CallsEnd` | 1 call, 2 request tasks, 2 request IDs, 2 faults, one of them instead of a second ID |
| `value_client` | `ValueClient` | `CacheIsLatest`, `HandlerSawIt`, `ChangeIsNoticed` | 3 tasks of any operation, one change by the device |
| `can_peer` | `MCCan` | `AckIsTrue`, `AllArrive`, `WholeAndInOrder` (refinement of `MessageChannel`), `SendsEnd` | a greeting and messages of 3 and 1 blocks, the last block full or not, 4 counters, 2 tries, one fault |
| `device` | `MCDevice` | `LocalFile` (refinement of `ByteFile`); `OwnersDiffer` | `RpcFile`: pages and writes of 2 bytes, 3 operations of up to 3 bytes, one fault, one other writer; `CanAddress`: 2 nodes, 2 addresses, 2 tries, 2 faults |
| `transport` | `MCTransport` | `LossBounded`, `WholeAndInOrder` (refinement of `MessageChannel`), `EndIsNoticed`; `LoginIsCurrent`, `CallsEnd` | `StreamLink`: TCP, Unix socket, TTY and WebSocket, 2 connections, 3 messages (2 with the second connection), one damaged or lost byte; `ClientSession`: 2 calls, 2 reconnects, one loss, one reset, one failed reconnect, one cancellation, with and without subscriptions to restore |
| `conversions` | `MCConversions` | eleven invariants, below | the inputs of `MCConversions` |
| `file_always` | `RpcFile` | `AlwaysLocal`, violated | the write buffer alone, no fault, nobody else |
| `cache_always` | `ValueClient` | `AlwaysLatest`, violated | 2 tasks, one change by the device |

The last two check what a docstring says and find it violated (section 6); the
properties of `device` and `value_client` say what is true instead.  `MCDevice` and
`MCTransport` put two systems side by side that share no state: one takes steps in a
behaviour and the other rests, so that each is explored as if alone.

`conversions`: `TypeTextSurvives`, `InflationIsSound` (53 types and 54 values of every
kind), `DescriptionSurvives` (method descriptions with every flag, access and
signal), `LoginIsExact` (every form of login with three secrets), `UrlSurvives`,
`PatternsAreSound` (patterns of three nodes over paths), `PackIsExact` (every length
at which the number of bytes changes, with bytes of a few bits), `MessagesArrive`
(requests and signals through up to three brokers that may each refuse, rewrite
the access and add a user), `MountIsFree` and `AccessHasReason` (a configuration with
roles, autosetups and taken mount points), `TreeIsTold` (a peer, a device and a
broker with clients, and callers of every access).  Products of inputs are taken where
they matter to each other: every answer goes back on the way of one request, and
every request gets an answer of each kind.

Why the instances are enough.  The broker's invariants relate one client to one
other (two that want the same mount point, one that disconnects another, one that
inherits an ID), mount points on, below and beside each other leave a parent that
stays and one that goes, and 3 registrations let a client come back after another one took
the next ID; the proofs of section 5 remove these bounds.  In `sendloop` two
handlers, a reply and a caller make a queue longer than any race in the code looks
at; `MaxPermits` is above the number of messages that may wait at a time.  In
`rpccall` two tasks are what it takes for a retried request to meet its first
execution, two faults let a reset or a loss hit a retry, and the second ID is for
"again" and "user", with one more fault after it or two before its request is
sent.  In `transport` one loss and one reset may each meet the other in the
middle of a login, and a failed reconnect comes between.  In `can_peer` counters wrap within a message and its successor, a
fault may hit a frame, an acknowledgement or a timer, and a message of one block and
one of three may meet in either order; `CanAddress` has as many faults as tries, the
least number with which two nodes can own one address.  In `StreamLink` a fault may hit the start, an escape, the checksum or the end of a message with
another one before and after it.  `RpcFile` has writes that end in, at and after a
page.  `conversions` takes boundaries from the code: both sides of each length,
limit, sign and default.  Symmetry is used only where no liveness is checked.

`CHECK_DEADLOCK FALSE` is in all runs but `broker_subs`: those instances really stop,
when connections are closed and IDs used up, when a loop has ended, or when every
operation is over.

### What the properties except

A property that says what holds "unless" names the case the code does not survive;
none of these cases is kept out of a model.

* `EofUnregisters`: a loop that waits for a task of its own which sends a reply nobody
  takes (`hung`), or that awaits one of several loops which await each other
  (`Endless`); both come of `disconnectClient` and of the idle timeout only.
* `LocalFile`: the operations that are `astray`: a buffered write of more than the
  device takes at a time and not whole pages of it (`Overflows`, `file.py:425-430`) or
  into the middle of what is buffered (`Rewinds`, `417`), a read or truncation with
  something buffered (`Dirty`, `343`), a read of what the read buffer has and the file no
  longer (`Stale`, `351-358`).  Such a read may return anything and changes nothing of
  the file, such a write may put anything there and is over with the operation.
* `CacheIsLatest`: a value of an answer that was handled after a newer signal
  (`valueclient.py:98-101`), or that `get_snapshot` cached for a path that was
  unsubscribed meanwhile (`310`).
* `HandlerSawIt`, `ChangeIsNoticed`: an update that raised.
* `WholeAndInOrder` of `CanPeer`: what the queue gets for a message of one block when
  the next first frame came before its acknowledgement was sent, which is whatever the
  two left in `_rdata` (`can.py:436-447`), marked by `Spoilt`.  `AllArrive` leaves out
  those messages, those with a full last block and those two senders mixed.
* `SendsAreServed`, `CallsEnd`: a send loop that ended or crashed, a client that stopped
  to reconnect.  `SubsReachBrokers`, `LeasesAreKept`: a task that an exception ended, or
  that asks a connection which ended, and subscriptions with a deadline.
* `LsmodTracksTree` is checked for node names none of which is the start of another
  (`StartsWith`).  `UrlSurvives`, `PatternsAreSound`, `PackIsExact`, `InflationIsSound`,
  `AccessHasReason` and `TreeIsTold` name in their statements the values they leave
  out, and why.

## 4. Fairness

* `Broker`: `WF` of the ends of loops and of the tasks that await them, together: a
  task that was cancelled, or whose future is done, is run by asyncio.  Nothing is
  assumed of peers, logins or requests.
* `SendLoop`: `WF` of `Acquire` and `Transmitted` (a ready task runs; a transport
  takes a message or raises) and `LoopEnds`.
* `RpcCall`: `WF` of what the two event loops run, of methods (they end or react to
  cancellation), of taking a message, and of the retry timer.  Not of the query
  timer, and not of anything the application or the network decides.  `CallsEnd` of
  `RpcCall` assumes that a retry timeout does not come before the answer it waits
  for, except `MaxFaults` times.  It has to: with timers that always fire early, a
  retried request and the "No such request" that answers its query can chase each
  other for ever.  The code's defaults, one second and sixty, mean the same.
* `ClientSession`: `WF` of the steps of the tasks, of the sender and of the loop, of
  the broker's answer while the connection is up, and of a reconnect that is not
  refused; losses, resets and failures are bounded.
* `ValueClient`: `WF` of the device's answers, of the receive loop and of woken tasks.
* `CanPeer`: `WF` of each send, the thread, the handlers of frames and
  acknowledgements.  Losses are bounded.
* `StreamLink`: `WF` of the tasks of both ends and of reading a byte that is there.
* `BrokerSubs`: `WF` of the task and of answers, `SF` of the clock: clients do not act
  without end within one tick.  Peers answer within a tick.
* `CanAddress`, `RpcFile` and `Conversions` have safety properties only.  The side that
  rests in `MCDevice` and `MCTransport` has nothing enabled that fairness asks for.

## 5. Proofs

All proofs are checked by TLAPS for every value of the constants: any number of
clients, roles, paths, messages, calls, tasks, nodes, addresses, IDs, tries and
faults.  The only assumptions are the named ones at the constants, which say that
the markers for "none" are not elements of the sets they are added to, that bounds
are numbers, and that a lease is at least two periods (120 and 60 seconds in
`broker.py:762,769`); and what two theorems state as their hypotheses: names that are
apart (`LsmodsAreTrue`), and fewer faults than a first frame has tries
(`AckIsTrueHolds`, `ChannelKept`).

* `BrokerProofs`.  `TablesInv` is the inductive invariant: the types of the tables,
  `RegistryConsistent`, `MountsDisjoint`, that every ID given out is below `nextId`,
  that an ID belongs to a client with a role, and that a client whose loop ended or
  was cancelled has none.  `RegistryConsistent` alone is not inductive: that a new ID is in no table
  yet needs the bound by `nextId`.  It gives `MountsStayDisjoint` and
  `FirstMatchIsTheOnlyOne`, the comment of `client_on_path`.  `TablesStayTrue` adds who
  is awaited (`AwaitedIsLeaving`): a loop somebody waits for never comes back to where
  it could register, whoever waits for whom.  `OwnersUnsubscribe`
  is the action property `OnlyOwnerUnsubscribes`: no other step takes an ID out of
  `subs`, since an ID has one owner.  Its second part is about messages:
  `TypeCorrect`, and `ResponsesReachTheirAsker`: every request under way, in a queue
  or at a peer, ends with the ID of its asker, and an
  ID is given once; so what `get_client` finds is the asker or nobody.
  `LsmodsAreTrue` is the action property `LsmodTracksTree`.  Its hypothesis,
  `NamesAreApart`, is what section 6 says of `startswith`: with `dev1` beside `dev10`
  the signal is wrong.  It rests on `MountsDisjoint`, which keeps a new mount point
  from lying above or below another one, so that the node which appears or goes is
  the first one on its path that no other mount point has.
* `BrokerSubsProofs`.  `TypesKept`, `TaskKnows`, `LeasesKept`.  `LeasesAreKept` speaks of
  a task that sleeps; `SubsInv` says what the task knows on the way there: the mounts
  it has passed by have IDs up to the present one (`Visited`), those were told to be
  brokers or not (`VisitedAreKnown`) and given every subscription in this pass or in
  one before that is not due (`VisitedAreGiven`, `GivenLately`), also when the peer it
  stands at is reset and registers anew while it is asked (`AtOne`).  Two periods are
  what may pass between two gifts, since one that is nearly due is passed over once
  (`SleepsInTime`).  That the next mount is the least ID, and the deadline the
  greatest, comes from the order of the numbers being well-founded (`LeastNat`,
  `MaxIs`).
* `SendLoopProofs`.  `TypeCorrect`, `PermitsAlwaysCoverWork`, `NoSendIsForgotten`;
  the two invariants are inductive with the types.
* `RpcCallProofs`.  `TypeCorrect`, `NothingStaysRegistered`, `CallsStayReachable`.  The last needs that the message which took the registration
  away is the last one in the call's queue, and that no two calls share a request ID;
  both are part of `CallInv`.
* `ClientSessionProofs`.  `TypeCorrect` and `BelievedLoginIsCurrent`.  `LoginIsCurrent`
  speaks of a login that is over; it needs `BeliefIsTrue`, which speaks of its answer
  already, from the moment the broker gave it.
* `ValueClientProofs`.  `WayKept`: a task is in one place of the way of its request
  (`OneAnswer`), and waits for what is there (`Asked`).  `HandlerSaw` needs that what is
  cached while the path is not subscribed was left there by `get_snapshot`
  (`Uncached`).  Neither has a hypothesis.
* `RpcFileProofs`.  `FileIsLocal`: every step of `RpcFile` is a step of `ByteFile`, or
  changes nothing of it, or is one of an operation that is `astray`; so `LocalFile` holds
  for files, pages, writes and buffers of any size and any number of operations and
  faults.  `PlainIsLocal`: without buffers no operation is astray, and every step is a
  local file's.  The invariant has a part for
  each kind of operation.  `Writing`: an unbuffered write ends where its data ends.
  `Pushing`: what is left to write makes of the file what the whole buffer makes of
  it; a call that is made again, or one piece of a buffer, keeps that, because of two
  facts about `Overwrite` (`OverwriteTwice`: two adjacent writes are one;
  `OverwritePart`: to write a part of the data first changes nothing).  `Appending`:
  what is being appended is what the buffer has, whose read buffer agrees with the
  file.  `Reading`: what a read has collected is in the file where the read thinks it
  is, unless it is astray, and pages are read until they cover what was asked for.  The lemmas before it
  are about `SubSeq`, concatenation and `Overwrite` alone; those after it take one
  action each.  The theorems have no hypothesis.
* `CanProofs`, about `CanPeer`.  `TypeCorrect` and `AckIsTrueHolds`.  An acknowledgement has a
  number and no message, so that it is taken for the right one depends on when the
  numbers come round.  `AckInv` looks at what is under way as one sequence: the
  acknowledgements on their way back, those the server has yet to send, the first
  frames on the bus, and those the thread has yet to send.  They come in the order of
  their numbers (`InTurn`), and the counter is further from coming round to the oldest
  of them than there are blocks left to number (`Spaced`).  While nobody holds the
  lock, and once a first frame was sent more often than frames were lost, nothing old
  is under way (`Waits`); hence the acknowledgement that fits the number is that of the
  present message, which the server took (`Told`).  The proof has a lemma for each
  action, and `Carried` for the steps that only move what is under way.  The hypothesis
  is needed: a send that gave up may leave its frames and acknowledgements under way,
  and with one try, three faults, a counter of two values and messages of one block TLC
  finds `AckIsTrue` violated.
* `CanProofs`, the refinement.  `ChannelKept`: every step of `CanPeer` is one of
  `MessageChannel` or changes nothing of it.  A receiver only sees that the next counter
  is one more than the last; that it is also the next block of the same message is what
  has to be proved.  `WholeInv` looks at the blocks gathered and the frames on the bus as
  one sequence of pieces.  Of two of them (`InLine`) the later one is a first frame of a
  later message or of the same one, or the same message goes on there, and then their
  counters are as many apart as their blocks, or one more, as a `send` may have numbered
  a first frame in between; with fewer blocks than counters, a counter one more means
  the next block.  Frames after the first are of one message (`Streaming`, `FirstOnly`), and
  the generator goes on where the last one ended (`ToSend`).  That the next message only
  starts when the first frame of the one before was taken or cannot arrive any more
  (`Passed`) comes from `AckInv`.  `NothingOlder` is the order itself: nothing older than
  what was received last is under way.  The gathered blocks are those of the last first
  frame also while the tasks of several wait (`Gathered`); only what a task takes that
  met another one is left open, and marked.
* `CanProofs`, about `CanAddress`.  `AddressTypeCorrect` and `OwnersKeepApart`.
  `AddressInv` says that of two nodes that hold one address one asked for it while the
  other held it (`Contested`), and that each of its questions, but perhaps one that is
  still under way with its answer, cost a fault (`Doubted`, `UnderWay`).  Who asked
  `Questions` times was cheated `Questions` times.

Model-checked only: `CacheIsLatest`, whose proof would have to foretell what the
answers on the wire do to the subscription; `AllArrive` and `LossBounded`, which count
what was received by a selection or a fold of the histories; liveness (`EofUnregisters`, `SendsAreServed`, both `CallsEnd`,
`SendsEnd`, `ChangeIsNoticed`, `EndIsNoticed`, `SubsReachBrokers`), which is out of the
prover's reach; and what is an induction over data.  That is all of `Conversions`, whose
operators recurse over types, values and patterns, and `StreamLink`, where
`Escape` and `DeEscape` are folds over the bytes.

## 6. What the code does not keep

The models do what the code does, so these are behaviours they have (or inputs they
are kept from, where said).  The two against a docstring that a run shows are findings
in `PROJECT.json`.

Broker:

* A login whose mount point is refused keeps its role, and the assertion at
  `broker.py:160` then meets a client without an ID (`405`); it is listed as "None"
  below `.broker/client`.  A `ValueError` of `config.login` ends the loop with the
  connection open (`config.py:342`).
* The idle timeout, or a client that disconnects itself, waits for itself
  (`broker.py:290,389`) although `base.py:118` says that it blocks until completed: the
  loop waits for its task and the task for its loop, for ever.  So do clients that
  disconnect each other; whoever cancels one of them gets a `RecursionError`.  They
  hold nothing by then.
* A client that is disconnecting another one when its own connection ends is not
  always forgotten: its task is cancelled, which cancels the other loop and is then
  suppressed (`base.py:124`); the task goes on to send its reply into a send loop that
  was cancelled too (`base.py:486-487`), nobody tells its future, the `gather` at
  `base.py:145` does not return and `_unregister` (`broker.py:375`) is not reached, until
  somebody disconnects this client as well.  `EofUnregisters` names the case.  With two
  clients the run has no chain of waits longer than two; the proofs have.
* `Client._reset` does not call `SHVBase._reset`: request tasks survive a reset
  (`broker.py:182` against `abc.py:116`).
* `lsmod` takes a mount point for an existing node when the name of its last node
  starts with that of another one (`startswith`, `broker.py:573`): `dev1` beside
  `dev10`.  `LsmodTracksTree` is checked for names of which none is the start of another.
* `unsubscribe` answers `True` for an identifier only others subscribed to
  (`broker.py:680`).  `.broker:name` is announced for BROWSE but needs SUPER_SERVICE
  (`broker.py:260`); `.device:serialNumber` needs READ (`device.py:79,106`).  `ls` with a
  name on an unknown node answers `False`, not the error the docstring of
  `ls_has_child` promises (`base.py:533`, `329`); `TreeIsTold` leaves that case out.
* `_subs_loop`: a subscription made while a later peer is asked misses those
  visited already and is given them a minute later (`broker.py:751,768-773`).  With any
  subscription that has a TTL the deadline is never reached, as `nmin` is a maximum
  (`utils.py:31`) and `time.time()` (`666`) is compared with `loop.time()` (`736,740`).  A
  login or leave meanwhile ends the task with `RuntimeError` or `AssertionError`
  (`745`, `765`) until the next notification; a connection that ends while it is asked
  hangs it for ever (`base.py:297`).  Unsubscriptions are not passed on; more than 16
  identifiers at a time overflow the queue of the sub-broker.
* Configuration: with several roles the lowest access wins, since `nmax` keeps the
  minimum (`utils.py:36-43`, "Get maximum"); `AccessHasReason` leaves open which of the
  roles' levels it is.  An autosetup without roles never matches
  although `docs/broker/cli.rst:119-120` says that all roles are considered.  A format
  that ends in `%` raises `IndexError` (`config.py:133`).  A generated mount point may
  lie above one that is taken; the broker then refuses it.

Calls:

* The result of a cancelled future ends the send loop (`base.py:402`), messages
  queued when the loop ends are never told (`base.py:140-152` against `235`), and the
  clean-up of a cancelled call raises `KeyError` or leaves its entry
  (`base.py:299-303`), against `base.py:192`.
* A request sent again is dropped from `_requests` by the callback of its first
  execution, so queries are answered with "No such request" and the method is
  executed once more (`base.py:454`; `errors.py:153`).
* Restoring subscriptions in the login task awaits the task in itself and fails the
  login (`client.py:222-228`).  The delay between reconnects is `max(60, 2**n)`
  (`client.py:135`): a minute at first and without limit later, where line 54 says that
  it is capped at about a minute; the counter is increased after a successful
  reconnect, so the loop may end with the connection up.  What the activity task or the
  send loop raised is raised again when the connection is lost, and ends the client's
  loop instead of reconnecting (`client.py:128-130`, `base.py:153`).
* An unknown access level raises `ValueError` in `rpc_access` (`rpcmessage.py:369`), which
  ends the broker's loop for that client.  An error of `NO_ERROR` is read as a result.
* `ValueClient`: an answer that is acted on after a newer signal was handled puts the
  older value in the cache, where `valueclient.py:25-27` promises the latest (run
  `cache_always`).  `get_snapshot` may cache a value for a path that was unsubscribed
  meanwhile (`310`).  Cancelled futures stay in `_futures` and end the receive loop with
  `InvalidStateError` (`valueclient.py:62-63`); `prop_change_wait` may return without a
  change (`132-135`).

Transports and files:

* A CAN message whose last block is full never ends (`last` at `can.py:256`), against
  `tests/test_rpctransport.py:401`.  Two tasks in `Peer.send` mix their frames
  (`can.py:255`).  A greeting that is sent again is delivered as another reset.  A
  message of one block whose acknowledgement waits for the sending thread while the
  next first frame comes is replaced by the data of that one, which is lost in turn
  (`can.py:436-447`).
* A serial reader takes what follows the end of a cut message as its checksum, so a
  fault may cost the next message too (`LossBounded` says two at most).  A connection
  accepted whose task has not run survives `terminate()` (`abc.py:184-190`,
  `stream.py:317-320`).
* `RpcFile`: what is left in the write buffer after its full pages were written is
  written where those were (`file.py:430`, against `398`; run `file_always`); a write into
  the middle of the buffer drops what followed (`417`); a read does not see what is
  buffered unless the file is appended to (`343`, against `342`); `truncate` leaves both
  buffers; `FileProvider` truncates to nothing and fills up (`609`).  `flush` drops what
  is written during its await (`449`); a retried append may apply twice; asynchronous
  iteration is declared as a coroutine.

Conversions:

* Tuples: a missing optional key raises `KeyError`, all of them null `IndexError`
  (`tuple.py:92-111`), surplus items are accepted and dropped (`79-90`).  Lists do not
  limit what they inflate; `OneOf` and the standard types do not inflate inside; a
  negative round limit is written as text no parser reads (`_tools.py:13,15`);
  a negative value of an enumeration in a bit field raises `RuntimeError`.
* ChainPack writes times west of UTC so that they are read as other times or not at
  all (`chainpack.py:209-210`); an empty dictionary comes back as an IMap, a
  `bytearray` as a List.
* `dir.py:183` announces a result the type at its side does not accept.
* URLs: nothing is escaped; an empty user is lost; a token with a user or a password
  cannot be parsed back, options are written for protocols whose parser refuses
  them, `unix://user@host/p` keeps `user@`.
* Patterns: `**` takes the first node that what follows it matches (`rpcri.py:94`), so
  `**/a/b` misses `a/a/b`; `a/**/b` relative to `a` is `b` (`100-102`).
* Parameters: `shvget` returns what it has when a key path ends early
  (`rpcparam.py:73-74`); `shvgett` raises where its docstring promises the default.

## 7. Abstractions

* Payloads are model values or small records; logging and wording are left out.  A
  request the broker answers at once is `Reply` in `Broker`; what it answers is in
  `NodeTree`.
* `Broker`: a login's outcome is a role or a refusal (`RpcLogin` and `BrokerConfig` say
  which).  `RoleMounts` is the set of what `mount_point` may return.  Subscriptions
  have no deadline there.  Tasks of different clients may be delayed relative to each
  other more than asyncio delays them; this adds behaviours and removes none.
  Bounds: `MaxId` registrations; `MaxPending` tasks before their first step;
  `MaxAsked` open requests at a peer; `QueueMax` for `maxlen` (16 in the code; 1 makes
  dropping frequent); `PeerCallerIds`, what a request carries already.
* `SendLoop`: `IdleMax` for `maxlen`, `MaxPermits` on announcements.
* `RpcCall`: the wait for one's own send is one step; `client.connected` is true in
  the `finally` of `call`; `MaxRid` bounds the IDs, which are never used again;
  `MaxFaults` bounds resets, losses and early timers; `Followed` leaves alone what
  happens after the last call is over.
* `ClientSession`: `MaxLosses`, `MaxResets`, `MaxFailures`, `MaxCancels`.
* `CanPeer`: a block is one unit, a checksum does not fail; `Blocks` is below
  `Modulus`, as 128 blocks or more would wrap within a message.  `CanAddress`: frames
  are addressed to each node separately, so that one may miss what another gets.
* `StreamLink`: one direction, from a client to its server; bytes are small,
  `ShortSize` 1 stands for the sizes of one byte, `CrcSize` 2 for four.
* `ValueClient`: one property; values are counted by the device's changes.
* `RpcFile`: one task uses the file; `MaxOps`, `MaxData`, `MaxLength`, `MaxFaults`,
  `MaxOthers` bound it.  Every byte ever written is told apart.
* `BrokerSubs`: times are what is left of them, in ticks; `MaxLogins` bounds
  registrations.
* `Conversions`: characters are abstracted to tokens and parts; `ChainPack` has bytes
  of a few bits and counts bits as the code does.

## 8. Not modelled

* `RpcBroker.ConnectClient` (`broker.py:482`), a broker that logs in to another one: it
  registers after its login was answered, keeps the registration of a lost
  connection until the next login, and does not cancel its login task when it is
  disconnected.  `start`, `close` and `terminate` of the whole broker.
* `cpon.py`, the text format, and `cpconv`: parsing of text without state.
* Reading of configuration files (`config.load`), and `configabc`, an interface.
* `rpcapi/methods.py`, decorators that build tables; the list of alerts of a device
  and `rpcdef/alert.py`; `rpcparam.shvarg`; the legacy subscriptions of
  `rpcri.py:58-80`.
* The rollover of request IDs after a quarter of an hour (`rpcmessage.py:48`) and the
  repeat flag; a user ID that is a dictionary (`rpcmessage.py:387-388`).
* Pipes, TLS, options of sockets and terminals, the refusal of a WebSocket
  subprotocol, the wait for a TTY to appear, filters of CAN sockets and several local
  addresses of a CAN node.
* `log_snapshot` and the walk of `get_snapshot` through the tree; what a reset does to
  the cache of a value client.
* `stat`, `size`, `crc` and line iteration of files.

## 9. Plan

Next, in order: `ConnectClient` as a second kind of client in `Broker`; proofs of
`CacheIsLatest` and of `AllArrive`; then pipes and the alerts of a device.
