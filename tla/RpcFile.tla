------------------------------- MODULE RpcFile -------------------------------
(***************************************************************************)
(* A file on a device used through RpcFile, with its read and write        *)
(* buffers, over the calls FileProvider serves.  Every operation is a      *)
(* sequence of calls; a call may fail, and one whose answer is lost is     *)
(* made again.  One task uses the RpcFile.                                 *)
(***************************************************************************)
EXTENDS Integers, Sequences

CONSTANTS
  Page,       \* page_size of the file's stat
  MaxWrite,   \* max_write of the file's stat
  Zero, None,
  FlagSets,   \* the flags the RpcFile may be made with
  Providers,  \* what FileProvider objects allow beside reading
  MaxOps, MaxData, MaxLength, MaxFaults, MaxOthers  \* bounds

ASSUME RpcFileAssumption ==
  /\ Page \in Nat \ {0} /\ MaxWrite \in Nat \ {0}
  /\ FlagSets \subseteq SUBSET {"APPEND", "R_BUFFERED", "W_BUFFERED"}
  /\ Providers \subseteq SUBSET {"write", "truncate", "append"}
  /\ {MaxOps, MaxData, MaxLength, MaxFaults, MaxOthers} \subseteq Nat
  /\ None \notin [at : Nat, data : Seq(Nat \X Nat \cup {Zero})]

\* Every byte ever written is told apart: by its operation and place in it.
Byte == (0 .. MaxOps + MaxOthers) \X (1 .. MaxLength + MaxData) \cup {Zero}

VARIABLES
  flags, provider,  \* chosen once
  file,    \* the file on the device
  offset,  \* _offset
  roff, rbuf,  \* _read_offset, _read_buffer
  woff, wbuf,  \* _write_offset, _write_buffer
  op,      \* the operation under way, with the data or size it was given
  todo,    \* what it has to write, or to read and has read so far
  result,  \* what the last read returned
  astray,  \* history: "read" or "write" if the buffers fail the operation
           \* begun last, or "no"
  ops, faults, others

buffers == <<roff, rbuf, woff, wbuf>>
chosen == <<flags, provider>>
vars == <<chosen, file, offset, buffers, op, todo, result, astray, ops, faults, others>>

Idle == [kind |-> "idle"]
Nothing == [at |-> 0, data |-> <<>>]
Bytes(from, n) == [i \in 1 .. n |-> <<from, i>>]

Init ==
  /\ flags \in FlagSets /\ provider \in Providers
  /\ \E n \in 0 .. MaxLength : file = Bytes(0, n)
  /\ offset = 0
  /\ roff = 0 /\ rbuf = <<>> /\ woff = 0 /\ wbuf = <<>>
  /\ op = Idle /\ todo = Nothing /\ result = <<>> /\ astray = "no"
  /\ ops = 0 /\ faults = 0 /\ others = 0

-----------------------------------------------------------------------------
Floor(val, mult) == val - (val % mult)
Ceil(val, mult) == val + (mult - (val % mult))

Smaller(a, b) == IF a < b THEN a ELSE b
From(s, k) == SubSeq(s, k + 1, Len(s))
First(s, k) == SubSeq(s, 1, Smaller(k, Len(s)))

\* file.seek and file.write of the provider.
Overwrite(c, at, d) ==
  IF d = <<>> THEN c
  ELSE [i \in 1 .. IF at + Len(d) > Len(c) THEN at + Len(d) ELSE Len(c) |->
          IF at < i /\ i <= at + Len(d) THEN d[i - at]
          ELSE IF i <= Len(c) THEN c[i] ELSE Zero]

Has(flag) == flag \in flags
Dirty == wbuf # <<>> /\ ~ Has("APPEND")
Stale == \E i \in DOMAIN rbuf : roff + i > Len(file) \/ file[roff + i] # rbuf[i]

Begin == op = Idle /\ ops < MaxOps /\ ops' = ops + 1 /\ UNCHANGED <<chosen, file, faults, others>>
InCall == op # Idle /\ UNCHANGED <<chosen, astray, ops, others>>

-----------------------------------------------------------------------------
(* write, flush *)

\* Data d was put in the buffer, which is b now and starts at offset at: full
\* pages are written immediately.
Buffered(b, at, d) ==
  /\ wbuf' = b /\ woff' = at
  /\ IF Len(b) > MaxWrite
     THEN /\ op' = [kind |-> "spill", data |-> d]
          /\ todo' = [at |-> at, data |-> First(b, Floor(Len(b), MaxWrite))]
          /\ UNCHANGED offset
     ELSE op' = Idle /\ todo' = Nothing /\ offset' = offset + Len(d)

\* What the calls of the operation wrote is all written.  The offset of the
\* buffer stays where it was when its full pages are removed.
Written ==
  \/ /\ op.kind = "write"
     /\ op' = Idle /\ todo' = Nothing
     /\ offset' = offset + Len(op.data)
     /\ UNCHANGED <<woff, wbuf>>
  \/ /\ op.kind = "move"
     /\ Buffered(op.data, offset, op.data)
  \/ /\ op.kind = "spill"
     /\ op' = Idle /\ todo' = Nothing
     /\ wbuf' = From(wbuf, Floor(Len(wbuf), MaxWrite))
     /\ offset' = offset + Len(op.data)
     /\ UNCHANGED woff
  \/ /\ op.kind = "flush"
     /\ op' = Idle /\ todo' = Nothing
     /\ wbuf' = <<>>
     /\ UNCHANGED <<offset, woff>>

Buffers(at) == woff <= at /\ at <= woff + Len(wbuf) /\ wbuf # <<>>

\* _write_buffer[offset - write_offset:] = data.
WriteBuffer(d) == First(wbuf, offset - woff) \o d

\* More than fits the buffer, and not just full pages: what stays in the buffer
\* has the offset of what left it.
Overflows(d) ==
  LET size == IF Buffers(offset) THEN Len(WriteBuffer(d)) ELSE Len(d)
  IN size > MaxWrite /\ size % MaxWrite # 0

\* Into what is buffered: everything after it is taken out of the buffer.
Rewinds == Buffers(offset) /\ offset < woff + Len(wbuf)

Write(d) ==
  /\ Begin
  /\ astray' = IF Has("W_BUFFERED") /\ ~ Has("APPEND") /\ (Overflows(d) \/ Rewinds)
               THEN "write" ELSE "no"
  /\ IF ~ Has("W_BUFFERED")
     THEN /\ op' = [kind |-> IF Has("APPEND") THEN "append" ELSE "write", data |-> d]
          /\ todo' = [at |-> offset, data |-> d]
          /\ UNCHANGED <<offset, woff, wbuf>>
     ELSE IF Has("APPEND")
     THEN wbuf' = wbuf \o d /\ UNCHANGED <<op, todo, offset, woff>>
     ELSE IF Buffers(offset)
     THEN Buffered(WriteBuffer(d), woff, d)
     ELSE IF wbuf # <<>>
     THEN /\ op' = [kind |-> "move", data |-> d]
          /\ todo' = [at |-> woff, data |-> wbuf]
          /\ UNCHANGED <<offset, woff, wbuf>>
     ELSE Buffered(d, offset, d)
  /\ UNCHANGED <<roff, rbuf, result>>

Flush ==
  /\ Begin /\ Has("W_BUFFERED") /\ wbuf # <<>> /\ astray' = "no"
  /\ op' = [kind |-> IF Has("APPEND") THEN "append" ELSE "flush", data |-> <<>>]
  /\ todo' = [at |-> woff, data |-> wbuf]
  /\ UNCHANGED <<offset, buffers, result>>

\* One call of _page_write, served by FileProvider, which may refuse to let the
\* file grow.  When the answer is lost the same call is made again.
WriteCall ==
  /\ InCall /\ op.kind \in {"write", "move", "spill", "flush"}
  /\ LET d == First(todo.data, MaxWrite) IN
     /\ "write" \in provider
     /\ "truncate" \in provider \/ todo.at + Len(d) <= Len(file)
     /\ file' = Overwrite(file, todo.at, d)
     /\ \/ faults < MaxFaults /\ faults' = faults + 1 /\ UNCHANGED <<op, todo, offset, woff, wbuf>>
        \/ /\ UNCHANGED faults
           /\ IF Len(todo.data) <= MaxWrite THEN Written
              ELSE /\ todo' = [at |-> todo.at + Len(d), data |-> From(todo.data, Len(d))]
                   /\ UNCHANGED <<op, offset, woff, wbuf>>
  /\ UNCHANGED <<roff, rbuf, result>>

\* How a read begins: with what the read buffer has, and with calls when that
\* is not enough; whole pages are fetched for the buffer.
Fetch(size, pages) ==
  LET rest == From(rbuf, offset - roff)
      head == IF ~ pages \/ offset < roff \/ offset > roff + Page THEN <<>>
              ELSE IF size > 0 THEN First(rest, size) ELSE rest
      left == size - Len(head)
      start == IF pages THEN Floor(offset + Len(head), Page) ELSE offset
  IN IF size > 0 /\ left = 0
     THEN /\ op' = Idle /\ todo' = Nothing
          /\ result' = head
          /\ offset' = offset + Len(head)
     ELSE /\ op' = [kind |-> "read", size |-> size, pages |-> pages, head |-> head,
                    start |-> start,
                    left |-> IF size = 0 THEN -1 ELSE IF pages THEN Ceil(left, Page) ELSE left]
          /\ todo' = [at |-> start, data |-> <<>>]
          /\ UNCHANGED <<offset, result>>

\* The call of an append, which is made again when the answer is lost.  A read
\* that made the buffer be flushed goes on.
AppendCall ==
  /\ InCall /\ op.kind \in {"append", "appendread"}
  /\ "append" \in provider
  /\ file' = file \o todo.data
  /\ \/ /\ faults < MaxFaults /\ faults' = faults + 1
        /\ UNCHANGED <<op, todo, offset, wbuf, result>>
     \/ /\ UNCHANGED faults
        /\ wbuf' = <<>>
        /\ IF op.kind = "append"
           THEN op' = Idle /\ todo' = Nothing /\ UNCHANGED <<offset, result>>
           ELSE op' = [op EXCEPT !.kind = "fetch"] /\ UNCHANGED <<todo, offset, result>>
  /\ UNCHANGED <<roff, rbuf, woff>>

\* The call raises: access denied, no such method, a write that is refused, no
\* answer.  The operation ends there.
CallFails ==
  /\ InCall
  /\ \/ faults < MaxFaults /\ faults' = faults + 1
     \/ /\ UNCHANGED faults
        /\ \/ op.kind \in {"append", "appendread"} /\ "append" \notin provider
           \/ /\ op.kind \in {"write", "move", "spill", "flush"}
              /\ \/ "write" \notin provider
                 \/ /\ "truncate" \notin provider
                    /\ todo.at + Len(First(todo.data, MaxWrite)) > Len(file)
  /\ op.kind # "fetch"
  /\ op' = Idle /\ todo' = Nothing
  /\ UNCHANGED <<file, offset, buffers, result>>

-----------------------------------------------------------------------------
(* read *)

\* At most size bytes, all for 0.  A buffered append is flushed first, a
\* buffered write is not, and what the read buffer has is not compared with the
\* file.  readuntil reads single bytes past the read buffer.
Read(size, pages) ==
  /\ Begin
  /\ astray' = IF Dirty \/ (pages /\ Stale) THEN "read" ELSE "no"
  /\ pages => Has("R_BUFFERED")
  /\ ~ pages => size = 1 \/ ~ Has("R_BUFFERED")
  /\ IF pages /\ Has("W_BUFFERED") /\ Has("APPEND") /\ wbuf # <<>>
     THEN /\ op' = [kind |-> "appendread", size |-> size]
          /\ todo' = [at |-> 0, data |-> wbuf]
          /\ UNCHANGED <<offset, result>>
     ELSE Fetch(size, pages)
  /\ UNCHANGED buffers

ReadOn == InCall /\ op.kind = "fetch" /\ Fetch(op.size, TRUE) /\ UNCHANGED <<file, buffers, faults>>

\* Variant: the whole of the last page is returned.
Asked_Whole(data) == From(data, offset + Len(op.head) - op.start)

\* What of the pages was asked for.
Asked(data) ==
  LET all == From(data, offset + Len(op.head) - op.start)
  IN IF op.size > 0 THEN First(all, op.size - Len(op.head)) ELSE all

\* Everything was read: the buffer keeps the last page, which is not full.
ReadDone(data) ==
  LET full == Floor(Len(data), Page) IN
  /\ result' = op.head \o Asked(data)
  /\ offset' = offset + Len(result')
  /\ op' = Idle /\ todo' = Nothing
  /\ IF op.pages THEN rbuf' = From(data, full) /\ roff' = op.start + full
     ELSE UNCHANGED <<rbuf, roff>>

\* One call of _unbuf_read; the file ends where nothing is read.
ReadCall ==
  /\ InCall /\ op.kind = "read"
  /\ LET count == IF 0 < op.left /\ op.left < Page THEN op.left ELSE Page
         got == First(From(file, todo.at), count)
         data == todo.data \o got
     IN IF got = <<>> \/ op.left = Len(got)
        THEN ReadDone(data)
        ELSE /\ todo' = [at |-> todo.at + Len(got), data |-> data]
             /\ op' = IF op.left > 0 THEN [op EXCEPT !.left = @ - Len(got)] ELSE op
             /\ UNCHANGED <<offset, result, rbuf, roff>>
  /\ UNCHANGED <<file, woff, wbuf, faults>>

-----------------------------------------------------------------------------
(* Other operations *)

Seek(value) ==
  /\ op = Idle /\ ops < MaxOps /\ value # offset
  /\ offset' = value /\ astray' = "no"
  /\ UNCHANGED <<chosen, file, buffers, op, todo, result, ops, faults, others>>

\* The provider opens the file such that nothing of it is left; what is buffered
\* stays so.
Truncated(size) == [i \in 1 .. size |-> Zero]

Truncate(size) ==
  /\ op = Idle /\ ops < MaxOps /\ ops' = ops + 1
  /\ "truncate" \in provider
  /\ astray' = IF Dirty THEN "write" ELSE "no"
  /\ file' = Truncated(size)
  /\ UNCHANGED <<chosen, offset, buffers, op, todo, result, faults, others>>

\* Somebody else appends to the file, and not while this one has it in mind to.
Other ==
  /\ others < MaxOthers /\ ~ Dirty /\ op.kind # "move"
  /\ others' = others + 1
  /\ file' = file \o Bytes(MaxOps + others', 1)
  /\ UNCHANGED <<chosen, offset, buffers, op, todo, result, astray, ops, faults>>

Sizes == 1 .. MaxData

Next ==
  \/ \E n \in Sizes : Write(Bytes(ops + 1, n))
  \/ Flush
  \/ \E n \in Sizes \cup {0} : Read(n, TRUE) \/ Read(n, FALSE)
  \/ WriteCall \/ AppendCall \/ ReadOn \/ ReadCall \/ CallFails
  \/ \E n \in 0 .. MaxLength : Seek(n) \/ Truncate(n)
  \/ Other

Spec == Init /\ [][Next]_vars

-----------------------------------------------------------------------------
(* Properties *)

\* The file as its user thinks of it has what is buffered for it.
Content == IF Has("W_BUFFERED") /\ ~ Has("APPEND") THEN Overwrite(file, woff, wbuf) ELSE file

Intent ==
  CASE op.kind = "write" -> [at |-> todo.at, data |-> todo.data]
    [] op.kind = "spill" -> [at |-> offset + Len(op.data), data |-> <<>>]
    [] OTHER -> None

Waiting == IF Has("W_BUFFERED") /\ Has("APPEND") THEN wbuf
           ELSE IF op.kind = "append" THEN todo.data ELSE <<>>

Local == INSTANCE ByteFile
           WITH content <- Content, pos <- offset, intent <- Intent, waiting <- Waiting

LocalStep ==
  \/ \E n \in Sizes : \/ Local!Write(Bytes(ops, n)) \/ Local!Write(Bytes(ops + 1, n))
                      \/ Local!GiveToAppend(Bytes(ops + 1, n))
  \/ Local!Put \/ Local!Fail \/ Local!PutWaiting \/ Local!Seek
  \/ \E n \in Sizes : (op.kind = "read" => n = op.size) /\ Local!Read(n)
  \/ op.kind = "read" /\ op.size = 0 /\ Local!Read(Len(file))
  \/ \E n \in 0 .. MaxLength : Local!Truncate(n)
  \/ Local!Other(Bytes(MaxOps + others', 1))

\* The steps of an operation the buffers fail: a read may return anything, but
\* touches nothing of the file; a write may put anything in the file.
AstrayStep ==
  /\ UNCHANGED <<others, Waiting>>
  /\ \/ astray' = "read" /\ UNCHANGED <<Content, Intent>>
     \/ astray' = "write" /\ UNCHANGED result

\* RpcFile over FileProvider is a local file but for single operations: whatever
\* calls are lost, fail or are made twice, every byte written is where it was
\* meant to be, and every byte read is from where it was asked for.  What goes
\* wrong is the one operation that writes into the middle of the buffer or more
\* than full pages of it, reads past what is buffered or what has changed since,
\* or truncates with something buffered; the next one is a local file's again.
LocalFile == Local!Init /\ [][LocalStep \/ AstrayStep]_(Local!vars)

\* file.py:398 "Write data to the file on the current offset", file.py:342 "Flush
\* the write buffer if read overlaps with it": no operation is astray.
AlwaysLocal == Local!Init /\ [][LocalStep]_(Local!vars)
=============================================================================
