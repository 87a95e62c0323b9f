------------------------------ MODULE ByteFile ------------------------------
(***************************************************************************)
(* What a remote file promises to the one who uses it through an RpcFile:  *)
(* it behaves like a local file with a position, except that a write may   *)
(* take effect piece by piece, that a write which fails may have done so   *)
(* in part, and that an append may take effect more than once.             *)
(***************************************************************************)
EXTENDS Integers, Sequences

CONSTANTS Byte, Zero, None

VARIABLES
  content,  \* the file, with what is buffered for it
  pos,      \* the offset of the next operation
  intent,   \* the write under way: what is left of it and where, or None
  waiting,  \* bytes to append at the next opportunity
  result    \* what the last read returned

vars == <<content, pos, intent, waiting, result>>

\* Data written at an offset, after zeros if that is beyond the end.
Overwrite(c, at, d) ==
  IF d = <<>> THEN c
  ELSE [i \in 1 .. IF at + Len(d) > Len(c) THEN at + Len(d) ELSE Len(c) |->
          IF at < i /\ i <= at + Len(d) THEN d[i - at]
          ELSE IF i <= Len(c) THEN c[i] ELSE Zero]

\* The first k bytes, and zeros up to n.
Resized(c, k, n) == [i \in 1 .. n |-> IF i <= k /\ i <= Len(c) THEN c[i] ELSE Zero]

Init == /\ content \in Seq(Byte) /\ pos = 0 /\ intent = None
        /\ waiting = <<>> /\ result = <<>>

\* The first k bytes of data d take effect at offset at, maybe not for the last
\* time; the position moves when nothing is left, or in a later step.
Take(at, d, k) ==
  LET rest == [at |-> at + k, data |-> SubSeq(d, k + 1, Len(d))] IN
  /\ content' = Overwrite(content, at, SubSeq(d, 1, k))
  /\ \/ intent' \in {rest, [at |-> at, data |-> d]} /\ pos' = pos
     \/ rest.data = <<>> /\ intent' = None /\ pos' = rest.at
  /\ UNCHANGED <<waiting, result>>

Write(d) == intent = None /\ \E k \in 0 .. Len(d) : Take(pos, d, k)

Put == intent # None /\ \E k \in 0 .. Len(intent.data) : Take(intent.at, intent.data, k)

\* A write or an append that fails says so; what is not done is not done.
Fail == /\ intent' = None /\ waiting' \in {waiting, <<>>}
        /\ UNCHANGED <<content, pos, result>>

GiveToAppend(d) == waiting' = waiting \o d /\ UNCHANGED <<content, pos, intent, result>>

PutWaiting == /\ content' = content \o waiting /\ waiting' \in {waiting, <<>>}
              /\ UNCHANGED <<pos, intent, result>>

\* At most what was asked for, and something unless the file ends there.
Read(n) ==
  /\ \E k \in 0 .. n :
       /\ k = 0 <=> pos >= Len(content)
       /\ k > 0 => pos + k <= Len(content)
       /\ result' = SubSeq(content, pos + 1, pos + k)
       /\ pos' = pos + k
  /\ UNCHANGED <<content, intent, waiting>>

Seek == pos' \in Nat /\ UNCHANGED <<content, intent, waiting, result>>

\* The file has n bytes; some of the first ones are what they were, or none.
Truncate(n) == /\ \E k \in 0 .. n : content' = Resized(content, k, n)
               /\ UNCHANGED <<pos, intent, waiting, result>>

\* Somebody else appends.
Other(d) == content' = content \o d /\ UNCHANGED <<pos, intent, waiting, result>>
=============================================================================
