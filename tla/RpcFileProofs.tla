---------------------------- MODULE RpcFileProofs ----------------------------
(***************************************************************************)
(* RpcFile implements ByteFile, for files, buffers, pages and calls of any *)
(* size and number, but for the single operations its buffers fail.        *)
(***************************************************************************)
EXTENDS RpcFile, SequenceTheorems, TLAPS

\* What files hold, without the bounds of a run.
Cell == Nat \X Nat \cup {Zero}
Data == Seq(Cell)

-----------------------------------------------------------------------------
(* Data in files *)

\* What % gives: less than the divisor, and no more than the dividend.
LEMMA Remainder ==
  ASSUME NEW a \in Nat, NEW m \in Nat \ {0}
  PROVE  a % m \in 0 .. m - 1 /\ a % m <= a
<1>1. a % m \in 0 .. m - 1
  BY SMT
<1>2. a < m => a % m = a
  BY SMT
<1> QED BY <1>1, <1>2, SMT

\* What a file is after a write, byte by byte.
IsOverwrite(x, c, at, d) ==
  /\ x \in Data
  /\ Len(x) = IF d = <<>> \/ at + Len(d) <= Len(c) THEN Len(c) ELSE at + Len(d)
  /\ \A i \in 1 .. Len(x) : x[i] = IF at < i /\ i <= at + Len(d) THEN d[i - at]
                                  ELSE IF i <= Len(c) THEN c[i] ELSE Zero

LEMMA OverwriteProperties ==
  ASSUME NEW c \in Data, NEW at \in Nat, NEW d \in Data
  PROVE  IsOverwrite(Overwrite(c, at, d), c, at, d)
<1> USE DEF IsOverwrite
<1>1. CASE d = <<>>
  BY <1>1, SMT DEF Overwrite, Data, Cell
<1>2. CASE d # <<>>
  <2> DEFINE n == IF at + Len(d) > Len(c) THEN at + Len(d) ELSE Len(c)
             e(i) == IF at < i /\ i <= at + Len(d) THEN d[i - at]
                     ELSE IF i <= Len(c) THEN c[i] ELSE Zero
  <2>1. n \in Nat
    BY SMT DEF Data
  <2>2. \A i \in 1 .. n : e(i) \in Cell
    <3> SUFFICES ASSUME NEW i \in 1 .. n PROVE e(i) \in Cell
      OBVIOUS
    <3>1. CASE at < i /\ i <= at + Len(d)
      BY <3>1, <2>1, SMT DEF Data
    <3>2. CASE ~ (at < i /\ i <= at + Len(d)) /\ i <= Len(c)
      BY <3>2, <2>1, SMT DEF Data
    <3>3. CASE ~ (at < i /\ i <= at + Len(d)) /\ ~ i <= Len(c)
      BY <3>3, <2>1, SMT DEF Cell
    <3> QED BY <3>1, <3>2, <3>3
  <2>3. Overwrite(c, at, d) = [i \in 1 .. n |-> e(i)]
    BY <1>2 DEF Overwrite
  <2> HIDE DEF n, e
  <2>4. [i \in 1 .. n |-> e(i)] \in Data /\ Len([i \in 1 .. n |-> e(i)]) = n
    BY <2>1, <2>2, SMT DEF Data
  <2>5. \A i \in 1 .. n : [j \in 1 .. n |-> e(j)][i] = e(i)
    OBVIOUS
  <2> QED BY <1>2, <2>3, <2>4, <2>5, SMT DEF n, e, Data
<1> QED BY <1>1, <1>2

LEMMA FirstProperties ==
  ASSUME NEW s \in Data, NEW k \in Nat
  PROVE  /\ First(s, k) \in Data
         /\ Len(First(s, k)) = Smaller(k, Len(s))
         /\ Smaller(k, Len(s)) \in 0 .. k /\ Smaller(k, Len(s)) \in 0 .. Len(s)
         /\ \A i \in 1 .. Len(First(s, k)) : First(s, k)[i] = s[i]
BY SMT DEF First, Smaller, Data

LEMMA FromProperties ==
  ASSUME NEW s \in Data, NEW k \in Nat
  PROVE  /\ From(s, k) \in Data
         /\ Len(From(s, k)) = IF k <= Len(s) THEN Len(s) - k ELSE 0
         /\ \A i \in 1 .. Len(From(s, k)) : From(s, k)[i] = s[k + i]
BY SMT DEF From, Data

LEMMA Split ==
  ASSUME NEW s \in Data, NEW k \in Nat
  PROVE  First(s, k) \o From(s, Len(First(s, k))) = s
<1> DEFINE f == First(s, k)
           g == From(s, Len(First(s, k)))
<1>1. f \in Data /\ Len(f) \in 0 .. Len(s) /\ \A i \in 1 .. Len(f) : f[i] = s[i]
  BY FirstProperties
<1>2. g \in Data /\ Len(g) = Len(s) - Len(f) /\ \A i \in 1 .. Len(g) : g[i] = s[Len(f) + i]
  BY <1>1, FromProperties, SMT DEF Data
<1> Len(s) \in Nat
  BY DEF Data
<1> HIDE DEF f, g
<1>3. /\ f \o g \in Data /\ Len(f \o g) = Len(f) + Len(g)
      /\ \A i \in 1 .. Len(f) + Len(g) : (f \o g)[i] = IF i <= Len(f) THEN f[i] ELSE g[i - Len(f)]
  BY <1>1, <1>2, ConcatProperties, Zenon DEF Data
<1>4. Len(f \o g) = Len(s)
  BY <1>1, <1>2, <1>3, SMT
<1>5. \A i \in 1 .. Len(f \o g) : (f \o g)[i] = s[i]
  <2> SUFFICES ASSUME NEW i \in 1 .. Len(f) + Len(g) PROVE (f \o g)[i] = s[i]
    BY <1>3
  <2>1. CASE i <= Len(f)
    <3>1. i \in 1 .. Len(f)
      BY <1>1, <2>1, SMT
    <3> QED BY <1>1, <1>3, <2>1, <3>1
  <2>2. CASE ~ i <= Len(f)
    <3>1. i - Len(f) \in 1 .. Len(g) /\ Len(f) + (i - Len(f)) = i
      BY <1>1, <1>2, <2>2, SMT
    <3>2. (f \o g)[i] = g[i - Len(f)]
      BY <1>3, <2>2
    <3>3. g[i - Len(f)] = s[Len(f) + (i - Len(f))]
      BY <1>2, <3>1
    <3> QED BY <3>1, <3>2, <3>3
  <2> QED BY <2>1, <2>2
<1>6. f \o g = s
  BY <1>3, <1>4, <1>5, SeqEqual, Zenon DEF Data
<1> QED BY <1>6 DEF f, g

\* Two writes, the second where the first ends, are one.
LEMMA OverwriteTwice ==
  ASSUME NEW c \in Data, NEW at \in Nat, NEW d \in Data, NEW e \in Data
  PROVE  Overwrite(Overwrite(c, at, d), at + Len(d), e) = Overwrite(c, at, d \o e)
<1> DEFINE x == Overwrite(c, at, d)
           mid == at + Len(d)
           y == Overwrite(x, mid, e)
           de == d \o e
           z == Overwrite(c, at, de)
<1>1. /\ de \in Data /\ Len(de) = Len(d) + Len(e)
      /\ \A i \in 1 .. Len(d) + Len(e) : de[i] = IF i <= Len(d) THEN d[i] ELSE e[i - Len(d)]
  BY ConcatProperties, Zenon DEF Data
<1>2. (d = <<>> <=> Len(d) = 0) /\ (e = <<>> <=> Len(e) = 0) /\ (de = <<>> <=> Len(de) = 0)
  BY <1>1, SMT DEF Data
<1>3. Len(c) \in Nat /\ Len(d) \in Nat /\ Len(e) \in Nat /\ mid \in Nat
  BY SMT DEF Data
<1>4. IsOverwrite(x, c, at, d)
  BY OverwriteProperties
<1> HIDE DEF x, de
<1>5. x \in Data
  BY <1>4 DEF IsOverwrite
<1>6. IsOverwrite(y, x, mid, e)
  BY <1>3, <1>5, OverwriteProperties
<1>7. IsOverwrite(z, c, at, de)
  BY <1>1, OverwriteProperties
<1> HIDE DEF y, z
<1>8. Len(y) = Len(z) /\ Len(y) \in Nat
  <2>1. Len(x) = IF Len(d) = 0 \/ at + Len(d) <= Len(c) THEN Len(c) ELSE at + Len(d)
    BY <1>2, <1>4 DEF IsOverwrite
  <2>2. Len(y) = IF Len(e) = 0 \/ mid + Len(e) <= Len(x) THEN Len(x) ELSE mid + Len(e)
    BY <1>2, <1>6 DEF IsOverwrite
  <2>3. Len(z) = IF Len(de) = 0 \/ at + Len(de) <= Len(c) THEN Len(c) ELSE at + Len(de)
    BY <1>2, <1>7 DEF IsOverwrite
  <2>4. mid = at + Len(d) /\ Len(de) = Len(d) + Len(e)
    BY <1>1
  <2> HIDE DEF mid
  <2> QED BY <1>3, <2>1, <2>2, <2>3, <2>4, SMT
<1>9. \A i \in 1 .. Len(y) : y[i] = z[i]
  <2> SUFFICES ASSUME NEW i \in 1 .. Len(y) PROVE y[i] = z[i]
    OBVIOUS
  <2>1. CASE at < i /\ i <= mid
    <3>1. i - at \in 1 .. Len(d) + Len(e) /\ i - at <= Len(d) /\ i <= at + Len(de)
      BY <2>1, <1>1, <1>3, <1>8, SMT
    <3>2. z[i] = de[i - at]
      BY <2>1, <3>1, <1>7, <1>8 DEF IsOverwrite
    <3>3. de[i - at] = d[i - at]
      BY <3>1, <1>1
    <3>4. i \in 1 .. Len(x) /\ i <= Len(x) /\ ~ mid < i
      BY <2>1, <1>2, <1>3, <1>4, <1>8, SMT DEF IsOverwrite
    <3>5. x[i] = d[i - at]
      BY <2>1, <3>4, <1>4 DEF IsOverwrite
    <3>6. y[i] = x[i]
      BY <3>4, <1>6 DEF IsOverwrite
    <3> QED BY <3>2, <3>3, <3>5, <3>6
  <2>2. CASE mid < i /\ i <= mid + Len(e)
    <3>1. /\ i - at \in 1 .. Len(d) + Len(e) /\ ~ i - at <= Len(d)
          /\ at < i /\ i <= at + Len(de)
      BY <2>2, <1>1, <1>3, <1>8, SMT
    <3>2. z[i] = de[i - at]
      BY <3>1, <1>7, <1>8 DEF IsOverwrite
    <3>3. de[i - at] = e[(i - at) - Len(d)]
      BY <3>1, <1>1
    <3>4. y[i] = e[i - mid]
      BY <2>2, <1>6 DEF IsOverwrite
    <3>5. (i - at) - Len(d) = i - mid
      BY <1>3, SMT
    <3> QED BY <3>2, <3>3, <3>4, <3>5
  <2>3. CASE ~ (at < i /\ i <= mid + Len(e))
    <3>1. ~ (at < i /\ i <= at + Len(de)) /\ ~ (mid < i /\ i <= mid + Len(e))
      BY <2>3, <1>1, <1>3, <1>8, SMT
    <3>2. z[i] = IF i <= Len(c) THEN c[i] ELSE Zero
      BY <3>1, <1>7, <1>8 DEF IsOverwrite
    <3>3. y[i] = IF i <= Len(x) THEN x[i] ELSE Zero
      BY <3>1, <1>6 DEF IsOverwrite
    <3>4. i <= Len(x) => x[i] = IF i <= Len(c) THEN c[i] ELSE Zero
      BY <2>3, <1>3, <1>4, <1>8, SMT DEF IsOverwrite
    <3>5. i <= Len(c) => i <= Len(x)
      BY <1>2, <1>3, <1>4, <1>8, SMT DEF IsOverwrite
    <3> QED BY <3>2, <3>3, <3>4, <3>5
  <2> QED BY <2>1, <2>2, <2>3, <1>3, <1>8, SMT
<1>10. y = z
  BY <1>6, <1>7, <1>8, <1>9, SeqEqual, Zenon DEF Data, IsOverwrite
<1> QED BY <1>10 DEF x, y, z, de

\* Beginning a write again changes nothing: what it has done is part of it.
LEMMA OverwritePart ==
  ASSUME NEW c \in Data, NEW at \in Nat, NEW d \in Data, NEW e \in Data,
         NEW w \in Nat, NEW b \in Data,
         Overwrite(c, at, d \o e) = Overwrite(c, w, b)
  PROVE  Overwrite(Overwrite(c, at, d), w, b) = Overwrite(c, w, b)
<1> DEFINE x == Overwrite(c, at, d)
           y == Overwrite(x, w, b)
           de == d \o e
           z == Overwrite(c, w, b)
           u == Overwrite(c, at, de)
<1>1. z = u
  BY Zenon
<1>2. /\ de \in Data /\ Len(de) = Len(d) + Len(e)
      /\ \A i \in 1 .. Len(d) + Len(e) : de[i] = IF i <= Len(d) THEN d[i] ELSE e[i - Len(d)]
  BY ConcatProperties, Zenon DEF Data
<1>3. (d = <<>> <=> Len(d) = 0) /\ (b = <<>> <=> Len(b) = 0) /\ (de = <<>> <=> Len(de) = 0)
  BY <1>2, SMT DEF Data
<1>4. Len(c) \in Nat /\ Len(d) \in Nat /\ Len(e) \in Nat /\ Len(b) \in Nat
  BY SMT DEF Data
<1> HIDE DEF de
<1>5. IsOverwrite(x, c, at, d)
  BY OverwriteProperties
<1>6. IsOverwrite(z, c, w, b)
  BY OverwriteProperties
<1>7. IsOverwrite(u, c, at, de)
  BY <1>2, OverwriteProperties
<1> HIDE DEF x, z, u
<1>8. IsOverwrite(z, c, at, de)
  BY <1>1, <1>7
<1>9. x \in Data
  BY <1>5 DEF IsOverwrite
<1>10. IsOverwrite(y, x, w, b)
  BY <1>9, OverwriteProperties
<1> HIDE DEF y
<1>11. Len(y) = Len(z) /\ Len(y) \in Nat
  <2>1. Len(x) = IF d = <<>> \/ at + Len(d) <= Len(c) THEN Len(c) ELSE at + Len(d)
    BY <1>5 DEF IsOverwrite
  <2>2. Len(z) = IF b = <<>> \/ w + Len(b) <= Len(c) THEN Len(c) ELSE w + Len(b)
    BY <1>6 DEF IsOverwrite
  <2>3. Len(z) = IF de = <<>> \/ at + Len(de) <= Len(c) THEN Len(c) ELSE at + Len(de)
    BY <1>8 DEF IsOverwrite
  <2>4. Len(y) = IF b = <<>> \/ w + Len(b) <= Len(x) THEN Len(x) ELSE w + Len(b)
    BY <1>10 DEF IsOverwrite
  <2> QED BY <1>2, <1>3, <1>4, <2>1, <2>2, <2>3, <2>4, SMT
<1>12. \A i \in 1 .. Len(y) : y[i] = z[i]
  <2> SUFFICES ASSUME NEW i \in 1 .. Len(y) PROVE y[i] = z[i]
    OBVIOUS
  <2>1. CASE w < i /\ i <= w + Len(b)
    BY <2>1, <1>6, <1>10, <1>11 DEF IsOverwrite
  <2>2. CASE ~ (w < i /\ i <= w + Len(b)) /\ at < i /\ i <= at + Len(d)
    <3>1. /\ i - at \in 1 .. Len(d) + Len(e) /\ i - at <= Len(d)
          /\ i <= at + Len(de) /\ i \in 1 .. Len(x) /\ i <= Len(x)
      BY <2>2, <1>2, <1>3, <1>4, <1>5, <1>11, SMT DEF IsOverwrite
    <3>2. z[i] = de[i - at]
      BY <2>2, <3>1, <1>8, <1>11 DEF IsOverwrite
    <3>3. de[i - at] = d[i - at]
      BY <3>1, <1>2
    <3>4. y[i] = x[i]
      BY <2>2, <3>1, <1>10 DEF IsOverwrite
    <3>5. x[i] = d[i - at]
      BY <2>2, <3>1, <1>5 DEF IsOverwrite
    <3> QED BY <3>2, <3>3, <3>4, <3>5
  <2>3. CASE ~ (w < i /\ i <= w + Len(b)) /\ ~ (at < i /\ i <= at + Len(d))
    <3>1. z[i] = IF i <= Len(c) THEN c[i] ELSE Zero
      BY <2>3, <1>6, <1>11 DEF IsOverwrite
    <3>2. y[i] = IF i <= Len(x) THEN x[i] ELSE Zero
      BY <2>3, <1>10 DEF IsOverwrite
    <3>3. i <= Len(x) => x[i] = IF i <= Len(c) THEN c[i] ELSE Zero
      BY <2>3, <1>4, <1>5, <1>11, SMT DEF IsOverwrite
    <3>4. i <= Len(c) => i <= Len(x)
      BY <1>3, <1>4, <1>5, <1>11, SMT DEF IsOverwrite
    <3> QED BY <3>1, <3>2, <3>3, <3>4
  <2> QED BY <2>1, <2>2, <2>3
<1>13. y = z
  BY <1>6, <1>10, <1>11, <1>12, SeqEqual, Zenon DEF Data, IsOverwrite
<1> QED BY <1>13 DEF x, y, z

-----------------------------------------------------------------------------
(* The invariant *)

Writes == [kind : {"write", "append", "move", "spill", "flush"}, data : Data]
Fetches == [kind : {"appendread", "fetch"}, size : Sizes \cup {0}]
Reads == [kind : {"read"}, size : Sizes \cup {0}, pages : BOOLEAN, head : Data,
          start : Nat, left : Int]

TypeOK ==
  /\ file \in Data /\ offset \in Nat
  /\ roff \in Nat /\ rbuf \in Data /\ woff \in Nat /\ wbuf \in Data
  /\ op \in {Idle} \cup Writes \cup Fetches \cup Reads
  /\ todo \in [at : Nat, data : Data]
  /\ astray \in {"no", "read", "write"}
  /\ ops \in Nat /\ others \in Nat

\* Data d is what file f has after offset at.
Holds(f, at, d) == \A i \in 1 .. Len(d) : at + i <= Len(f) /\ f[at + i] = d[i]

Unbuffered == ~ Has("W_BUFFERED") => wbuf = <<>>

\* An unbuffered write ends where its data ends.
Writing ==
  op.kind = "write" => /\ ~ Has("W_BUFFERED") /\ ~ Has("APPEND")
                       /\ todo.at + Len(todo.data) = offset + Len(op.data)

\* What is to be written makes of the file what the whole buffer makes of it.
Pushes ==
  /\ Overwrite(file, todo.at, todo.data) = Overwrite(file, woff, wbuf)
  /\ op.kind = "spill" => Len(wbuf) % MaxWrite = 0
  /\ op.kind = "move" => \E n \in Sizes : /\ op.data = Bytes(ops, n)
                                          /\ n > MaxWrite => n % MaxWrite = 0

Pushing ==
  op.kind \in {"move", "spill", "flush"} =>
    /\ Has("W_BUFFERED") /\ ~ Has("APPEND") /\ wbuf # <<>>
    /\ astray # "write" => Pushes

Appending ==
  /\ op.kind = "append" => Has("APPEND") /\ (Has("W_BUFFERED") => todo.data = wbuf)
  /\ op.kind = "appendread" => todo.data = wbuf
  /\ op.kind \in {"appendread", "fetch"} =>
       /\ Has("APPEND") /\ Has("W_BUFFERED") /\ astray # "write"
       /\ astray # "read" => Holds(file, roff, rbuf)

\* What was read so far is in the file where it is thought to be, and pages are
\* read until more is read than lies before the data asked for.
Sighted ==
  ~ Dirty /\ Holds(file, offset, op.head) /\ Holds(file, op.start, todo.data)

Reading ==
  op.kind = "read" =>
    /\ astray # "read" => Sighted
    /\ todo.at = op.start + Len(todo.data)
    /\ op.start = IF op.pages THEN Floor(offset + Len(op.head), Page) ELSE offset
    /\ ~ op.pages => op.head = <<>>
    /\ IF op.size = 0 THEN op.left = -1
       ELSE /\ op.left > 0 /\ Len(op.head) < op.size
            /\ op.pages => Len(todo.data) + op.left >= Page

Inv == TypeOK /\ Unbuffered /\ Writing /\ Pushing /\ Appending /\ Reading

-----------------------------------------------------------------------------
(* The refinement mapping *)

LEMMA OverwriteIsLocal ==
  ASSUME NEW c, NEW at, NEW d
  PROVE  Local!Overwrite(c, at, d) = Overwrite(c, at, d)
BY DEF Local!Overwrite, Overwrite

LEMMA ContentCases ==
  ASSUME Unbuffered
  PROVE  /\ Has("W_BUFFERED") /\ ~ Has("APPEND") => Content = Overwrite(file, woff, wbuf)
         /\ ~ Dirty => Content = file
         /\ ~ Has("W_BUFFERED") \/ Has("APPEND") => ~ Dirty
BY DEF Content, Dirty, Overwrite, Unbuffered

LEMMA ContentCasesNext ==
  ASSUME Unbuffered', UNCHANGED flags
  PROVE  /\ Has("W_BUFFERED") /\ ~ Has("APPEND") => Content' = Overwrite(file', woff', wbuf')
         /\ ~ Dirty' => Content' = file'
         /\ ~ Has("W_BUFFERED") \/ Has("APPEND") => ~ Dirty'
BY DEF Content, Dirty, Overwrite, Unbuffered, Has

LEMMA IntentCases ==
  /\ op.kind = "write" => Intent = [at |-> todo.at, data |-> todo.data]
  /\ op.kind = "spill" => Intent = [at |-> offset + Len(op.data), data |-> <<>>]
  /\ op.kind \notin {"write", "spill"} => Intent = None
BY DEF Intent

LEMMA IntentCasesNext ==
  /\ op'.kind = "write" => Intent' = [at |-> todo'.at, data |-> todo'.data]
  /\ op'.kind = "spill" => Intent' = [at |-> offset' + Len(op'.data), data |-> <<>>]
  /\ op'.kind \notin {"write", "spill"} => Intent' = None
BY DEF Intent

\* A write under way is told from none.
LEMMA WriteIsSome ==
  ASSUME NEW n \in Nat, NEW d \in Data
  PROVE  [at |-> n, data |-> d] # None
BY RpcFileAssumption DEF Data, Cell

\* With nothing under way the invariant is about the buffers.
LEMMA IdleNext ==
  ASSUME TypeOK', Unbuffered', op' = Idle
  PROVE  Inv'
BY DEF Inv, Idle, Writing, Pushing, Appending, Reading

LEMMA SeekStep ==
  ASSUME Inv, NEW n \in 0 .. MaxLength, Seek(n)
  PROVE  Inv' /\ LocalStep
<1>1. n \in Nat
  BY RpcFileAssumption, SMT
<1>2. /\ op = Idle /\ offset' = n /\ astray' = "no"
      /\ UNCHANGED <<chosen, file, buffers, op, todo, result, ops, faults, others>>
  BY DEF Seek
<1>3. Inv'
  <2>1. TypeOK'
    BY <1>1, <1>2 DEF Inv, TypeOK, buffers
  <2>2. Unbuffered'
    BY <1>2 DEF Inv, Unbuffered, Has, buffers, chosen
  <2> QED BY <1>2, <2>1, <2>2, IdleNext
<1>4. Content' = Content
  BY <1>2 DEF Content, Has, Overwrite, buffers, chosen
<1>5. Intent' = Intent
  BY <1>2, IntentCases, IntentCasesNext DEF Idle
<1>6. Waiting' = Waiting
  BY <1>2 DEF Waiting, Has, buffers, chosen
<1>7. Local!Seek
  BY <1>1, <1>2, <1>4, <1>5, <1>6 DEF Local!Seek
<1> QED BY <1>3, <1>7 DEF LocalStep

LEMMA TruncateStep ==
  ASSUME Inv, NEW n \in 0 .. MaxLength, Truncate(n)
  PROVE  Inv' /\ (LocalStep \/ AstrayStep)
<1>1. /\ op = Idle /\ ops' = ops + 1 /\ file' = Truncated(n)
      /\ astray' = IF Dirty THEN "write" ELSE "no"
      /\ UNCHANGED <<chosen, offset, buffers, op, todo, result, faults, others>>
  BY DEF Truncate
<1>2. n \in Nat /\ 0 \in 0 .. n
  BY RpcFileAssumption, SMT
<1>3. file' \in Data
  BY <1>1, <1>2, SMT DEF Truncated, Data, Cell
<1>4. Unbuffered'
  BY <1>1 DEF Inv, Unbuffered, Has, buffers, chosen
<1>5. Inv'
  <2>1. TypeOK'
    BY <1>1, <1>3 DEF Inv, TypeOK, buffers
  <2> QED BY <1>1, <1>4, <2>1, IdleNext
<1>6. Waiting' = Waiting
  BY <1>1 DEF Waiting, Has, buffers, chosen
<1>7. CASE Dirty
  BY <1>1, <1>5, <1>6, <1>7 DEF AstrayStep
<1>8. CASE ~ Dirty
  <2>1. ~ Dirty'
    BY <1>1, <1>8 DEF Dirty, Has, buffers, chosen
  <2>2. Content' = Truncated(n)
    BY <1>1, <1>4, <2>1, ContentCasesNext DEF chosen
  <2>3. Local!Resized(Content, 0, n) = Truncated(n)
    <3>1. \A i \in 1 .. n : ~ i <= 0
      BY SMT
    <3> QED BY <3>1 DEF Local!Resized, Truncated
  <2>4. Intent' = Intent
    BY <1>1, IntentCases, IntentCasesNext DEF Idle
  <2>5. Local!Truncate(n)
    BY <1>1, <1>2, <1>6, <2>2, <2>3, <2>4 DEF Local!Truncate
  <2> QED BY <1>5, <2>5 DEF LocalStep
<1> QED BY <1>7, <1>8

LEMMA HoldsMore ==
  ASSUME NEW f \in Data, NEW g \in Data, NEW at \in Nat, NEW d \in Data, Holds(f, at, d)
  PROVE  Holds(f \o g, at, d)
<1>1. /\ Len(f \o g) = Len(f) + Len(g)
      /\ \A i \in 1 .. Len(f) + Len(g) : (f \o g)[i] = IF i <= Len(f) THEN f[i] ELSE g[i - Len(f)]
  BY ConcatProperties, Zenon DEF Data
<1> DEFINE fg == f \o g
<1> HIDE DEF fg
<1> SUFFICES ASSUME NEW i \in 1 .. Len(d) PROVE at + i <= Len(fg) /\ fg[at + i] = d[i]
  BY DEF Holds, fg
<1>2. at + i <= Len(f) /\ f[at + i] = d[i]
  BY DEF Holds
<1>3. Len(f) \in Nat /\ Len(g) \in Nat /\ Len(d) \in Nat
  BY SMT DEF Data
<1>4. Len(fg) = Len(f) + Len(g)
  BY <1>1 DEF fg
<1>5. at + i \in 1 .. Len(f) + Len(g)
  BY <1>2, <1>3, SMT
<1>6. fg[at + i] = f[at + i]
  BY <1>1, <1>2, <1>5 DEF fg
<1> QED BY <1>2, <1>3, <1>4, <1>6, SMT

LEMMA BytesAreData ==
  ASSUME NEW k \in Nat, NEW n \in Nat
  PROVE  Bytes(k, n) \in Data /\ Len(Bytes(k, n)) = n
BY SMT DEF Bytes, Data, Cell

LEMMA OtherStep ==
  ASSUME Inv, Other
  PROVE  Inv' /\ LocalStep
<1> DEFINE d == Bytes(MaxOps + others', 1)
<1>1. /\ ~ Dirty /\ others' = others + 1 /\ file' = file \o d
      /\ UNCHANGED <<chosen, offset, buffers, op, todo, result, astray, ops, faults>>
  BY DEF Other
<1>2. d \in Data
  BY <1>1, RpcFileAssumption, BytesAreData, SMT DEF Inv, TypeOK
<1> HIDE DEF d
<1>3. TypeOK /\ file \o d \in Data
  BY <1>2, ConcatProperties, Zenon DEF Inv, TypeOK, Data
<1>4. TypeOK'
  BY <1>1, <1>3 DEF TypeOK, buffers
<1>5. Unbuffered'
  BY <1>1 DEF Inv, Unbuffered, Has, buffers, chosen
<1>6. ~ Dirty'
  BY <1>1 DEF Dirty, Has, buffers, chosen
<1>7. Writing'
  BY <1>1 DEF Inv, Writing, Has, chosen
<1>8. Pushing'
  BY <1>1 DEF Inv, Pushing, Dirty, Has, chosen
<1>9. Appending'
  <2>1. Holds(file, roff, rbuf) => Holds(file', roff, rbuf)
    BY <1>1, <1>2, <1>3, HoldsMore DEF TypeOK
  <2> QED BY <1>1, <2>1 DEF Inv, Appending, Has, buffers, chosen
<1>10. Reading'
  <2> SUFFICES ASSUME op'.kind = "read" PROVE Reading'
    BY DEF Reading
  <2>1. op \in Reads
    BY <1>1, <1>3 DEF TypeOK, Idle, Writes, Fetches
  <2>2. Reading /\ op.head \in Data /\ op.start \in Nat
    BY <2>1 DEF Inv, Reads
  <2>3. astray # "read" => Holds(file', offset, op.head) /\ Holds(file', op.start, todo.data)
    <3> SUFFICES ASSUME astray # "read"
                 PROVE  Holds(file', offset, op.head) /\ Holds(file', op.start, todo.data)
      OBVIOUS
    <3>1. Holds(file, offset, op.head) /\ Holds(file, op.start, todo.data)
      BY <1>1, <2>2 DEF Reading, Sighted
    <3> QED BY <1>1, <1>2, <1>3, <2>2, <3>1, HoldsMore DEF TypeOK
  <2>4. astray' # "read" => Sighted'
    BY <1>1, <1>6, <2>3 DEF Sighted
  <2> QED BY <1>1, <2>2, <2>4 DEF Reading
<1>11. Inv'
  BY <1>4, <1>5, <1>7, <1>8, <1>9, <1>10 DEF Inv
<1>12. Content' = Content \o d
  BY <1>1, <1>5, <1>6, ContentCases, ContentCasesNext DEF Inv, chosen
<1>13. Intent' = Intent
  BY <1>1 DEF Intent
<1>14. Waiting' = Waiting
  BY <1>1 DEF Waiting, Has, buffers, chosen
<1>15. Local!Other(d)
  BY <1>1, <1>12, <1>13, <1>14 DEF Local!Other
<1> QED BY <1>11, <1>15 DEF LocalStep, d

LEMMA FlushStep ==
  ASSUME Inv, Flush
  PROVE  Inv' /\ UNCHANGED Local!vars
<1>1. /\ op = Idle /\ ops' = ops + 1 /\ Has("W_BUFFERED") /\ wbuf # <<>>
      /\ op' = [kind |-> IF Has("APPEND") THEN "append" ELSE "flush", data |-> <<>>]
      /\ todo' = [at |-> woff, data |-> wbuf]
      /\ astray' = "no"
      /\ UNCHANGED <<chosen, file, faults, others, offset, buffers, result>>
  BY DEF Flush, Begin
<1>2. TypeOK'
  <2>1. op' \in Writes
    BY <1>1, SMT DEF Writes, Data
  <2> QED BY <1>1, <2>1 DEF Inv, TypeOK, buffers
<1>3. Unbuffered'
  BY <1>1 DEF Inv, Unbuffered, Has, buffers, chosen
<1>4. op'.kind = IF Has("APPEND") THEN "append" ELSE "flush"
  BY <1>1
<1>5. Writing' /\ Reading'
  BY <1>4 DEF Writing, Reading
<1>6. Pushing'
  BY <1>1, <1>4 DEF Pushing, Pushes, Has, buffers, chosen
<1>7. Appending'
  BY <1>1, <1>4 DEF Appending, Has, buffers, chosen
<1>8. Inv'
  BY <1>2, <1>3, <1>5, <1>6, <1>7 DEF Inv
<1>9. Content' = Content
  BY <1>1 DEF Content, Has, Overwrite, buffers, chosen
<1>10. Intent' = Intent
  BY <1>1, <1>4, IntentCases, IntentCasesNext DEF Idle
<1>11. Waiting' = Waiting
  BY <1>1, <1>4 DEF Waiting, Has, Idle, buffers, chosen
<1> QED BY <1>1, <1>8, <1>9, <1>10, <1>11 DEF Local!vars

LEMMA CallFailsStep ==
  ASSUME Inv, CallFails
  PROVE  Inv' /\ LocalStep
<1>1. /\ op' = Idle /\ todo' = Nothing
      /\ UNCHANGED <<chosen, file, offset, buffers, result, astray, ops, others>>
  BY DEF CallFails, InCall
<1>2. TypeOK'
  BY <1>1, SMT DEF Inv, TypeOK, buffers, Nothing, Data
<1>3. Unbuffered'
  BY <1>1 DEF Inv, Unbuffered, Has, buffers, chosen
<1>4. Inv'
  BY <1>1, <1>2, <1>3, IdleNext
<1>5. Content' = Content
  BY <1>1 DEF Content, Has, Overwrite, buffers, chosen
<1>6. Intent' = None
  BY <1>1, IntentCasesNext DEF Idle
<1>7. Waiting' \in {Waiting, <<>>}
  BY <1>1 DEF Waiting, Has, Idle, buffers, chosen
<1>8. Local!Fail
  BY <1>1, <1>5, <1>6, <1>7 DEF Local!Fail
<1> QED BY <1>4, <1>8 DEF LocalStep

LEMMA AppendCallStep ==
  ASSUME Inv, AppendCall
  PROVE  Inv' /\ LocalStep
<1>1. /\ op # Idle /\ op.kind \in {"append", "appendread"} /\ file' = file \o todo.data
      /\ UNCHANGED <<chosen, astray, ops, others, roff, rbuf, woff>>
  BY DEF AppendCall, InCall
<1>2. TypeOK /\ todo.data \in Data
  BY DEF Inv, TypeOK
<1>3. file' \in Data
  BY <1>1, <1>2, ConcatProperties, Zenon DEF TypeOK, Data
<1>4. /\ Has("APPEND") /\ (Has("W_BUFFERED") => todo.data = wbuf)
      /\ op.kind = "appendread" => todo.data = wbuf /\ Has("W_BUFFERED") /\ astray # "write"
      /\ op.kind = "appendread" /\ astray # "read" => Holds(file, roff, rbuf)
  BY <1>1 DEF Inv, Appending
<1>5. Holds(file, roff, rbuf) => Holds(file', roff, rbuf)
  BY <1>1, <1>2, HoldsMore DEF TypeOK
<1>6. Content' = Content \o todo.data
  BY <1>1, <1>4 DEF Content, Has, chosen
<1>7. Waiting = todo.data
  BY <1>1, <1>4 DEF Waiting
<1>8. Intent = None
  BY <1>1, IntentCases
<1>9. CASE UNCHANGED <<op, todo, offset, wbuf, result>>
  <2>1. TypeOK'
    BY <1>1, <1>2, <1>3, <1>9 DEF TypeOK
  <2>2. Unbuffered' /\ Writing' /\ Pushing' /\ Reading'
    BY <1>1, <1>9 DEF Inv, Unbuffered, Writing, Pushing, Reading, Has, chosen
  <2>3. Appending'
    BY <1>1, <1>5, <1>9 DEF Inv, Appending, Has, chosen
  <2>4. Waiting' = Waiting /\ Intent' = Intent
    BY <1>1, <1>9 DEF Waiting, Intent, Has, chosen
  <2>5. Local!PutWaiting
    BY <1>6, <1>7, <1>9, <2>4 DEF Local!PutWaiting
  <2> QED BY <2>1, <2>2, <2>3, <2>5 DEF Inv, LocalStep
<1>10. CASE wbuf' = <<>> /\ op.kind = "append" /\ op' = Idle /\ todo' = Nothing
            /\ UNCHANGED <<offset, result>>
  <2>1. TypeOK'
    BY <1>1, <1>2, <1>3, <1>10, SMT DEF TypeOK, Nothing, Data
  <2>2. Unbuffered'
    BY <1>10 DEF Unbuffered
  <2>3. Inv'
    BY <1>10, <2>1, <2>2, IdleNext
  <2>4. Waiting' = <<>> /\ Intent' = None
    BY <1>10, IntentCasesNext DEF Waiting, Idle
  <2>5. Local!PutWaiting
    BY <1>6, <1>7, <1>8, <1>10, <2>4 DEF Local!PutWaiting
  <2> QED BY <2>3, <2>5 DEF LocalStep
<1>11. CASE wbuf' = <<>> /\ op.kind = "appendread" /\ op' = [op EXCEPT !.kind = "fetch"]
            /\ UNCHANGED <<todo, offset, result>>
  <2>1. op \in Fetches
    BY <1>2, <1>11 DEF TypeOK, Idle, Writes, Reads
  <2>2. op' \in Fetches /\ op'.kind = "fetch"
    BY <1>11, <2>1 DEF Fetches
  <2>3. TypeOK'
    BY <1>1, <1>2, <1>3, <1>11, <2>2, SMT DEF TypeOK, Data
  <2>4. Unbuffered' /\ Writing' /\ Pushing' /\ Reading'
    BY <1>11, <2>2 DEF Unbuffered, Writing, Pushing, Reading
  <2>5. Appending'
    BY <1>1, <1>4, <1>5, <1>11, <2>2 DEF Appending, Has, chosen
  <2>6. Waiting' = <<>> /\ Intent' = None
    BY <1>11, <2>2, IntentCasesNext DEF Waiting
  <2>7. Local!PutWaiting
    BY <1>6, <1>7, <1>8, <1>11, <2>6 DEF Local!PutWaiting
  <2> QED BY <2>3, <2>4, <2>5, <2>7 DEF Inv, LocalStep
<1> QED BY <1>1, <1>9, <1>10, <1>11 DEF AppendCall

LEMMA FirstAll ==
  ASSUME NEW s \in Data, NEW k \in Nat, Len(s) <= k
  PROVE  First(s, k) = s
<1>1. Smaller(k, Len(s)) = Len(s)
  BY SMT DEF Smaller, Data
<1>2. SubSeq(s, 1, Len(s)) = s
  BY SubSeqFull, Zenon DEF Data
<1> QED BY <1>1, <1>2 DEF First

\* All data of a write takes effect when it is buffered.
LEMMA BufferedStep ==
  ASSUME Inv, NEW b \in Data, NEW at \in Nat, NEW d \in Data, Buffered(b, at, d),
         Has("W_BUFFERED"), ~ Has("APPEND"),
         b # <<>>, Len(b) > MaxWrite => Len(b) % MaxWrite = 0,
         file' \in Data, ops' \in Nat, others' \in Nat, astray' \in {"no", "read", "write"},
         UNCHANGED <<flags, roff, rbuf, result>>,
         Overwrite(file', at, b) = Overwrite(Content, offset, d),
         Intent = None
  PROVE  Inv' /\ Local!Write(d)
<1>1. wbuf' = b /\ woff' = at
  BY DEF Buffered
<1>2. Has("W_BUFFERED")' /\ ~ Has("APPEND")'
  BY DEF Has
<1>3. Unbuffered'
  BY <1>2 DEF Unbuffered
<1>4. Content' = Overwrite(Content, offset, d)
  BY <1>1, <1>3, ContentCasesNext
<1>5. Waiting' = Waiting
  <2>1. op.kind # "append"
    BY DEF Inv, Appending
  <2>2. op'.kind # "append"
    BY DEF Buffered, Idle
  <2> QED BY <2>1, <2>2, <1>2 DEF Waiting
<1>6. SubSeq(d, 1, Len(d)) = d /\ SubSeq(d, Len(d) + 1, Len(d)) = <<>> /\ Len(d) \in Nat
  BY SMT DEF Data
<1>7. Len(d) \in 0 .. Len(d)
  BY <1>6, SMT
<1>8. offset \in Nat /\ roff \in Nat /\ rbuf \in Data
  BY DEF Inv, TypeOK
<1>9. CASE Len(b) > MaxWrite
  <2>1. op' = [kind |-> "spill", data |-> d] /\ offset' = offset
        /\ todo' = [at |-> at, data |-> First(b, Floor(Len(b), MaxWrite))]
    BY <1>9 DEF Buffered
  <2>2. Len(b) \in Nat /\ Floor(Len(b), MaxWrite) = Len(b)
    BY <1>9, SMT DEF Floor, Data
  <2>3. todo' = [at |-> at, data |-> b]
    BY <2>1, <2>2, FirstAll, SMT
  <2>4. op' \in Writes /\ op'.kind = "spill"
    BY <2>1, SMT DEF Writes
  <2>5. TypeOK'
    BY <1>1, <1>8, <2>1, <2>3, <2>4 DEF TypeOK
  <2>6. Writing' /\ Appending' /\ Reading'
    BY <2>4 DEF Writing, Appending, Reading
  <2>7. Pushing'
    BY <1>1, <1>2, <1>9, <2>3, <2>4 DEF Pushing, Pushes
  <2>8. Intent' = [at |-> offset + Len(d), data |-> <<>>]
    BY <2>1, IntentCasesNext
  <2>9. Local!Take(offset, d, Len(d))
    BY <1>4, <1>5, <1>6, <2>1, <2>8, OverwriteIsLocal DEF Local!Take
  <2> QED BY <1>3, <1>7, <2>5, <2>6, <2>7, <2>9 DEF Inv, Local!Write
<1>10. CASE ~ Len(b) > MaxWrite
  <2>1. op' = Idle /\ todo' = Nothing /\ offset' = offset + Len(d)
    BY <1>10 DEF Buffered
  <2>2. offset' \in Nat
    BY <1>6, <1>8, <2>1, SMT
  <2>3. todo' \in [at : Nat, data : Data]
    BY <2>1, SMT DEF Nothing, Data
  <2>4. TypeOK'
    BY <1>1, <1>8, <2>1, <2>2, <2>3 DEF TypeOK
  <2>5. Inv'
    BY <1>3, <2>1, <2>4, IdleNext
  <2>6. Intent' = None
    BY <2>1, IntentCasesNext DEF Idle
  <2>7. Local!Take(offset, d, Len(d))
    BY <1>4, <1>5, <1>6, <2>1, <2>6, OverwriteIsLocal DEF Local!Take
  <2> QED BY <1>7, <2>5, <2>7 DEF Local!Write
<1> QED BY <1>9, <1>10

\* Data that the buffer fails is in the buffer all the same.
LEMMA BufferedAstray ==
  ASSUME Inv, NEW b \in Data, NEW at \in Nat, NEW d \in Data, Buffered(b, at, d),
         Has("W_BUFFERED"), ~ Has("APPEND"), b # <<>>,
         file' \in Data, ops' \in Nat, astray' = "write",
         UNCHANGED <<flags, roff, rbuf, result, others>>
  PROVE  Inv' /\ AstrayStep
<1>1. wbuf' = b /\ woff' = at
  BY DEF Buffered
<1>2. Has("W_BUFFERED")' /\ ~ Has("APPEND")'
  BY DEF Has
<1>3. Unbuffered'
  BY <1>2 DEF Unbuffered
<1>4. op.kind # "append"
  BY DEF Inv, Appending
<1>5. op' = Idle \/ op' = [kind |-> "spill", data |-> d]
  BY DEF Buffered
<1>6. Waiting' = Waiting
  BY <1>2, <1>4, <1>5 DEF Waiting, Idle
<1>7. AstrayStep
  BY <1>6 DEF AstrayStep
<1>8. /\ offset \in Nat /\ roff \in Nat /\ rbuf \in Data /\ others \in Nat
      /\ Len(d) \in Nat /\ Len(b) \in Nat
  BY SMT DEF Inv, TypeOK, Data
<1>9. CASE Len(b) > MaxWrite
  <2> DEFINE full == Floor(Len(b), MaxWrite)
  <2>1. op' = [kind |-> "spill", data |-> d] /\ offset' = offset
        /\ todo' = [at |-> at, data |-> First(b, full)]
    BY <1>9 DEF Buffered
  <2>2. Len(b) % MaxWrite \in 0 .. MaxWrite - 1 /\ Len(b) % MaxWrite <= Len(b)
    BY <1>8, RpcFileAssumption, Remainder
  <2>3. full \in Nat
    BY <1>8, <2>2, RpcFileAssumption, SMT DEF Floor
  <2> HIDE DEF full
  <2>4. First(b, full) \in Data
    BY <2>3, FirstProperties
  <2>5. op' \in Writes /\ op'.kind = "spill"
    BY <2>1, SMT DEF Writes
  <2>6. TypeOK'
    BY <1>1, <1>8, <2>1, <2>4, <2>5 DEF TypeOK
  <2>7. Writing' /\ Appending' /\ Reading'
    BY <2>5 DEF Writing, Appending, Reading
  <2>8. Pushing'
    BY <1>1, <1>2 DEF Pushing
  <2> QED BY <1>3, <1>7, <2>6, <2>7, <2>8 DEF Inv
<1>10. CASE ~ Len(b) > MaxWrite
  <2>1. op' = Idle /\ todo' = Nothing /\ offset' = offset + Len(d)
    BY <1>10 DEF Buffered
  <2>2. offset' \in Nat /\ Nothing \in [at : Nat, data : Data]
    BY <1>8, <2>1, SMT DEF Nothing, Data
  <2>3. TypeOK'
    BY <1>1, <1>8, <2>1, <2>2 DEF TypeOK
  <2> QED BY <1>3, <1>7, <2>1, <2>3, IdleNext
<1> QED BY <1>9, <1>10

\* A write that is not buffered begins, and one that is buffered is done, unless
\* the buffer has to be written first.
LEMMA WriteStep ==
  ASSUME Inv, NEW n \in Sizes, Write(Bytes(ops + 1, n))
  PROVE  Inv' /\ (LocalStep \/ AstrayStep \/ UNCHANGED Local!vars)
<1> DEFINE d == Bytes(ops + 1, n)
<1> DEFINE fails == Has("W_BUFFERED") /\ ~ Has("APPEND") /\ (Overflows(d) \/ Rewinds)
<1>1. /\ op = Idle /\ ops' = ops + 1
      /\ astray' = IF fails THEN "write" ELSE "no"
      /\ UNCHANGED <<flags, file, faults, others, roff, rbuf, result>>
  BY DEF Write, Begin, chosen
<1>2. TypeOK /\ Unbuffered /\ ops + 1 \in Nat /\ n \in Nat
  BY RpcFileAssumption, SMT DEF Inv, TypeOK, Sizes
<1>3. d \in Data /\ Len(d) = n /\ d # <<>>
  <2>1. d \in Data /\ Len(d) = n
    BY <1>2, BytesAreData
  <2> QED BY <2>1, SMT DEF Sizes
<1>4. Intent = None
  BY <1>1, IntentCases DEF Idle
<1>5. Waiting = IF Has("W_BUFFERED") /\ Has("APPEND") THEN wbuf ELSE <<>>
  BY <1>1 DEF Waiting, Idle
<1>6. Len(wbuf) \in Nat /\ offset \in Nat /\ woff \in Nat
  BY <1>2, SMT DEF TypeOK, Data
<1>7. astray' \in {"no", "read", "write"} /\ (fails => astray' = "write")
  BY <1>1
<1>8. Has("W_BUFFERED") /\ ~ Has("APPEND") /\ ~ fails => ~ Overflows(d) /\ ~ Rewinds
  OBVIOUS
<1> HIDE DEF d, fails
<1>9. CASE ~ Has("W_BUFFERED")
  <2>1. /\ op' = [kind |-> IF Has("APPEND") THEN "append" ELSE "write", data |-> d]
        /\ todo' = [at |-> offset, data |-> d]
        /\ UNCHANGED <<offset, woff, wbuf>>
    BY <1>9 DEF Write, d
  <2>2. op' \in Writes /\ op'.kind = IF Has("APPEND") THEN "append" ELSE "write"
    BY <1>3, <2>1, SMT DEF Writes
  <2>3. TypeOK'
    BY <1>1, <1>2, <1>3, <1>7, <2>1, <2>2 DEF TypeOK
  <2>4. Unbuffered' /\ Pushing' /\ Reading'
    BY <1>1, <1>2, <2>1, <2>2 DEF Unbuffered, Pushing, Reading, Has
  <2>5. Writing'
    BY <1>1, <1>9, <2>1, <2>2 DEF Writing, Has
  <2>6. Appending'
    BY <1>1, <1>9, <2>1, <2>2 DEF Appending, Has
  <2>7. Content' = Content
    BY <1>1, <2>1 DEF Content, Has, Overwrite
  <2>8. CASE Has("APPEND")
    <3>1. Intent' = None
      BY <2>2, <2>8, IntentCasesNext
    <3>2. Waiting' = d
      BY <1>1, <1>9, <2>1, <2>2, <2>8 DEF Waiting, Has
    <3>3. Waiting' = Waiting \o d
      BY <1>3, <1>5, <1>9, <3>2, ConcatEmptySeq DEF Data
    <3>4. Local!GiveToAppend(d)
      BY <1>1, <1>4, <2>1, <2>7, <3>1, <3>3 DEF Local!GiveToAppend
    <3> QED BY <2>3, <2>4, <2>5, <2>6, <3>4 DEF Inv, LocalStep, d
  <2>9. CASE ~ Has("APPEND")
    <3>1. Intent' = [at |-> offset, data |-> d]
      BY <2>1, <2>2, <2>9, IntentCasesNext
    <3>2. Waiting' = Waiting
      BY <1>1, <1>5, <1>9, <2>2, <2>9 DEF Waiting, Has
    <3>3. SubSeq(d, 1, 0) = <<>> /\ 0 \in 0 .. Len(d)
      BY <1>2, <1>3, SMT DEF Data
    <3>4. Local!Overwrite(Content, offset, SubSeq(d, 1, 0)) = Content
      BY <3>3 DEF Local!Overwrite
    <3>5. Local!Take(offset, d, 0)
      BY <1>1, <2>1, <2>7, <3>1, <3>2, <3>4 DEF Local!Take
    <3>6. Local!Write(d)
      BY <1>4, <3>3, <3>5 DEF Local!Write
    <3> QED BY <2>3, <2>4, <2>5, <2>6, <3>6 DEF Inv, LocalStep, d
  <2> QED BY <2>8, <2>9
<1>10. CASE Has("W_BUFFERED") /\ Has("APPEND")
  <2>1. wbuf' = wbuf \o d /\ UNCHANGED <<op, todo, offset, woff>>
    BY <1>10 DEF Write, d
  <2>2. wbuf' \in Data
    BY <1>2, <1>3, <2>1, ConcatProperties, Zenon DEF TypeOK, Data
  <2>3. TypeOK'
    BY <1>1, <1>2, <1>7, <2>1, <2>2 DEF TypeOK
  <2>4. Unbuffered'
    BY <1>1, <1>10 DEF Unbuffered, Has
  <2>5. Inv'
    BY <1>1, <2>1, <2>3, <2>4, IdleNext
  <2>6. Content' = Content
    BY <1>1, <1>10 DEF Content, Has
  <2>7. Intent' = None
    BY <1>1, <2>1, IntentCasesNext DEF Idle
  <2>8. Waiting' = Waiting \o d
    BY <1>1, <1>5, <1>10, <2>1 DEF Waiting, Has
  <2>9. Local!GiveToAppend(d)
    BY <1>1, <1>4, <2>1, <2>6, <2>7, <2>8 DEF Local!GiveToAppend
  <2> QED BY <2>5, <2>9 DEF LocalStep, d
<1>11. CASE Has("W_BUFFERED") /\ ~ Has("APPEND") /\ Buffers(offset) /\ ~ fails
  <2>1. Buffered(WriteBuffer(d), woff, d)
    BY <1>11 DEF Write, d
  <2>2. ~ Rewinds /\ ~ Overflows(d)
    BY <1>8, <1>11
  <2>3. ~ offset < woff + Len(wbuf)
    BY <1>11, <2>2 DEF Rewinds
  <2>4. offset = woff + Len(wbuf) /\ wbuf # <<>>
    BY <1>6, <1>11, <2>3, SMT DEF Buffers
  <2>5. offset - woff = Len(wbuf)
    BY <1>6, <2>4, SMT
  <2>6. First(wbuf, offset - woff) = wbuf
    BY <1>2, <1>6, <2>5, FirstAll DEF TypeOK
  <2>7. WriteBuffer(d) = wbuf \o d
    BY <2>6 DEF WriteBuffer
  <2> DEFINE b == wbuf \o d
  <2>8. b \in Data /\ Len(b) = Len(wbuf) + Len(d)
    BY <1>2, <1>3, ConcatProperties, Zenon DEF TypeOK, Data
  <2>9. Len(b) > MaxWrite => Len(b) % MaxWrite = 0
    BY <1>11, <2>2, <2>7, Zenon DEF Overflows
  <2>10. b # <<>>
    BY <1>2, <1>3, <1>6, <2>8, SMT DEF Sizes
  <2>11. Content = Overwrite(file, woff, wbuf)
    BY <1>2, <1>11, ContentCases
  <2>12. Overwrite(file', woff, b) = Overwrite(Content, offset, d)
    BY <1>1, <1>2, <1>3, <2>4, <2>11, OverwriteTwice DEF TypeOK
  <2>13. file' \in Data /\ ops' \in Nat /\ others' \in Nat
    BY <1>1, <1>2 DEF TypeOK
  <2> HIDE DEF b
  <2>14. Buffered(b, woff, d)
    BY <2>1, <2>7 DEF b
  <2>15. Inv' /\ Local!Write(d)
    BY <1>1, <1>3, <1>4, <1>6, <1>7, <1>11, <2>8, <2>9, <2>10, <2>12, <2>13, <2>14, BufferedStep
  <2> QED BY <2>15 DEF LocalStep, d
<1>12. CASE Has("W_BUFFERED") /\ ~ Has("APPEND") /\ ~ Buffers(offset) /\ wbuf # <<>>
  <2>1. /\ op' = [kind |-> "move", data |-> d]
        /\ todo' = [at |-> woff, data |-> wbuf]
        /\ UNCHANGED <<offset, woff, wbuf>>
    BY <1>12 DEF Write, d
  <2>2. op' \in Writes /\ op'.kind = "move"
    BY <1>3, <2>1, SMT DEF Writes
  <2>3. TypeOK'
    BY <1>1, <1>2, <1>7, <2>1, <2>2 DEF TypeOK
  <2>4. Unbuffered' /\ Writing' /\ Appending' /\ Reading'
    BY <1>1, <1>12, <2>2 DEF Unbuffered, Writing, Appending, Reading, Has
  <2>5. ~ fails => (n > MaxWrite => n % MaxWrite = 0)
    BY <1>3, <1>8, <1>12 DEF Overflows
  <2>6. Pushing'
    <3>1. ~ fails => Pushes'
      BY <1>1, <2>1, <2>2, <2>5 DEF Pushes, d
    <3> QED BY <1>1, <1>7, <1>12, <2>1, <3>1 DEF Pushing, Has
  <2>7. Content' = Content
    BY <1>1, <2>1 DEF Content, Has, Overwrite
  <2>8. Intent' = None /\ Waiting' = Waiting
    BY <1>1, <1>5, <1>12, <2>2, IntentCasesNext DEF Waiting, Has
  <2> QED BY <1>1, <1>4, <2>1, <2>3, <2>4, <2>6, <2>7, <2>8 DEF Inv, Local!vars
<1>13. CASE Has("W_BUFFERED") /\ ~ Has("APPEND") /\ ~ Buffers(offset) /\ wbuf = <<>> /\ ~ fails
  <2>1. Buffered(d, offset, d)
    BY <1>13 DEF Write, d
  <2>2. Len(d) > MaxWrite => Len(d) % MaxWrite = 0
    BY <1>8, <1>13 DEF Overflows
  <2>3. Content = file
    BY <1>2, <1>13, ContentCases DEF Dirty
  <2>4. file' \in Data /\ ops' \in Nat /\ others' \in Nat
    BY <1>1, <1>2 DEF TypeOK
  <2>5. Inv' /\ Local!Write(d)
    BY <1>1, <1>3, <1>4, <1>6, <1>7, <1>13, <2>1, <2>2, <2>3, <2>4, BufferedStep
  <2> QED BY <2>5 DEF LocalStep, d
<1>14. CASE Has("W_BUFFERED") /\ ~ Has("APPEND") /\ (Buffers(offset) \/ wbuf = <<>>) /\ fails
  <2> DEFINE b == IF Buffers(offset) THEN WriteBuffer(d) ELSE d
             at == IF Buffers(offset) THEN woff ELSE offset
  <2>1. Buffered(b, at, d)
    BY <1>14 DEF Write, d
  <2>2. at \in Nat
    BY <1>6
  <2>3. b \in Data /\ b # <<>>
    <3>1. CASE Buffers(offset)
      <4>1. offset - woff \in Nat
        BY <1>6, <3>1, SMT DEF Buffers
      <4> DEFINE f == First(wbuf, offset - woff)
      <4>2. f \in Data
        BY <1>2, <4>1, FirstProperties DEF TypeOK
      <4> HIDE DEF f
      <4>3. f \o d \in Data /\ Len(f \o d) = Len(f) + Len(d) /\ Len(f) \in Nat
        BY <1>3, <4>2, ConcatProperties, LenProperties, Zenon DEF Data
      <4>4. Len(f \o d) > 0
        BY <1>3, <4>3, SMT DEF Sizes
      <4>5. f \o d # <<>>
        BY <4>3, <4>4, SMT
      <4>6. b = f \o d
        BY <3>1 DEF WriteBuffer, f
      <4> HIDE DEF b
      <4> QED BY <4>3, <4>5, <4>6, Zenon
    <3> QED BY <1>3, <3>1
  <2>4. file' \in Data /\ ops' \in Nat
    BY <1>1, <1>2 DEF TypeOK
  <2> HIDE DEF b, at
  <2>5. Inv' /\ AstrayStep
    BY <1>1, <1>3, <1>7, <1>14, <2>1, <2>2, <2>3, <2>4, BufferedAstray
  <2> QED BY <2>5
<1> QED BY <1>9, <1>10, <1>11, <1>12, <1>13, <1>14

\* One call of an unbuffered write puts a piece of it.
LEMMA PutStep ==
  ASSUME Inv, WriteCall, op.kind = "write"
  PROVE  Inv' /\ LocalStep
<1> DEFINE at == todo.at
           s == todo.data
           d == First(s, MaxWrite)
           k == Len(d)
<1>1. TypeOK /\ Unbuffered /\ MaxWrite \in Nat /\ at \in Nat /\ s \in Data
  BY RpcFileAssumption DEF Inv, TypeOK
<1>2. /\ op # Idle /\ file' = Overwrite(file, at, d)
      /\ UNCHANGED <<chosen, astray, ops, others, roff, rbuf, result>>
  BY DEF WriteCall, InCall
<1>3. /\ op \in Writes /\ op.data \in Data
  BY <1>1, <1>2 DEF TypeOK, Writes, Fetches, Reads
<1>4. /\ d \in Data /\ k \in 0 .. Len(s) /\ k \in Nat
      /\ k = Smaller(MaxWrite, Len(s)) /\ From(s, k) \in Data
  <2>1. d \in Data /\ k = Smaller(MaxWrite, Len(s)) /\ k \in 0 .. Len(s)
    BY <1>1, FirstProperties, Zenon
  <2>2. k \in Nat
    BY <2>1, SMT DEF Data
  <2> QED BY <1>1, <2>1, <2>2, FromProperties
<1>5. Writing /\ ~ Has("W_BUFFERED") /\ ~ Has("APPEND") /\ at + Len(s) = offset + Len(op.data)
  BY DEF Inv, Writing
<1>6. d = SubSeq(s, 1, k)
  BY <1>4 DEF First
<1>7. file' \in Data
  BY <1>1, <1>2, <1>4, OverwriteProperties DEF TypeOK, IsOverwrite
<1> HIDE DEF d
<1>8. Content' = Local!Overwrite(Content, at, SubSeq(s, 1, k))
  BY <1>2, <1>5, <1>6, OverwriteIsLocal DEF Content, Has, chosen
<1>9. Intent = [at |-> at, data |-> s]
  BY IntentCases
<1>10. Intent # None /\ Intent.at = at /\ Intent.data = s
  BY <1>1, <1>9, WriteIsSome
<1>11. Waiting = <<>>
  BY <1>5 DEF Waiting
<1>12. SUFFICES Inv' /\ Local!Take(at, s, k)
  BY <1>4, <1>10 DEF LocalStep, Local!Put
<1>13. CASE UNCHANGED <<op, todo, offset, woff, wbuf>>
  <2>1. TypeOK'
    BY <1>1, <1>2, <1>7, <1>13 DEF TypeOK
  <2>2. Inv'
    BY <1>1, <1>2, <1>5, <1>13, <2>1
       DEF Inv, Unbuffered, Writing, Pushing, Pushes, Appending, Reading, Has, chosen
  <2>3. Intent' = Intent /\ Waiting' = Waiting
    BY <1>2, <1>13 DEF Intent, Waiting, Has, chosen
  <2> QED BY <1>2, <1>8, <1>9, <1>13, <2>2, <2>3 DEF Local!Take
<1>14. CASE Len(s) <= MaxWrite /\ Written
  <2>1. /\ op' = Idle /\ todo' = Nothing /\ offset' = offset + Len(op.data)
        /\ UNCHANGED <<woff, wbuf>>
    BY <1>14 DEF Written
  <2>2. k = Len(s)
    BY <1>1, <1>4, <1>14, SMT DEF Smaller, Data
  <2>3. SubSeq(s, k + 1, Len(s)) = <<>> /\ offset' = at + k
    BY <1>1, <1>5, <2>1, <2>2, SMT DEF Data
  <2>4. offset' \in Nat
    BY <1>1, <1>4, <2>3, SMT
  <2>5. Nothing \in [at : Nat, data : Data]
    BY SMT DEF Nothing, Data
  <2>6. TypeOK'
    BY <1>1, <1>2, <1>7, <2>1, <2>4, <2>5 DEF TypeOK
  <2>7. Unbuffered'
    BY <1>1, <1>2, <2>1 DEF Unbuffered, Has, chosen
  <2>8. Inv'
    BY <2>1, <2>6, <2>7, IdleNext
  <2>9. Intent' = None /\ Waiting' = Waiting
    BY <1>2, <1>5, <1>11, <2>1, IntentCasesNext DEF Waiting, Idle, Has, chosen
  <2> QED BY <1>2, <1>8, <2>3, <2>8, <2>9 DEF Local!Take
<1>15. CASE /\ todo' = [at |-> at + k, data |-> From(s, k)]
            /\ UNCHANGED <<op, offset, woff, wbuf>>
  <2>1. at + k \in Nat
    BY <1>1, <1>4, SMT
  <2>2. TypeOK'
    BY <1>1, <1>2, <1>4, <1>7, <1>15, <2>1 DEF TypeOK
  <2>3. Len(From(s, k)) = Len(s) - k
    BY <1>1, <1>4, FromProperties, SMT
  <2>4. at + k + Len(From(s, k)) = offset + Len(op.data)
    BY <1>1, <1>4, <1>5, <2>3, SMT DEF Data
  <2>5. Writing'
    BY <1>2, <1>5, <1>15, <2>4 DEF Writing, Has, chosen
  <2>6. Unbuffered' /\ Pushing' /\ Appending' /\ Reading'
    BY <1>1, <1>2, <1>15 DEF Unbuffered, Pushing, Appending, Reading, Has, chosen
  <2>7. Intent' = [at |-> at + k, data |-> SubSeq(s, k + 1, Len(s))]
    BY <1>15, IntentCasesNext DEF From
  <2>8. Waiting' = Waiting
    BY <1>2, <1>5, <1>11, <1>15 DEF Waiting, Has, chosen
  <2> QED BY <1>2, <1>8, <1>15, <2>2, <2>5, <2>6, <2>7, <2>8 DEF Inv, Local!Take
<1> QED BY <1>13, <1>14, <1>15 DEF WriteCall, d

\* A call that writes the buffer changes nothing of what the user sees, unless
\* it is the last one of an operation that was given data.
LEMMA PushStep ==
  ASSUME Inv, WriteCall, op.kind \in {"move", "spill", "flush"}, astray # "write"
  PROVE  Inv' /\ (LocalStep \/ UNCHANGED Local!vars)
<1> DEFINE at == todo.at
           s == todo.data
           d == First(s, MaxWrite)
           k == Len(d)
           e == From(s, k)
<1>1. /\ TypeOK /\ Unbuffered /\ MaxWrite \in Nat /\ at \in Nat /\ s \in Data
      /\ file \in Data /\ woff \in Nat /\ wbuf \in Data /\ offset \in Nat
  BY RpcFileAssumption DEF Inv, TypeOK
<1>2. /\ op # Idle /\ file' = Overwrite(file, at, d)
      /\ UNCHANGED <<chosen, astray, ops, others, roff, rbuf, result>>
  BY DEF WriteCall, InCall
<1>3. /\ op \in Writes /\ op.data \in Data
  BY <1>1, <1>2 DEF TypeOK, Writes, Fetches, Reads
<1>4. d \in Data /\ k \in Nat /\ e \in Data /\ d \o e = s
  <2>1. d \in Data /\ k \in 0 .. MaxWrite
    BY <1>1, FirstProperties, Zenon
  <2>2. k \in Nat
    BY <1>1, <2>1, SMT
  <2> QED BY <1>1, <2>1, <2>2, FromProperties, Split
<1>5. /\ Has("W_BUFFERED") /\ ~ Has("APPEND") /\ wbuf # <<>>
      /\ Overwrite(file, at, s) = Overwrite(file, woff, wbuf)
      /\ op.kind = "spill" => Len(wbuf) % MaxWrite = 0
      /\ op.kind = "move" => \E n \in Sizes : /\ op.data = Bytes(ops, n)
                                              /\ n > MaxWrite => n % MaxWrite = 0
  BY DEF Inv, Pushing, Pushes
<1>6. file' \in Data
  BY <1>1, <1>2, <1>4, OverwriteProperties DEF TypeOK, IsOverwrite
<1>7. Content = Overwrite(file, woff, wbuf)
  BY <1>1, <1>5, ContentCases
<1>8. op.kind # "append" /\ Waiting = <<>>
  BY <1>5 DEF Waiting
<1>9. /\ Overwrite(file', woff, wbuf) = Content
      /\ Overwrite(file', at, s) = Content
      /\ Overwrite(file', at + k, e) = Content
  <2> HIDE DEF at, s, d, e
  <2>1. file \in Data /\ at \in Nat /\ d \in Data /\ e \in Data
    BY <1>1, <1>4
  <2>2. Overwrite(file, at, d \o e) = Overwrite(file, woff, wbuf)
    BY <1>4, <1>5
  <2>3. woff \in Nat /\ wbuf \in Data
    BY <1>1
  <2>4. Overwrite(Overwrite(file, at, d), woff, wbuf) = Overwrite(file, woff, wbuf)
    BY <2>1, <2>2, <2>3, OverwritePart
  <2>5. Overwrite(Overwrite(file, at, d), at, d \o e) = Overwrite(file, at, d \o e)
    <3> DEFINE de == d \o e
    <3>1. de \in Data /\ Overwrite(file, at, d \o e) = Overwrite(file, at, de)
      BY <1>1, <1>4
    <3> HIDE DEF de
    <3>2. Overwrite(Overwrite(file, at, d), at, de) = Overwrite(file, at, de)
      BY <2>1, <3>1, OverwritePart
    <3> QED BY <3>2 DEF de
  <2>6. Overwrite(Overwrite(file, at, d), at + Len(d), e) = Overwrite(file, at, d \o e)
    BY <2>1, OverwriteTwice
  <2> QED BY <1>2, <1>4, <1>5, <1>7, <2>4, <2>5, <2>6
<1> HIDE DEF d
<1>10. CASE UNCHANGED <<op, todo, offset, woff, wbuf>>
  <2>1. TypeOK'
    BY <1>1, <1>2, <1>6, <1>10 DEF TypeOK
  <2>2. Unbuffered' /\ Writing' /\ Appending' /\ Reading'
    BY <1>1, <1>2, <1>5, <1>10 DEF Unbuffered, Writing, Appending, Reading, Has, chosen
  <2>3. Pushing'
    BY <1>2, <1>5, <1>9, <1>10 DEF Pushing, Pushes, Has, chosen
  <2>4. Content' = Content
    BY <1>2, <1>5, <1>9, <1>10, <2>2, ContentCasesNext DEF chosen
  <2>5. Intent' = Intent /\ Waiting' = Waiting
    BY <1>2, <1>10 DEF Intent, Waiting, Has, chosen
  <2> QED BY <1>2, <1>10, <2>1, <2>2, <2>3, <2>4, <2>5 DEF Inv, Local!vars
<1>11. CASE /\ todo' = [at |-> at + k, data |-> e]
            /\ UNCHANGED <<op, offset, woff, wbuf>>
  <2>1. at + k \in Nat
    BY <1>1, <1>4, SMT
  <2>2. TypeOK'
    BY <1>1, <1>2, <1>4, <1>6, <1>11, <2>1 DEF TypeOK
  <2>3. Unbuffered' /\ Writing' /\ Appending' /\ Reading'
    BY <1>1, <1>2, <1>5, <1>11 DEF Unbuffered, Writing, Appending, Reading, Has, chosen
  <2>4. Pushing'
    BY <1>2, <1>5, <1>9, <1>11 DEF Pushing, Pushes, Has, chosen
  <2>5. Content' = Content
    BY <1>2, <1>5, <1>9, <1>11, <2>3, ContentCasesNext DEF chosen
  <2>6. Intent' = Intent
    BY <1>11, IntentCases, IntentCasesNext
  <2>7. Waiting' = Waiting
    BY <1>2, <1>8, <1>11 DEF Waiting, Has, chosen
  <2> QED BY <1>2, <1>11, <2>2, <2>3, <2>4, <2>5, <2>6, <2>7 DEF Inv, Local!vars
<1>12. CASE Len(s) <= MaxWrite /\ Written
  <2>1. file' = Content
    BY <1>1, <1>2, <1>5, <1>7, <1>12, FirstAll DEF d
  <2>2. CASE op.kind = "move"
    <3>1. Buffered(op.data, offset, op.data)
      BY <1>12, <2>2 DEF Written
    <3>2. PICK n \in Sizes : op.data = Bytes(ops, n) /\ (n > MaxWrite => n % MaxWrite = 0)
      BY <1>5, <2>2
    <3>3. n \in Nat \ {0} /\ ops \in Nat
      BY <1>1, RpcFileAssumption, SMT DEF TypeOK, Sizes
    <3>4. Len(op.data) = n
      BY <3>2, <3>3, BytesAreData
    <3>5. op.data # <<>>
      BY <3>3, <3>4, SMT
    <3>6. Intent = None
      BY <2>2, IntentCases
    <3>7. ops' \in Nat /\ others' \in Nat /\ astray' \in {"no", "read", "write"}
      BY <1>1, <1>2 DEF TypeOK
    <3>8. Inv' /\ Local!Write(op.data)
      BY <1>1, <1>2, <1>3, <1>5, <1>6, <2>1, <3>1, <3>2, <3>4, <3>5, <3>6, <3>7, BufferedStep
         DEF chosen
    <3> QED BY <3>2, <3>8 DEF LocalStep
  <2>3. CASE op.kind = "spill"
    <3>1. /\ op' = Idle /\ todo' = Nothing /\ woff' = woff
          /\ wbuf' = From(wbuf, Floor(Len(wbuf), MaxWrite))
          /\ offset' = offset + Len(op.data)
      BY <1>12, <2>3 DEF Written
    <3>2. Len(wbuf) \in Nat /\ Len(op.data) \in Nat /\ Floor(Len(wbuf), MaxWrite) = Len(wbuf)
      <4>1. Len(wbuf) % MaxWrite = 0
        BY <1>5, <2>3
      <4> QED BY <1>1, <1>3, <4>1, SMT DEF Floor, Data
    <3>3. wbuf' = <<>>
      BY <1>1, <3>1, <3>2, SMT DEF From, Data
    <3>4. offset' \in Nat /\ Nothing \in [at : Nat, data : Data] /\ wbuf' \in Data
      BY <1>1, <3>1, <3>2, <3>3, SMT DEF Nothing, Data
    <3>5. TypeOK'
      BY <1>1, <1>2, <1>6, <3>1, <3>4 DEF TypeOK
    <3>6. Unbuffered'
      BY <3>3 DEF Unbuffered
    <3>7. Inv'
      BY <3>1, <3>5, <3>6, IdleNext
    <3>8. Content' = Content
      BY <1>2, <2>1, <3>3, <3>6, ContentCasesNext DEF Dirty, chosen
    <3>9. Intent = [at |-> offset + Len(op.data), data |-> <<>>]
      BY <2>3, IntentCases
    <3>10. offset + Len(op.data) \in Nat /\ <<>> \in Data
      BY <1>1, <3>2, SMT DEF Data
    <3>11. Intent # None /\ Intent.at = offset + Len(op.data) /\ Intent.data = <<>>
      BY <3>9, <3>10, WriteIsSome
    <3>12. Intent' = None /\ Waiting' = Waiting
      BY <1>2, <1>5, <1>8, <3>1, IntentCasesNext DEF Waiting, Idle, Has, chosen
    <3> DEFINE end == offset + Len(op.data)
               none == <<>>
               rest == [at |-> end + 0, data |-> SubSeq(none, 0 + 1, Len(none))]
    <3>13. none = <<>> /\ Len(none) = 0 /\ SubSeq(none, 1, 0) = none /\ rest.data = <<>>
      BY SMT
    <3>14. Local!Overwrite(Content, end, none) = Content
      BY DEF Local!Overwrite
    <3>15. offset' = rest.at /\ 0 \in 0 .. Len(none)
      BY <3>1, <3>10, SMT
    <3>16. Local!Take(end, none, 0)
      <4> HIDE DEF none, end
      <4>1. Content' = Local!Overwrite(Content, end, SubSeq(none, 1, 0))
        BY <3>8, <3>13, <3>14
      <4>2. rest.data = <<>> /\ Intent' = None /\ offset' = rest.at
        BY <3>12, <3>13, <3>15
      <4> QED BY <1>2, <3>12, <4>1, <4>2 DEF Local!Take
    <3>17. Local!Put
      BY <3>11, <3>15, <3>16 DEF Local!Put
    <3> QED BY <3>7, <3>17 DEF LocalStep
  <2>4. CASE op.kind = "flush"
    <3>1. op' = Idle /\ todo' = Nothing /\ wbuf' = <<>> /\ UNCHANGED <<offset, woff>>
      BY <1>12, <2>4 DEF Written
    <3>2. Nothing \in [at : Nat, data : Data] /\ wbuf' \in Data
      BY <3>1, SMT DEF Nothing, Data
    <3>3. TypeOK'
      BY <1>1, <1>2, <1>6, <3>1, <3>2 DEF TypeOK
    <3>4. Unbuffered'
      BY <3>1 DEF Unbuffered
    <3>5. Inv'
      BY <3>1, <3>3, <3>4, IdleNext
    <3>6. Content' = Content
      BY <1>2, <2>1, <3>1, <3>4, ContentCasesNext DEF Dirty, chosen
    <3>7. Intent = None /\ Intent' = None
      BY <2>4, <3>1, IntentCases, IntentCasesNext DEF Idle
    <3>8. Waiting' = Waiting
      BY <1>2, <1>5, <1>8, <3>1 DEF Waiting, Idle, Has, chosen
    <3> QED BY <1>2, <3>1, <3>5, <3>6, <3>7, <3>8 DEF Local!vars
  <2> QED BY <2>2, <2>3, <2>4
<1> QED BY <1>10, <1>11, <1>12 DEF WriteCall, d

\* A call of a write the buffer fails.
LEMMA PushAstray ==
  ASSUME Inv, WriteCall, op.kind \in {"move", "spill", "flush"}, astray = "write"
  PROVE  Inv' /\ AstrayStep
<1> DEFINE s == todo.data
           d == First(s, MaxWrite)
<1>1. /\ TypeOK /\ Unbuffered /\ MaxWrite \in Nat /\ todo.at \in Nat /\ s \in Data
      /\ file \in Data /\ woff \in Nat /\ wbuf \in Data /\ offset \in Nat
      /\ Len(wbuf) \in Nat
  BY RpcFileAssumption, SMT DEF Inv, TypeOK, Data
<1>2. /\ op # Idle /\ file' = Overwrite(file, todo.at, d)
      /\ UNCHANGED <<chosen, astray, ops, others, roff, rbuf, result>>
  BY DEF WriteCall, InCall
<1>3. op \in Writes /\ op.data \in Data /\ Len(op.data) \in Nat
  BY <1>1, <1>2, SMT DEF TypeOK, Writes, Fetches, Reads, Data
<1>4. d \in Data /\ Len(d) \in Nat /\ todo.at + Len(d) \in Nat /\ From(s, Len(d)) \in Data
  <2>1. d \in Data
    BY <1>1, FirstProperties, Zenon
  <2>2. Len(d) \in Nat
    BY <2>1, LenProperties DEF Data
  <2>3. todo.at + Len(d) \in Nat
    BY <1>1, <2>2, SMT
  <2> QED BY <1>1, <2>1, <2>2, <2>3, FromProperties
<1>5. Has("W_BUFFERED") /\ ~ Has("APPEND") /\ wbuf # <<>>
  BY DEF Inv, Pushing
<1>6. file' \in Data
  BY <1>1, <1>2, <1>4, OverwriteProperties DEF IsOverwrite
<1> HIDE DEF d, s
<1>7. Has("W_BUFFERED")' /\ ~ Has("APPEND")'
  BY <1>2, <1>5 DEF Has, chosen
<1>8. ASSUME op'.kind # "append"
      PROVE  AstrayStep
  <2>1. Waiting' = Waiting
    BY <1>5, <1>7, <1>8 DEF Waiting
  <2> QED BY <1>2, <2>1 DEF AstrayStep
<1>9. Unbuffered'
  BY <1>7 DEF Unbuffered
<1>10. CASE UNCHANGED <<op, woff, wbuf, offset>> /\ todo' \in [at : Nat, data : Data]
  <2>1. TypeOK'
    BY <1>1, <1>2, <1>6, <1>10 DEF TypeOK
  <2>2. Writing' /\ Appending' /\ Reading'
    BY <1>10 DEF Writing, Appending, Reading
  <2>3. Pushing'
    BY <1>2, <1>5, <1>7, <1>10 DEF Pushing
  <2> QED BY <1>8, <1>9, <1>10, <2>1, <2>2, <2>3 DEF Inv
<1>11. CASE op.kind = "move" /\ Written
  <2>1. Buffered(op.data, offset, op.data)
    BY <1>11 DEF Written
  <2>2. CASE op.data = <<>>
    <3>1. wbuf' = <<>> /\ woff' = offset
      BY <2>1, <2>2 DEF Buffered
    <3>2. ~ Len(op.data) > MaxWrite /\ Len(op.data) = 0
      BY <1>1, <2>2, SMT
    <3>3. op' = Idle /\ todo' = Nothing /\ offset' = offset + Len(op.data)
      BY <2>1, <3>2 DEF Buffered
    <3>4. offset' \in Nat /\ Nothing \in [at : Nat, data : Data] /\ wbuf' \in Data
      BY <1>1, <1>3, <3>1, <3>3, SMT DEF Nothing, Data
    <3>5. TypeOK'
      BY <1>1, <1>2, <1>6, <3>1, <3>3, <3>4 DEF TypeOK
    <3> QED BY <1>8, <1>9, <3>3, <3>5, IdleNext DEF Idle
  <2>3. CASE op.data # <<>>
    <3>1. ops' \in Nat
      BY <1>1, <1>2 DEF TypeOK
    <3>2. UNCHANGED <<flags, roff, rbuf, result, others>> /\ astray' = "write"
      BY <1>2 DEF chosen
    <3> QED BY <1>1, <1>3, <1>5, <1>6, <2>1, <2>3, <3>1, <3>2, BufferedAstray
  <2> QED BY <2>2, <2>3
<1>12. CASE op.kind = "spill" /\ Written
  <2> DEFINE full == Floor(Len(wbuf), MaxWrite)
  <2>1. /\ op' = Idle /\ todo' = Nothing /\ woff' = woff
        /\ wbuf' = From(wbuf, full) /\ offset' = offset + Len(op.data)
    BY <1>12 DEF Written
  <2>2. Len(wbuf) % MaxWrite \in 0 .. MaxWrite - 1 /\ Len(wbuf) % MaxWrite <= Len(wbuf)
    BY <1>1, RpcFileAssumption, Remainder
  <2>3. full \in Nat
    BY <1>1, <2>2, RpcFileAssumption, SMT DEF Floor
  <2> HIDE DEF full
  <2>4. wbuf' \in Data
    BY <1>1, <2>1, <2>3, FromProperties
  <2>5. offset' \in Nat /\ Nothing \in [at : Nat, data : Data]
    BY <1>1, <1>3, <2>1, SMT DEF Nothing, Data
  <2>6. TypeOK'
    BY <1>1, <1>2, <1>6, <2>1, <2>4, <2>5 DEF TypeOK
  <2> QED BY <1>8, <1>9, <2>1, <2>6, IdleNext DEF Idle
<1>13. CASE op.kind = "flush" /\ Written
  <2>1. op' = Idle /\ todo' = Nothing /\ wbuf' = <<>> /\ UNCHANGED <<offset, woff>>
    BY <1>13 DEF Written
  <2>2. Nothing \in [at : Nat, data : Data] /\ wbuf' \in Data
    BY <2>1, SMT DEF Nothing, Data
  <2>3. TypeOK'
    BY <1>1, <1>2, <1>6, <2>1, <2>2 DEF TypeOK
  <2> QED BY <1>8, <1>9, <2>1, <2>3, IdleNext DEF Idle
<1>14. \/ UNCHANGED <<op, todo, offset, woff, wbuf>>
       \/ Written
       \/ /\ todo' = [at |-> todo.at + Len(d), data |-> From(s, Len(d))]
          /\ UNCHANGED <<op, offset, woff, wbuf>>
  BY DEF WriteCall, d, s
<1>15. todo \in [at : Nat, data : Data]
  BY <1>1 DEF TypeOK
<1> QED BY <1>4, <1>10, <1>11, <1>12, <1>13, <1>14, <1>15

-----------------------------------------------------------------------------
(* Reading *)

LEMMA HoldsIsSubSeq ==
  ASSUME NEW f \in Data, NEW at \in Nat, NEW d \in Data, Holds(f, at, d)
  PROVE  /\ SubSeq(f, at + 1, at + Len(d)) = d
         /\ d # <<>> => at + Len(d) <= Len(f)
<1> DEFINE s == SubSeq(f, at + 1, at + Len(d))
<1>1. Len(d) \in Nat /\ Len(f) \in Nat
  BY SMT DEF Data
<1>2. \A i \in at + 1 .. at + Len(d) : f[i] \in Cell
  <2> SUFFICES ASSUME NEW i \in at + 1 .. at + Len(d) PROVE f[i] \in Cell
    OBVIOUS
  <2>1. i - at \in 1 .. Len(d) /\ at + (i - at) = i /\ i \in Nat /\ i > 0
    BY <1>1, SMT
  <2>2. i <= Len(f)
    BY <2>1 DEF Holds
  <2>3. i \in 1 .. Len(f)
    BY <1>1, <2>1, <2>2, SMT
  <2> QED BY <2>3, ElementOfSeq DEF Data
<1>3. /\ s \in Data
      /\ Len(s) = IF at + 1 <= at + Len(d) THEN at + Len(d) - (at + 1) + 1 ELSE 0
      /\ \A i \in 1 .. at + Len(d) - (at + 1) + 1 : s[i] = f[at + 1 + i - 1]
  <2>1. at + 1 \in Int /\ at + Len(d) \in Int
    BY <1>1, SMT
  <2> QED BY <1>2, <2>1, SubSeqProperties, SMT DEF Data
<1> HIDE DEF s
<1>4. Len(s) = Len(d)
  BY <1>1, <1>3, SMT
<1>5. \A i \in 1 .. Len(s) : s[i] = d[i]
  <2> SUFFICES ASSUME NEW i \in 1 .. Len(s) PROVE s[i] = d[i]
    OBVIOUS
  <2>1. i \in 1 .. at + Len(d) - (at + 1) + 1 /\ at + 1 + i - 1 = at + i
    BY <1>1, <1>4, SMT
  <2>2. s[i] = f[at + i]
    BY <1>3, <2>1
  <2> QED BY <1>4, <2>2 DEF Holds
<1>6. s = d
  BY <1>3, <1>4, <1>5, SeqEqual, Zenon DEF Data
<1>7. d # <<>> => at + Len(d) <= Len(f)
  <2> SUFFICES ASSUME d # <<>> PROVE at + Len(d) <= Len(f)
    OBVIOUS
  <2>1. Len(d) \in 1 .. Len(d)
    BY SMT DEF Data
  <2> QED BY <2>1 DEF Holds
<1> QED BY <1>6, <1>7 DEF s

\* Data of the file is what is read when it is all that was asked for, or what
\* there is of it.
LEMMA LocalReadStep ==
  ASSUME TypeOK, NEW d \in Data, NEW n \in Nat, Holds(file, offset, d), Len(d) <= n,
         Len(d) = 0 <=> offset >= Len(file),
         result' = d, offset' = offset + Len(d),
         Content = file, Content' = Content, Intent' = Intent, Waiting' = Waiting
  PROVE  Local!Read(n)
<1>1. file \in Data /\ offset \in Nat
  BY DEF TypeOK
<1>2. SubSeq(file, offset + 1, offset + Len(d)) = d /\ (d # <<>> => offset + Len(d) <= Len(file))
  BY <1>1, HoldsIsSubSeq
<1>3. Len(d) \in 0 .. n /\ (Len(d) > 0 => d # <<>>)
  BY SMT DEF Data
<1> QED BY <1>2, <1>3 DEF Local!Read

LEMMA HoldsRest ==
  ASSUME NEW f \in Data, NEW at \in Nat, NEW d \in Data, NEW k \in Nat, Holds(f, at, d)
  PROVE  Holds(f, at + k, From(d, k))
<1>1. /\ Len(From(d, k)) = IF k <= Len(d) THEN Len(d) - k ELSE 0
      /\ \A i \in 1 .. Len(From(d, k)) : From(d, k)[i] = d[k + i]
  BY FromProperties
<1>2. Len(d) \in Nat
  BY SMT DEF Data
<1> SUFFICES ASSUME NEW i \in 1 .. Len(From(d, k))
             PROVE  at + k + i <= Len(f) /\ f[at + k + i] = From(d, k)[i]
  BY DEF Holds
<1>3. k + i \in 1 .. Len(d) /\ at + (k + i) = at + k + i
  BY <1>1, <1>2, SMT
<1>4. at + (k + i) <= Len(f) /\ f[at + (k + i)] = d[k + i]
  BY <1>3 DEF Holds
<1> QED BY <1>1, <1>3, <1>4

LEMMA HoldsFirst ==
  ASSUME NEW f \in Data, NEW at \in Nat, NEW d \in Data, NEW k \in Nat, Holds(f, at, d)
  PROVE  Holds(f, at, First(d, k))
<1>1. /\ Len(First(d, k)) \in 0 .. Len(d)
      /\ \A i \in 1 .. Len(First(d, k)) : First(d, k)[i] = d[i]
  BY FirstProperties
<1>2. Len(d) \in Nat
  BY SMT DEF Data
<1> SUFFICES ASSUME NEW i \in 1 .. Len(First(d, k))
             PROVE  at + i <= Len(f) /\ f[at + i] = First(d, k)[i]
  BY DEF Holds
<1>3. i \in 1 .. Len(d)
  BY <1>1, <1>2, SMT
<1> QED BY <1>1, <1>3 DEF Holds

LEMMA HoldsBoth ==
  ASSUME NEW f \in Data, NEW at \in Nat, NEW d \in Data, NEW e \in Data,
         Holds(f, at, d), Holds(f, at + Len(d), e)
  PROVE  Holds(f, at, d \o e)
<1>1. /\ Len(d \o e) = Len(d) + Len(e)
      /\ \A i \in 1 .. Len(d) + Len(e) : (d \o e)[i] = IF i <= Len(d) THEN d[i] ELSE e[i - Len(d)]
  BY ConcatProperties, Zenon DEF Data
<1> DEFINE de == d \o e
<1> HIDE DEF de
<1>2. Len(d) \in Nat /\ Len(e) \in Nat
  BY SMT DEF Data
<1> SUFFICES ASSUME NEW i \in 1 .. Len(de) PROVE at + i <= Len(f) /\ f[at + i] = de[i]
  BY DEF Holds, de
<1>3. i \in 1 .. Len(d) + Len(e)
  BY <1>1 DEF de
<1>4. CASE i <= Len(d)
  <2>1. i \in 1 .. Len(d)
    BY <1>2, <1>3, <1>4, SMT
  <2>2. de[i] = d[i]
    BY <1>1, <1>3, <1>4 DEF de
  <2> QED BY <2>1, <2>2 DEF Holds
<1>5. CASE ~ i <= Len(d)
  <2>1. i - Len(d) \in 1 .. Len(e) /\ at + Len(d) + (i - Len(d)) = at + i
    BY <1>2, <1>3, <1>5, SMT
  <2>2. de[i] = e[i - Len(d)]
    BY <1>1, <1>3, <1>5 DEF de
  <2>3. /\ at + Len(d) + (i - Len(d)) <= Len(f)
        /\ f[at + Len(d) + (i - Len(d))] = e[i - Len(d)]
    BY <2>1 DEF Holds
  <2> QED BY <2>1, <2>2, <2>3
<1> QED BY <1>4, <1>5

\* What the file has after an offset.
LEMMA HoldsFile ==
  ASSUME NEW f \in Data, NEW at \in Nat
  PROVE  Holds(f, at, From(f, at))
<1>1. Len(f) \in Nat
  BY SMT DEF Data
<1>2. /\ Len(From(f, at)) = IF at <= Len(f) THEN Len(f) - at ELSE 0
      /\ \A i \in 1 .. Len(From(f, at)) : From(f, at)[i] = f[at + i]
  BY FromProperties
<1> SUFFICES ASSUME NEW i \in 1 .. Len(From(f, at))
             PROVE  at + i <= Len(f) /\ f[at + i] = From(f, at)[i]
  BY DEF Holds
<1>3. at + i <= Len(f)
  BY <1>1, <1>2, SMT
<1> QED BY <1>2, <1>3

\* A read is served from the buffer, or calls begin.
LEMMA FetchStep ==
  ASSUME Inv, NEW size \in Sizes \cup {0}, NEW pages \in BOOLEAN, Fetch(size, pages),
         op.kind \in {"idle", "fetch"}, astray' \in {"no", "read"},
         astray' # "read" => ~ Dirty /\ (pages => Holds(file, roff, rbuf)),
         UNCHANGED <<flags, file, buffers, others>>, ops' \in Nat
  PROVE  Inv' /\ (LocalStep \/ AstrayStep \/ UNCHANGED Local!vars)
<1> DEFINE rest == From(rbuf, offset - roff)
           head == IF ~ pages \/ offset < roff \/ offset > roff + Page THEN <<>>
                   ELSE IF size > 0 THEN First(rest, size) ELSE rest
           left == size - Len(head)
           start == IF pages THEN Floor(offset + Len(head), Page) ELSE offset
<1>1. TypeOK /\ size \in Nat /\ Page \in Nat \ {0} /\ (size > 0 => size \in Sizes)
  BY RpcFileAssumption, SMT DEF Inv, TypeOK, Sizes
<1>2. /\ head \in Data /\ (size > 0 => Len(head) <= size)
      /\ astray' # "read" => Holds(file, offset, head)
  <2>1. CASE ~ pages \/ offset < roff \/ offset > roff + Page
    <3>1. head = <<>>
      BY <2>1
    <3> HIDE DEF head
    <3> QED BY <1>1, <3>1, SMT DEF Holds, Data
  <2>2. CASE pages /\ ~ offset < roff
    <3>1. offset - roff \in Nat /\ roff + (offset - roff) = offset
      BY <1>1, <2>2, SMT DEF TypeOK
    <3>2. rest \in Data
      BY <1>1, <3>1, FromProperties DEF TypeOK
    <3>3. astray' # "read" => Holds(file, roff + (offset - roff), rest)
      BY <1>1, <2>2, <3>1, HoldsRest DEF TypeOK
    <3>4. astray' # "read" => Holds(file, offset, rest)
      BY <3>1, <3>3
    <3> HIDE DEF rest
    <3>5. First(rest, size) \in Data /\ Len(First(rest, size)) \in 0 .. size
      BY <1>1, <3>2, FirstProperties, Zenon
    <3>6. astray' # "read" => Holds(file, offset, First(rest, size))
      BY <1>1, <3>2, <3>4, HoldsFirst DEF TypeOK
    <3>7. Len(First(rest, size)) <= size
      BY <1>1, <3>5, SMT
    <3>8. CASE offset > roff + Page
      <4>1. head = <<>>
        BY <3>8
      <4> HIDE DEF head
      <4> QED BY <1>1, <4>1, SMT DEF Holds, Data
    <3>9. CASE ~ offset > roff + Page /\ size > 0
      BY <2>2, <3>5, <3>6, <3>7, <3>9
    <3>10. CASE ~ offset > roff + Page /\ ~ size > 0
      BY <2>2, <3>2, <3>4, <3>10
    <3> QED BY <3>8, <3>9, <3>10
  <2> QED BY <2>1, <2>2
<1>3. Len(head) \in Nat
  BY <1>2, SMT DEF Data
<1>4. astray' # "read" => Content = file
  BY ContentCases DEF Inv
<1>5. Content' = Content
  BY DEF Content, Has, Overwrite, buffers
<1>6. Unbuffered'
  BY DEF Inv, Unbuffered, Has, buffers
<1>7. Intent = None
  BY IntentCases
<1>8. CASE size > 0 /\ left = 0
  <2>1. op' = Idle /\ todo' = Nothing /\ result' = head /\ offset' = offset + Len(head)
    BY <1>8 DEF Fetch
  <2> HIDE DEF head
  <2>2. Len(head) = size
    BY <1>1, <1>3, <1>8, SMT
  <2>3. offset' \in Nat /\ Nothing \in [at : Nat, data : Data]
    BY <1>1, <1>3, <2>1, SMT DEF TypeOK, Nothing, Data
  <2>4. TypeOK'
    BY <1>1, <2>1, <2>3 DEF TypeOK, buffers
  <2>5. Inv'
    BY <1>6, <2>1, <2>4, IdleNext
  <2>6. Intent' = Intent /\ Waiting' = Waiting
    BY <1>7, <2>1, IntentCasesNext DEF Waiting, Idle, Has, buffers
  <2>7. CASE astray' = "read"
    BY <1>5, <2>5, <2>6, <2>7 DEF AstrayStep
  <2>8. CASE astray' # "read"
    <3>1. Len(head) = 0 <=> offset >= Len(file)
      <4>1. head # <<>>
        BY <1>8, <2>2, SMT
      <4>2. offset + Len(head) <= Len(file)
        BY <1>1, <1>2, <2>8, <4>1, HoldsIsSubSeq DEF TypeOK
      <4>3. Len(file) \in Nat
        BY <1>1, SMT DEF TypeOK, Data
      <4> QED BY <1>1, <1>8, <2>2, <4>2, <4>3, SMT DEF TypeOK
    <3>2. Len(head) <= size
      BY <1>1, <2>2, SMT
    <3>3. Local!Read(size)
      BY <1>1, <1>2, <1>4, <1>5, <2>1, <2>6, <2>8, <3>1, <3>2, LocalReadStep
    <3> QED BY <1>1, <1>8, <2>5, <3>3 DEF LocalStep
  <2> QED BY <2>7, <2>8
<1>9. CASE ~ (size > 0 /\ left = 0)
  <2> DEFINE more == IF size = 0 THEN -1 ELSE IF pages THEN Ceil(left, Page) ELSE left
  <2>1. /\ op' = [kind |-> "read", size |-> size, pages |-> pages, head |-> head,
                  start |-> start, left |-> more]
        /\ todo' = [at |-> start, data |-> <<>>] /\ UNCHANGED <<offset, result>>
    BY <1>9 DEF Fetch
  <2> HIDE DEF head
  <2>2. start \in Nat
    <3>1. offset + Len(head) \in Nat
      BY <1>1, <1>3, SMT DEF TypeOK
    <3>2. (offset + Len(head)) % Page \in 0 .. Page - 1 /\ (offset + Len(head)) % Page <= offset + Len(head)
      BY <1>1, <3>1, Remainder
    <3> QED BY <1>1, <3>1, <3>2, SMT DEF Floor, TypeOK
  <2>3. size > 0 => left \in Nat \ {0} /\ Len(head) < size
    BY <1>1, <1>2, <1>3, <1>9, SMT
  <2>4. size > 0 => Ceil(left, Page) \in Nat /\ Ceil(left, Page) >= Page
    <3> SUFFICES ASSUME size > 0 PROVE Ceil(left, Page) \in Nat /\ Ceil(left, Page) >= Page
      OBVIOUS
    <3>1. left \in Nat
      BY <2>3
    <3> HIDE DEF left
    <3>2. left % Page \in 0 .. Page - 1 /\ left % Page <= left
      BY <1>1, <3>1, Remainder
    <3> QED BY <1>1, <3>1, <3>2, SMT DEF Ceil
  <2> HIDE DEF start, left
  <2>5. more \in Int /\ (size = 0 => more = -1)
        /\ (size > 0 => more > 0 /\ (pages => more >= Page))
    BY <1>1, <2>3, <2>4, SMT
  <2> HIDE DEF more
  <2>6. op' \in Reads
    BY <1>2, <2>1, <2>2, <2>5 DEF Reads
  <2>7. /\ op'.kind = "read" /\ op'.size = size /\ op'.pages = pages /\ op'.head = head
        /\ op'.start = start /\ op'.left = more
    BY <2>1
  <2>8. todo'.at = start /\ todo'.data = <<>> /\ Len(<<>>) = 0 /\ <<>> \in Data
    BY <2>1, SMT DEF Data
  <2>9. TypeOK'
    BY <1>1, <2>1, <2>2, <2>6, <2>8 DEF TypeOK, buffers
  <2>10. Writing' /\ Pushing' /\ Appending'
    BY <2>7 DEF Writing, Pushing, Appending
  <2>11. Reading'
    <3>1. astray' # "read" => ~ Dirty'
      BY DEF Dirty, Has, buffers
    <3>2. astray' # "read" => Holds(file', offset', op'.head)
      BY <1>2, <2>1, <2>7
    <3>3. Holds(file', op'.start, todo'.data)
      BY <2>8, SMT DEF Holds
    <3>4. todo'.at = op'.start + Len(todo'.data)
      BY <2>2, <2>7, <2>8, SMT
    <3>5. op'.start = IF op'.pages THEN Floor(offset' + Len(op'.head), Page) ELSE offset'
      BY <2>1, <2>7 DEF start
    <3>6. ~ op'.pages => op'.head = <<>>
      BY <2>7 DEF head
    <3>7. IF op'.size = 0 THEN op'.left = -1
          ELSE /\ op'.left > 0 /\ Len(op'.head) < op'.size
               /\ op'.pages => Len(todo'.data) + op'.left >= Page
      <4>1. size = 0 \/ size > 0
        BY <1>1, SMT
      <4>2. Len(todo'.data) + more = more
        BY <2>5, <2>8, SMT
      <4> QED BY <2>3, <2>5, <2>7, <4>1, <4>2
    <3> QED BY <3>1, <3>2, <3>3, <3>4, <3>5, <3>6, <3>7 DEF Reading, Sighted
  <2>12. Intent' = Intent /\ Waiting' = Waiting
    BY <1>7, <2>7, IntentCasesNext DEF Waiting, Has, buffers
  <2> QED BY <1>5, <1>6, <2>1, <2>9, <2>10, <2>11, <2>12 DEF Inv, Local!vars
<1> QED BY <1>8, <1>9

LEMMA ReadStep ==
  ASSUME Inv, NEW size \in Sizes \cup {0}, NEW pages \in BOOLEAN, Read(size, pages)
  PROVE  Inv' /\ (LocalStep \/ AstrayStep \/ UNCHANGED Local!vars)
<1>1. op = Idle /\ ops' = ops + 1 /\ UNCHANGED <<chosen, file, faults, others, buffers>>
  BY DEF Read, Begin
<1>2. TypeOK /\ Unbuffered /\ ops' \in Nat
  BY <1>1, SMT DEF Inv, TypeOK
<1>3. /\ astray' \in {"no", "read"}
      /\ astray' # "read" => ~ Dirty /\ (pages => ~ Stale)
  BY DEF Read
<1>4. astray' # "read" => (pages => Holds(file, roff, rbuf))
  <2> SUFFICES ASSUME astray' # "read", pages, NEW i \in 1 .. Len(rbuf)
               PROVE  roff + i <= Len(file) /\ file[roff + i] = rbuf[i]
    BY DEF Holds
  <2>1. DOMAIN rbuf = 1 .. Len(rbuf)
    BY <1>2, LenProperties DEF TypeOK, Data
  <2>2. ~ roff + i > Len(file) /\ file[roff + i] = rbuf[i]
    BY <1>3, <2>1 DEF Stale
  <2> QED BY <1>2, <2>2, SMT DEF TypeOK, Data
<1>5. CASE Fetch(size, pages)
  <2>1. op.kind \in {"idle", "fetch"}
    BY <1>1 DEF Idle
  <2> QED BY <1>1, <1>2, <1>3, <1>4, <1>5, <2>1, FetchStep DEF chosen
<1>6. CASE /\ pages /\ Has("W_BUFFERED") /\ Has("APPEND")
           /\ op' = [kind |-> "appendread", size |-> size]
           /\ todo' = [at |-> 0, data |-> wbuf]
           /\ UNCHANGED <<offset, result>>
  <2>1. op' \in Fetches /\ op'.kind = "appendread"
    BY <1>6 DEF Fetches
  <2>2. todo' \in [at : Nat, data : Data]
    BY <1>2, <1>6, SMT DEF TypeOK
  <2>3. TypeOK'
    BY <1>1, <1>2, <1>3, <1>6, <2>1, <2>2 DEF TypeOK, buffers
  <2>4. Unbuffered' /\ Writing' /\ Pushing' /\ Reading'
    BY <1>1, <1>2, <2>1 DEF Unbuffered, Writing, Pushing, Reading, Has, chosen, buffers
  <2>5. Appending'
    BY <1>1, <1>3, <1>4, <1>6, <2>1 DEF Appending, Has, chosen, buffers
  <2>6. Content' = Content
    BY <1>1 DEF Content, Has, Overwrite, chosen, buffers
  <2>7. Intent' = Intent /\ Waiting' = Waiting
    BY <1>1, <1>6, <2>1, IntentCases, IntentCasesNext DEF Waiting, Idle, Has, chosen, buffers
  <2> QED BY <1>6, <2>3, <2>4, <2>5, <2>6, <2>7 DEF Inv, Local!vars
<1> QED BY <1>5, <1>6 DEF Read

LEMMA ReadOnStep ==
  ASSUME Inv, ReadOn
  PROVE  Inv' /\ (LocalStep \/ AstrayStep \/ UNCHANGED Local!vars)
<1>1. /\ op.kind = "fetch" /\ op # Idle /\ Fetch(op.size, TRUE)
      /\ UNCHANGED <<chosen, astray, ops, others, file, buffers>>
  BY DEF ReadOn, InCall
<1>2. op \in Fetches
  BY <1>1 DEF Inv, TypeOK, Writes, Reads
<1>3. op.size \in Sizes \cup {0}
  BY <1>2 DEF Fetches
<1>4. Has("APPEND") /\ (astray # "read" => Holds(file, roff, rbuf))
  BY <1>1 DEF Inv, Appending
<1>5. ~ Dirty
  BY <1>4 DEF Dirty
<1>6. ops' \in Nat /\ astray' \in {"no", "read"}
  BY <1>1 DEF Inv, TypeOK, Appending
<1> QED BY <1>1, <1>3, <1>4, <1>5, <1>6, FetchStep DEF chosen

\* A call of a read goes on where the last one ended.
LEMMA ReadMore ==
  ASSUME Inv, op.kind = "read", NEW got \in Data, Holds(file, todo.at, got), got # <<>>,
         op.left > 0 => Len(got) < op.left,
         todo' = [at |-> todo.at + Len(got), data |-> todo.data \o got],
         op' = IF op.left > 0 THEN [op EXCEPT !.left = @ - Len(got)] ELSE op,
         UNCHANGED <<chosen, astray, ops, others, file, offset, result, buffers>>
  PROVE  Inv' /\ UNCHANGED Local!vars
<1> DEFINE data == todo.data \o got
<1>1. TypeOK /\ Reading
  BY DEF Inv
<1>2. op \in Reads
  BY <1>1 DEF TypeOK, Idle, Writes, Fetches
<1>3. /\ op.size \in Sizes \cup {0} /\ op.pages \in BOOLEAN /\ op.head \in Data
      /\ op.start \in Nat /\ op.left \in Int
  BY <1>2 DEF Reads
<1>4. todo.at \in Nat /\ todo.data \in Data /\ file \in Data
  BY <1>1 DEF TypeOK
<1>5. data \in Data /\ Len(data) = Len(todo.data) + Len(got)
  BY <1>4, ConcatProperties, Zenon DEF Data
<1>6. Len(got) \in Nat /\ Len(todo.data) \in Nat /\ Page \in Nat
  BY <1>4, RpcFileAssumption, SMT DEF Data
<1>7. /\ todo.at = op.start + Len(todo.data)
      /\ astray # "read" => Holds(file, op.start, todo.data)
  BY <1>1 DEF Reading, Sighted
<1>8. astray # "read" => Holds(file, op.start, data)
  BY <1>3, <1>4, <1>7, HoldsBoth
<1> HIDE DEF data
<1>9. todo'.at = op.start + Len(data) /\ todo'.data = data /\ todo'.at \in Nat
  <2>1. todo.at = op.start + Len(todo.data)
    BY <1>7
  <2> QED BY <1>3, <1>5, <1>6, <2>1, SMT DEF data
<1>10. /\ op' \in Reads /\ op'.kind = "read" /\ op'.size = op.size /\ op'.pages = op.pages
       /\ op'.head = op.head /\ op'.start = op.start
       /\ op'.left = IF op.left > 0 THEN op.left - Len(got) ELSE op.left
  <2>1. CASE op.left > 0
    <3>1. op.left - Len(got) \in Int
      BY <1>3, <1>6, SMT
    <3>2. op' = [op EXCEPT !.left = op.left - Len(got)]
      BY <2>1
    <3> QED BY <1>2, <2>1, <3>1, <3>2 DEF Reads
  <2>2. CASE ~ op.left > 0
    BY <1>2, <2>2
  <2> QED BY <2>1, <2>2
<1>11. todo' \in [at : Nat, data : Data]
  BY <1>5, <1>9, SMT DEF data
<1>12. TypeOK'
  BY <1>1, <1>10, <1>11 DEF TypeOK, buffers
<1>13. Unbuffered'
  BY DEF Inv, Unbuffered, Has, buffers, chosen
<1>14. Writing' /\ Pushing' /\ Appending'
  BY <1>10 DEF Writing, Pushing, Appending
<1>15. Reading'
  <2>1. astray # "read" => ~ Dirty'
    BY <1>1 DEF Reading, Sighted, Dirty, Has, buffers, chosen
  <2>2. /\ op.start = IF op.pages THEN Floor(offset + Len(op.head), Page) ELSE offset
        /\ ~ op.pages => op.head = <<>>
        /\ astray # "read" => Holds(file, offset, op.head)
    BY <1>1 DEF Reading, Sighted
  <2>3. IF op'.size = 0 THEN op'.left = -1
        ELSE /\ op'.left > 0 /\ Len(op'.head) < op'.size
             /\ op'.pages => Len(todo'.data) + op'.left >= Page
    <3>1. CASE op.size = 0
      <4>1. op.left = -1
        BY <1>1, <3>1 DEF Reading
      <4> QED BY <1>10, <3>1, <4>1
    <3>2. CASE op.size # 0
      <4>1. op.left > 0 /\ Len(op.head) < op.size /\ (op.pages => Len(todo.data) + op.left >= Page)
        BY <1>1, <3>2 DEF Reading
      <4>2. op.left - Len(got) > 0 /\ Len(data) + (op.left - Len(got)) = Len(todo.data) + op.left
        <5> DEFINE g == Len(got)
                   t == Len(todo.data)
                   n == op.left
        <5>1. g \in Nat /\ t \in Nat /\ n \in Int /\ g < n /\ Len(data) = t + g
          BY <1>3, <1>5, <1>6, <4>1
        <5> HIDE DEF g, t, n
        <5>2. n - g > 0 /\ (t + g) + (n - g) = t + n
          BY <5>1, SMT
        <5> QED BY <5>1, <5>2 DEF g, t, n
      <4>3. /\ op'.left = op.left - Len(got) /\ op'.size = op.size /\ op'.head = op.head
            /\ op'.pages = op.pages /\ todo'.data = data
        BY <1>9, <1>10, <4>1, Zenon
      <4>4. op'.pages => Len(todo'.data) + op'.left >= Page
        BY <4>1, <4>2, <4>3
      <4> QED BY <3>2, <4>1, <4>2, <4>3, <4>4
    <3> QED BY <3>1, <3>2
  <2> QED BY <1>8, <1>9, <1>10, <2>1, <2>2, <2>3 DEF Reading, Sighted
<1>16. Content' = Content
  BY DEF Content, Has, Overwrite, buffers, chosen
<1>17. Intent' = Intent /\ Waiting' = Waiting
  BY <1>10, IntentCases, IntentCasesNext DEF Waiting, Has, buffers, chosen
<1> QED BY <1>12, <1>13, <1>14, <1>15, <1>16, <1>17 DEF Inv, Local!vars

\* The last call of a read returns what was asked for.
LEMMA ReadLast ==
  ASSUME Inv, op.kind = "read", NEW got \in Data, Holds(file, todo.at, got),
         got = <<>> => Len(file) <= todo.at, got = <<>> \/ op.left = Len(got),
         ReadDone(todo.data \o got), UNCHANGED <<chosen, astray, ops, others, file, woff, wbuf>>
  PROVE  Inv' /\ (LocalStep \/ AstrayStep)
<1> DEFINE data == todo.data \o got
           skip == offset + Len(op.head) - op.start
           all == From(data, skip)
           r == op.head \o Asked(data)
<1>1. TypeOK /\ Reading
  BY DEF Inv
<1>2. op \in Reads
  BY <1>1 DEF TypeOK, Idle, Writes, Fetches
<1>3. /\ op.size \in Sizes \cup {0} /\ op.pages \in BOOLEAN /\ op.head \in Data
      /\ op.start \in Nat /\ op.left \in Int
  BY <1>2 DEF Reads
<1>4. todo.at \in Nat /\ todo.data \in Data /\ file \in Data /\ offset \in Nat
  BY <1>1 DEF TypeOK
<1>5. data \in Data /\ Len(data) = Len(todo.data) + Len(got)
  BY <1>4, ConcatProperties, Zenon DEF Data
<1>6. /\ Len(got) \in Nat /\ Len(todo.data) \in Nat /\ Len(op.head) \in Nat /\ Len(file) \in Nat
      /\ Page \in Nat \ {0} /\ op.size \in Nat /\ (op.size # 0 => op.size \in Sizes)
      /\ (got = <<>> <=> Len(got) = 0)
  <2>1. ASSUME NEW s \in Data PROVE Len(s) \in Nat /\ (s = <<>> <=> Len(s) = 0)
    BY SMT DEF Data
  <2>2. MaxData \in Nat /\ Page \in Nat \ {0}
    BY RpcFileAssumption
  <2>3. op.size \in Nat /\ (op.size # 0 => op.size \in Sizes)
    BY <1>3, <2>2, SMT DEF Sizes
  <2> QED BY <1>3, <1>4, <2>1, <2>2, <2>3
<1>7. /\ todo.at = op.start + Len(todo.data)
      /\ astray # "read" => /\ Holds(file, op.start, todo.data) /\ Holds(file, offset, op.head)
                            /\ ~ Dirty
      /\ op.start = IF op.pages THEN Floor(offset + Len(op.head), Page) ELSE offset
      /\ (~ op.pages => op.head = <<>>)
      /\ (op.size # 0 => op.left > 0 /\ Len(op.head) < op.size
                         /\ (op.pages => Len(todo.data) + op.left >= Page))
      /\ (op.size = 0 => op.left = -1)
  BY <1>1 DEF Reading, Sighted
<1>8. astray # "read" => Holds(file, op.start, data)
  BY <1>3, <1>4, <1>7, HoldsBoth
<1> HIDE DEF data
<1>9. skip \in Nat /\ (op.pages => skip < Page) /\ (~ op.pages => skip = 0)
  <2>1. CASE op.pages
    <3> DEFINE x == offset + Len(op.head)
    <3>1. skip = x - op.start
      BY <1>3, <1>4, <1>6, SMT
    <3>2. x \in Nat
      BY <1>4, <1>6, SMT
    <3> HIDE DEF x
    <3>3. x % Page \in 0 .. Page - 1 /\ x % Page <= x
      BY <1>6, <3>2, Remainder
    <3>4. x - (x - (x % Page)) = x % Page
      <4>1. ASSUME NEW m \in Nat PROVE x - (x - m) = m
        BY <3>2, SMT
      <4>2. x % Page \in Nat
        BY <1>6, <3>3, SMT
      <4> QED BY <4>1, <4>2
    <3>5. skip = x % Page
      <4>1. op.start = Floor(x, Page)
        BY <1>7, <2>1, Zenon DEF x
      <4>2. Floor(x, Page) = x - (x % Page)
        BY DEF Floor
      <4> HIDE DEF skip
      <4>3. op.start = x - (x % Page)
        BY <4>1, <4>2, Zenon
      <4> QED BY <3>1, <3>4, <4>3
    <3> QED BY <1>6, <2>1, <3>3, <3>5, SMT
  <2>2. CASE ~ op.pages
    <3>1. Len(op.head) = 0 /\ op.start = offset
      BY <1>7, <2>2, SMT
    <3> QED BY <1>4, <2>2, <3>1, SMT
  <2> QED BY <2>1, <2>2
<1>10. op.start + skip = offset + Len(op.head)
  BY <1>3, <1>4, <1>6, SMT
<1> HIDE DEF skip
<1>11. /\ all \in Data /\ Len(all) = IF skip <= Len(data) THEN Len(data) - skip ELSE 0
  BY <1>5, <1>9, FromProperties
<1>12. astray # "read" => Holds(file, offset + Len(op.head), all)
  BY <1>3, <1>4, <1>5, <1>8, <1>9, <1>10, HoldsRest
<1>13. Asked(data) = IF op.size > 0 THEN First(all, op.size - Len(op.head)) ELSE all
  BY DEF Asked, skip
<1> HIDE DEF all
<1> DEFINE part == Asked(data)
<1>14. /\ part \in Data /\ (astray # "read" => Holds(file, offset + Len(op.head), part))
       /\ op.size > 0 => /\ Len(part) <= op.size - Len(op.head)
                         /\ Len(part) = 0 => Len(all) = 0
       /\ op.size = 0 => part = all
  <2>1. CASE op.size > 0
    <3> DEFINE k == op.size - Len(op.head)
    <3>1. k \in Nat \ {0}
      BY <1>6, <1>7, <2>1, SMT
    <3>2. part = First(all, k)
      BY <1>13, <2>1
    <3> HIDE DEF k, part
    <3>3. part \in Data /\ Len(part) = Smaller(k, Len(all)) /\ Len(part) \in 0 .. k
      BY <1>11, <3>1, <3>2, FirstProperties, Zenon
    <3>4. offset + Len(op.head) \in Nat
      BY <1>4, <1>6, SMT
    <3>5. astray # "read" => Holds(file, offset + Len(op.head), part)
      BY <1>4, <1>11, <1>12, <3>1, <3>2, <3>4, HoldsFirst
    <3>6. Len(part) <= k /\ (Len(part) = 0 => Len(all) = 0)
      BY <1>11, <3>1, <3>3, SMT DEF Smaller
    <3> QED BY <2>1, <3>3, <3>5, <3>6 DEF k
  <2>2. CASE ~ op.size > 0
    BY <1>11, <1>12, <1>13, <2>2, <1>6, SMT
  <2> QED BY <2>1, <2>2
<1> HIDE DEF part
<1>15. r \in Data /\ Len(r) = Len(op.head) + Len(part)
  BY <1>3, <1>14, ConcatProperties, Zenon DEF Data, part
<1>16. astray # "read" => Holds(file, offset, r)
  BY <1>3, <1>4, <1>7, <1>14, HoldsBoth DEF part
<1> HIDE DEF r
<1>17. Len(part) \in Nat /\ (r # <<>> <=> Len(r) > 0)
  BY <1>14, <1>15, SMT DEF Data
<1>18. astray # "read" => (r # <<>> => offset + Len(r) <= Len(file))
  BY <1>4, <1>15, <1>16, HoldsIsSubSeq
<1>19. astray # "read" => (Len(r) = 0 <=> offset >= Len(file))
  <2>1. ASSUME astray # "read", offset >= Len(file) PROVE Len(r) = 0
    BY <1>4, <1>6, <1>15, <1>17, <1>18, <2>1, SMT
  <2>2. ASSUME Len(r) = 0 PROVE offset >= Len(file)
    <3>1. Len(op.head) = 0 /\ Len(part) = 0
      BY <1>6, <1>15, <1>17, <2>2, SMT
    <3>2. Len(all) = 0
      BY <1>6, <1>14, <3>1, SMT
    <3>3. Len(data) <= skip /\ op.start + skip = offset
      BY <1>4, <1>5, <1>6, <1>9, <1>10, <1>11, <3>1, <3>2, SMT
    <3>4. CASE got = <<>>
      <4>1. Len(data) = Len(todo.data) /\ Len(file) <= op.start + Len(todo.data)
        BY <1>5, <1>6, <1>7, <3>4, SMT
      <4> QED BY <1>3, <1>4, <1>6, <1>9, <3>3, <4>1, SMT
    <3>5. CASE got # <<>>
      <4>1. op.left = Len(got) /\ Len(got) > 0
        BY <1>6, <3>5, SMT
      <4>2. op.size # 0
        BY <1>7, <4>1, SMT
      <4>3. CASE op.pages
        BY <1>5, <1>6, <1>7, <1>9, <3>3, <4>1, <4>2, <4>3, SMT
      <4>4. CASE ~ op.pages
        BY <1>5, <1>6, <1>9, <3>3, <4>1, <4>4, SMT
      <4> QED BY <4>3, <4>4
    <3> QED BY <3>4, <3>5
  <2> QED BY <2>1, <2>2
<1>20. /\ result' = r /\ offset' = offset + Len(r) /\ op' = Idle /\ todo' = Nothing
  BY DEF ReadDone, r, data
<1>21. roff' \in Nat /\ rbuf' \in Data
  <2>1. CASE op.pages
    <3> DEFINE full == Floor(Len(data), Page)
    <3>1. rbuf' = From(data, full) /\ roff' = op.start + full
      BY <2>1 DEF ReadDone, data
    <3>2. Len(data) \in Nat
      BY <1>5, <1>6, SMT
    <3>3. Len(data) % Page \in 0 .. Page - 1 /\ Len(data) % Page <= Len(data)
      BY <1>6, <3>2, Remainder
    <3>4. full \in Nat
      BY <1>6, <3>2, <3>3, SMT DEF Floor
    <3> HIDE DEF full
    <3>5. From(data, full) \in Data
      BY <1>5, <3>4, FromProperties
    <3> QED BY <1>3, <3>1, <3>4, <3>5, SMT
  <2>2. CASE ~ op.pages
    BY <1>1, <2>2 DEF ReadDone, TypeOK
  <2> QED BY <2>1, <2>2
<1>22. offset' \in Nat /\ Nothing \in [at : Nat, data : Data]
  BY <1>4, <1>6, <1>15, <1>17, <1>20, SMT DEF Nothing, Data
<1>23. TypeOK'
  BY <1>1, <1>20, <1>21, <1>22 DEF TypeOK
<1>24. Unbuffered'
  BY DEF Inv, Unbuffered, Has, chosen
<1>25. Inv'
  BY <1>20, <1>23, <1>24, IdleNext
<1>26. (astray # "read" => Content = file) /\ Content' = Content
  <2>1. astray # "read" => Content = file
    BY <1>7, ContentCases DEF Inv
  <2>2. Content' = Content
    BY DEF Content, Has, Overwrite, chosen
  <2> QED BY <2>1, <2>2
<1>27. Intent' = Intent /\ Waiting' = Waiting
  BY <1>20, IntentCases, IntentCasesNext DEF Waiting, Idle, Has, chosen
<1>28. CASE astray # "read" /\ op.size # 0
  <2>1. Len(r) <= op.size
    BY <1>6, <1>14, <1>15, <1>17, <1>28, SMT
  <2>2. Local!Read(op.size)
    BY <1>1, <1>6, <1>15, <1>16, <1>19, <1>20, <1>26, <1>27, <1>28, <2>1, LocalReadStep
  <2> QED BY <1>6, <1>25, <1>28, <2>2 DEF LocalStep
<1>29. CASE astray # "read" /\ op.size = 0
  <2>1. Len(r) <= Len(file)
    BY <1>4, <1>6, <1>15, <1>17, <1>18, <1>29, SMT
  <2>2. Local!Read(Len(file))
    BY <1>1, <1>6, <1>15, <1>16, <1>19, <1>20, <1>26, <1>27, <1>29, <2>1, LocalReadStep
  <2> QED BY <1>25, <1>29, <2>2 DEF LocalStep
<1>30. CASE astray = "read"
  BY <1>25, <1>26, <1>27, <1>30 DEF AstrayStep
<1> QED BY <1>28, <1>29, <1>30

LEMMA ReadCallStep ==
  ASSUME Inv, ReadCall
  PROVE  Inv' /\ (LocalStep \/ AstrayStep \/ UNCHANGED Local!vars)
<1> DEFINE count == IF 0 < op.left /\ op.left < Page THEN op.left ELSE Page
           rest == From(file, todo.at)
           got == First(rest, count)
<1>1. /\ op # Idle /\ op.kind = "read"
      /\ UNCHANGED <<chosen, astray, ops, others, file, woff, wbuf>>
  BY DEF ReadCall, InCall
<1>2. TypeOK /\ Page \in Nat \ {0}
  BY RpcFileAssumption DEF Inv
<1>3. op \in Reads
  BY <1>1, <1>2 DEF TypeOK, Idle, Writes, Fetches
<1>4. op.left \in Int /\ count \in Nat \ {0} /\ (op.left > 0 => count <= op.left)
  BY <1>2, <1>3, SMT DEF Reads
<1>5. file \in Data /\ todo.at \in Nat
  BY <1>2 DEF TypeOK
<1>6. /\ rest \in Data /\ Holds(file, todo.at, rest)
      /\ Len(rest) = IF todo.at <= Len(file) THEN Len(file) - todo.at ELSE 0
  BY <1>5, FromProperties, HoldsFile
<1> HIDE DEF count, rest
<1>7. /\ got \in Data /\ Len(got) \in 0 .. count
      /\ Len(got) = Smaller(count, Len(rest))
  BY <1>4, <1>6, FirstProperties, Zenon
<1>8. Holds(file, todo.at, got)
  BY <1>4, <1>5, <1>6, HoldsFirst
<1> HIDE DEF got
<1>9. got = <<>> => Len(file) <= todo.at
  <2> SUFFICES ASSUME got = <<>> PROVE Len(file) <= todo.at
    OBVIOUS
  <2>1. Len(got) = 0 /\ Len(rest) \in Nat /\ Len(file) \in Nat
    BY <1>5, <1>6, SMT DEF Data
  <2>2. Len(rest) = 0
    BY <1>4, <1>7, <2>1, SMT DEF Smaller
  <2> QED BY <1>5, <1>6, <2>1, <2>2, SMT
<1>10. CASE got = <<>> \/ op.left = Len(got)
  <2>1. ReadDone(todo.data \o got)
    BY <1>10 DEF ReadCall, got, rest, count
  <2> QED BY <1>1, <1>7, <1>8, <1>9, <1>10, <2>1, ReadLast
<1>11. CASE ~ (got = <<>> \/ op.left = Len(got))
  <2>1. /\ todo' = [at |-> todo.at + Len(got), data |-> todo.data \o got]
        /\ op' = IF op.left > 0 THEN [op EXCEPT !.left = @ - Len(got)] ELSE op
        /\ UNCHANGED <<offset, result, rbuf, roff>>
    BY <1>11 DEF ReadCall, got, rest, count
  <2>2. op.left > 0 => Len(got) < op.left
    BY <1>4, <1>7, <1>11, SMT
  <2>3. UNCHANGED <<chosen, astray, ops, others, file, offset, result, buffers>>
    BY <1>1, <2>1 DEF buffers
  <2>4. got # <<>>
    BY <1>11
  <2> QED BY <1>1, <1>7, <1>8, <2>1, <2>2, <2>3, <2>4, ReadMore
<1> QED BY <1>10, <1>11

-----------------------------------------------------------------------------
(* The refinement *)

\* A call of _page_write does either of two things, by the operation it is of.
LEMMA WriteCallStep ==
  ASSUME Inv, WriteCall
  PROVE  Inv' /\ (LocalStep \/ AstrayStep \/ UNCHANGED Local!vars)
<1>1. op.kind = "write" \/ op.kind \in {"move", "spill", "flush"}
  BY DEF WriteCall
<1>2. CASE op.kind = "write"
  BY <1>2, PutStep
<1>3. CASE op.kind \in {"move", "spill", "flush"}
  BY <1>3, PushStep, PushAstray
<1> QED BY <1>1, <1>2, <1>3

LEMMA StutterStep ==
  ASSUME Inv, UNCHANGED vars
  PROVE  Inv' /\ UNCHANGED Local!vars
<1>1. UNCHANGED <<flags, file, offset, roff, rbuf, woff, wbuf, op, todo, result, astray, ops, others>>
  BY DEF vars, chosen, buffers
<1>2. Inv'
  <2>1. TypeOK' /\ Unbuffered' /\ Writing'
    BY <1>1 DEF Inv, TypeOK, Unbuffered, Writing, Has
  <2>2. Pushing' /\ Appending'
    BY <1>1 DEF Inv, Pushing, Pushes, Appending, Has, Holds
  <2>3. Reading'
    BY <1>1 DEF Inv, Reading, Sighted, Dirty, Has, Holds
  <2> QED BY <2>1, <2>2, <2>3 DEF Inv
<1>3. UNCHANGED <<Content, Intent, Waiting>>
  BY <1>1 DEF Content, Intent, Waiting, Has
<1> QED BY <1>1, <1>2, <1>3 DEF Local!vars

\* Before the first operation the file is one with nothing under way.
LEMMA InitStep ==
  ASSUME Init
  PROVE  Inv /\ Local!Init
<1>1. PICK n \in 0 .. MaxLength : file = Bytes(0, n)
  BY DEF Init
<1>2. /\ offset = 0 /\ roff = 0 /\ rbuf = <<>> /\ woff = 0 /\ wbuf = <<>>
      /\ op = Idle /\ op.kind = "idle" /\ todo = Nothing /\ result = <<>>
      /\ ops = 0 /\ others = 0 /\ astray = "no"
  BY DEF Init, Idle
<1>3. n \in Nat /\ MaxLength \in Nat /\ MaxData \in Nat /\ MaxOps \in Nat /\ MaxOthers \in Nat
  BY RpcFileAssumption
<1>4. file \in Data
  BY <1>1, <1>3, BytesAreData
<1>5. <<>> \in Data
  BY DEF Data
<1>6. TypeOK
  BY <1>2, <1>4, <1>5 DEF TypeOK, Nothing
<1>7. Inv
  BY <1>2, <1>6 DEF Inv, Unbuffered, Writing, Pushing, Appending, Reading
<1>8. file \in Seq(Byte)
  <2>1. ASSUME NEW i \in 1 .. n
        PROVE  <<0, i>> \in Byte
    <3>1. 0 \in 0 .. MaxOps + MaxOthers /\ i \in 1 .. MaxLength + MaxData
      BY <1>3, SMT
    <3> QED BY <3>1 DEF Byte
  <2>2. Bytes(0, n) \in [1 .. n -> Byte]
    BY <2>1 DEF Bytes
  <2> QED BY <1>1, <1>3, <2>2, IsASeq
<1>9. ~ Dirty /\ Unbuffered
  BY <1>2 DEF Dirty, Unbuffered
<1>10. Content = file /\ Intent = None /\ Waiting = <<>>
  BY <1>2, <1>9, ContentCases, IntentCases DEF Waiting
<1> QED BY <1>2, <1>7, <1>8, <1>10 DEF Local!Init

LEMMA NextStep ==
  ASSUME Inv, [Next]_vars
  PROVE  Inv' /\ (LocalStep \/ AstrayStep \/ UNCHANGED Local!vars)
<1>1. ASSUME NEW n \in Sizes, Write(Bytes(ops + 1, n))
      PROVE  Inv' /\ (LocalStep \/ AstrayStep \/ UNCHANGED Local!vars)
  BY <1>1, WriteStep
<1>2. CASE Flush
  BY <1>2, FlushStep
<1>3. ASSUME NEW n \in Sizes \cup {0}, NEW pages \in BOOLEAN, Read(n, pages)
      PROVE  Inv' /\ (LocalStep \/ AstrayStep \/ UNCHANGED Local!vars)
  BY <1>3, ReadStep
<1>4. CASE WriteCall
  BY <1>4, WriteCallStep
<1>5. CASE AppendCall
  BY <1>5, AppendCallStep
<1>6. CASE ReadOn
  BY <1>6, ReadOnStep
<1>7. CASE ReadCall
  BY <1>7, ReadCallStep
<1>8. CASE CallFails
  BY <1>8, CallFailsStep
<1>9. ASSUME NEW n \in 0 .. MaxLength, Seek(n)
      PROVE  Inv' /\ LocalStep
  BY <1>9, SeekStep
<1>10. ASSUME NEW n \in 0 .. MaxLength, Truncate(n)
       PROVE  Inv' /\ (LocalStep \/ AstrayStep)
  BY <1>10, TruncateStep
<1>11. CASE Other
  BY <1>11, OtherStep
<1>12. CASE UNCHANGED vars
  BY <1>12, StutterStep
<1> QED
  BY <1>1, <1>2, <1>3, <1>4, <1>5, <1>6, <1>7, <1>8, <1>9, <1>10, <1>11, <1>12 DEF Next

\* In every reachable state what an operation still has to do fits what the file
\* and the buffers have: what is left to write makes of the file what the buffer
\* does, and what a read has collected is in the file where the read is.
THEOREM InvHolds == Spec => []Inv
<1>1. Init => Inv
  BY InitStep
<1>2. Inv /\ [Next]_vars => Inv'
  BY NextStep
<1> QED BY <1>1, <1>2, PTL DEF Spec

\* An RpcFile is a local file but for the operations its buffers fail: whatever
\* it buffers, whichever calls are lost, made again or refused, every byte
\* written is where it was meant to be, in the order of the operations, and every
\* byte read is from where it was asked for.  An operation that fails is one
\* that writes into the buffer or past its pages, or reads or truncates past the
\* buffers; it is the only one that fails, and a read touches nothing but what
\* it returns.
THEOREM FileIsLocal == Spec => LocalFile
<1>1. Init => Inv /\ Local!Init
  BY InitStep
<1>2. Inv /\ [Next]_vars => Inv' /\ [LocalStep \/ AstrayStep]_(Local!vars)
  BY NextStep
<1> QED BY <1>1, <1>2, PTL DEF Spec, LocalFile

\* Without buffers no operation fails.
Steady ==
  /\ ~ Has("W_BUFFERED") => wbuf = <<>>
  /\ astray # "no" => Has("W_BUFFERED") \/ Has("R_BUFFERED")

LEMMA NextFlags ==
  ASSUME [Next]_vars
  PROVE  UNCHANGED flags
BY DEF Next, Write, Flush, Read, WriteCall, AppendCall, ReadOn, ReadCall, CallFails, Seek,
       Truncate, Other, Begin, InCall, chosen, vars

LEMMA SteadyStep ==
  ASSUME Inv, Steady, [Next]_vars
  PROVE  Steady'
<1>1. Inv'
  BY NextStep
<1>2. UNCHANGED flags
  BY NextFlags
<1>3. ASSUME ~ Has("W_BUFFERED"), ~ Has("R_BUFFERED")
      PROVE  astray' = "no"
  <2>1. astray = "no" /\ ~ Dirty
    BY <1>3 DEF Steady, Dirty
  <2>2. ASSUME NEW n \in Sizes \cup {0}, NEW pages \in BOOLEAN, Read(n, pages)
        PROVE  astray' = "no"
    BY <1>3, <2>1, <2>2 DEF Read
  <2>3. ASSUME NEW n \in Sizes, Write(Bytes(ops + 1, n))
        PROVE  astray' = "no"
    BY <1>3, <2>3 DEF Write
  <2>4. ASSUME NEW n \in 0 .. MaxLength, Seek(n) \/ Truncate(n)
        PROVE  astray' = "no"
    BY <2>1, <2>4 DEF Seek, Truncate
  <2>5. CASE \/ Flush \/ WriteCall \/ AppendCall \/ ReadOn \/ ReadCall \/ CallFails \/ Other
             \/ UNCHANGED vars
    BY <2>1, <2>5 DEF Flush, WriteCall, AppendCall, ReadOn, ReadCall, CallFails, Other, InCall, vars
  <2> QED BY <2>2, <2>3, <2>4, <2>5 DEF Next
<1> QED BY <1>1, <1>2, <1>3 DEF Steady, Inv, Unbuffered, Has

\* An RpcFile that buffers nothing, appending or not, is a local file in every
\* step.
THEOREM PlainIsLocal ==
  Spec => [][Has("W_BUFFERED") \/ Has("R_BUFFERED") \/ LocalStep]_(Local!vars)
<1>1. Init => Inv /\ Steady
  BY InitStep DEF Init, Steady
<1>2. Inv /\ Steady /\ [Next]_vars => Inv' /\ Steady'
  BY NextStep, SteadyStep
<1>3. Inv /\ Steady' /\ [Next]_vars
        => [Has("W_BUFFERED") \/ Has("R_BUFFERED") \/ LocalStep]_(Local!vars)
  <2>1. [Next]_vars => UNCHANGED flags
    BY NextFlags
  <2> QED BY <2>1, NextStep DEF Steady, AstrayStep, Has
<1> QED BY <1>1, <1>2, <1>3, PTL DEF Spec

=============================================================================
