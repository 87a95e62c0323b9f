---------------------------- MODULE ResourceId ----------------------------
(***************************************************************************)
(* Paths and resource identifiers: SHVPath (src/shv/path.py) and the       *)
(* matching of src/shv/rpcri.py.  A path or a pattern is the sequence of   *)
(* its nodes; the empty path is split in one empty node.                   *)
(***************************************************************************)
EXTENDS Integers, Sequences, FiniteSets, SequencesExt

Split(p) == IF p = <<>> THEN <<"">> ELSE p
\* fnmatchcase, for the patterns that are a name or a star.
FnMatch(name, pattern) == pattern \in {"*", "**", name}

RECURSIVE PthMatch(_, _, _)
\* __pth_match: how many nodes of the pattern were used, i of them before this
\* node.  A ** takes nodes until the first one that the node after it matches.
PthMatch(path, pattern, i) ==
  LET node == Head(path)
      at == pattern[i + 1]
      next == IF i + 1 < Len(pattern) THEN {pattern[i + 2]} ELSE {}
      Go(k) == PthMatch(Tail(path), pattern, k)
  IN IF path = <<>> THEN {i}
     ELSE IF i >= Len(pattern) THEN {}
     ELSE IF at = "**"
     THEN IF next = {} THEN {i + 1}
          ELSE IF next = {"**"} THEN Go(i + 1)
          ELSE IF \E p \in next : FnMatch(node, p) THEN Go(i + 2) ELSE Go(i)
     ELSE IF ~FnMatch(node, at) THEN {}
     ELSE IF next = {"**"} /\ Len(path) = 1 THEN Go(i + 2) ELSE Go(i + 1)

shvpath_match(pattern, path) ==
  Len(Split(pattern)) \in PthMatch(Split(path), Split(pattern), 0)

\* A mistake: a ** at the end is used up.
shvpath_rest(pattern, path) ==
  IF path = <<>> THEN {pattern}
  ELSE {SubSeq(Split(pattern), n + 1, Len(Split(pattern))) :
          n \in PthMatch(Split(path), Split(pattern), 0) \ {Len(Split(pattern))}}
\* What is left of the pattern under the path: a set of one pattern, or none.
shvpath_tail(pattern, path) ==
  LET ptn == Split(pattern)
      whole == Len(ptn)
      Left(n) == IF n = whole /\ Last(ptn) = "**" THEN n - 1 ELSE n
  IN IF path = <<>> THEN {pattern}
     ELSE {SubSeq(ptn, Left(n) + 1, whole) :
             n \in {k \in PthMatch(Split(path), ptn, 0) : Left(k) # whole}}

\* A resource identifier is the sequence of its parts: the pattern of the path,
\* then those of the method and of the signal.  No signal is {}.
rpcri_match(ri, path, method, signal) ==
  /\ Len(ri) = 2 + Cardinality(signal)
  /\ shvpath_match(ri[1], path) /\ FnMatch(method, ri[2])
  /\ \A s \in signal : FnMatch(s, ri[3])
rpcri_relative_to(ri, path) ==
  {[ri EXCEPT ![1] = tail] : tail \in shvpath_tail(ri[1], path)}

(* ------------------------------ SHVPath -------------------------------- *)

\* The constructor, for segments split at the slashes: .. goes up, and an
\* empty one starts over at the root.
SHVPath(segments) ==
  LET Step(parts, s) == IF s = "" THEN <<>>
                        ELSE IF s # ".." THEN Append(parts, s)
                        ELSE IF parts = <<>> THEN parts ELSE Front(parts)
  IN FoldLeft(Step, <<>>, segments)
joinpath(path, segments) == SHVPath(path \o segments)
is_relative_to(path, other) == IsPrefix(other, path)
\* One path, or none where the code raises ValueError.
relative_to(path, other) ==
  IF is_relative_to(path, other)
  THEN {SubSeq(path, Len(other) + 1, Len(path))} ELSE {}
=============================================================================
