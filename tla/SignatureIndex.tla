---------------------------- MODULE SignatureIndex ----------------------------
(***************************************************************************)
(* The Patricia tree that keeps the slots and the ranges of a signature      *)
(* while it is parsed.  Nodes are numbered from 1 and lie in extents, each    *)
(* twice as long as the one before; node 0 is no node.  A leaf has bit Width; *)
(* a branch has the first bit in which its two sides differ.                  *)
(***************************************************************************)
EXTENDS Integers, FiniteSetsExt, TLC

CONSTANTS
  Width,        \* of a key, in bits
  FirstExtent   \* signatureIndexFirstExtent

IndexAssumption == Width \in Nat \ {0} /\ FirstExtent \in Nat \ {0}

Keys == 0..2^Width - 1
EmptyIndex == [extents |-> <<>>, count |-> 0, root |-> 0]

ExtentSize(e) == FirstExtent * 2^e

\* Mutant of Position: the rows of the extents before are not taken off.
PositionFlat(id) ==
  LET row == id - 1
      e == CHOOSE e \in 0..Width : 2^e <= row \div FirstExtent + 1 /\ row \div FirstExtent + 1 < 2^(e + 1)
  IN <<e, row>>

\* The extent of a node, and its row there.
Position(id) ==
  LET row == id - 1
      e == CHOOSE e \in 0..Width : 2^e <= row \div FirstExtent + 1 /\ row \div FirstExtent + 1 < 2^(e + 1)
  IN <<e, row - FirstExtent * (2^e - 1)>>

get(x, id) == x.extents[Position(id)]
put(x, id, n) == [x EXCEPT !.extents = (Position(id) :> n) @@ @]
append(x, n) == [put(x, x.count + 1, n) EXCEPT !.count = @ + 1]

Leaf(k, v) == [key |-> k, value |-> v, bit |-> Width, left |-> 0, right |-> 0]
NoLeaf == [node |-> Leaf(0, 0), found |-> FALSE]

Right(k, bit) == (k \div 2^(Width - 1 - bit)) % 2 = 1
Side(n, k) == IF Right(k, n.bit) THEN n.right ELSE n.left

\* The leaf the bits of a key lead to.
leaf(x, k) ==
  LET walk[id \in 0..x.count] ==
        IF id = 0 THEN NoLeaf
        ELSE LET n == get(x, id)
             IN IF n.bit = Width THEN [node |-> n, found |-> TRUE] ELSE walk[Side(n, k)]
  IN walk[x.root]

find(x, k) ==
  LET l == leaf(x, k) IN [value |-> l.node.value, found |-> l.found /\ l.node.key = k]

Differing(a, b) == Min({i \in 0..Width - 1 : Right(a, i) # Right(b, i)})

\* Where a branch at a bit belongs on the path of a key: below the first, above the second.
Above(x, k, bit) ==
  LET down[at \in 1..x.count, parent \in 0..x.count] ==
        IF get(x, at).bit >= bit THEN <<parent, at>> ELSE down[Side(get(x, at), k), at]
  IN down[x.root, 0]

Relink(x, parent, k, id) ==
  IF parent = 0 THEN [x EXCEPT !.root = id]
  ELSE LET n == get(x, parent)
       IN put(x, parent, IF Right(k, n.bit) THEN [n EXCEPT !.right = id] ELSE [n EXCEPT !.left = id])

\* A key that is not in the index, with its value.
insert(x, k, v) ==
  LET l == leaf(x, k)
      y == append(x, Leaf(k, v))
      bit == Differing(k, l.node.key)
      at == Above(y, k, bit)
      branch == [key |-> k, value |-> 0, bit |-> bit,
                 left |-> IF Right(k, bit) THEN at[2] ELSE y.count,
                 right |-> IF Right(k, bit) THEN y.count ELSE at[2]]
      z == append(y, branch)
  IN IF ~l.found THEN [y EXCEPT !.root = y.count] ELSE Relink(z, at[1], k, z.count)

\* The greatest or the least leaf below a node.
extreme(x, top, right) ==
  LET walk[id \in 0..x.count] ==
        IF id = 0 THEN NoLeaf
        ELSE LET n == get(x, id)
             IN IF n.bit = Width THEN [node |-> n, found |-> TRUE]
                ELSE walk[IF right THEN n.right ELSE n.left]
  IN walk[top]

\* The subtrees with the nearest keys on the two sides of a start, and whether the
\* start itself is a key.
Neighbours(x, start) ==
  LET down[at \in 0..x.count, lower \in 0..x.count, upper \in 0..x.count] ==
        IF at = 0 THEN [lower |-> lower, upper |-> upper, same |-> FALSE]
        ELSE LET n == get(x, at)
                 prefix(k) == k \div 2^(Width - n.bit)
             IN CASE prefix(start) < prefix(n.key) -> [lower |-> lower, upper |-> at, same |-> FALSE]
                  [] prefix(start) > prefix(n.key) -> [lower |-> at, upper |-> upper, same |-> FALSE]
                  [] prefix(start) = prefix(n.key) /\ n.bit = Width ->
                       [lower |-> lower, upper |-> upper, same |-> TRUE]
                  [] OTHER -> IF Right(start, n.bit) THEN down[n.right, n.left, upper]
                              ELSE down[n.left, lower, n.right]
  IN down[x.root, 0, 0]

\* Mutant of overlaps: only the range that starts before is compared.
overlapsBefore(x, start, end) ==
  LET n == Neighbours(x, start)
      before == extreme(x, n.lower, TRUE)
  IN n.same \/ (before.found /\ before.node.value > start)

\* Does a range meet one of those in the index, which do not meet each other?
overlaps(x, start, end) ==
  LET n == Neighbours(x, start)
      before == extreme(x, n.lower, TRUE)
      after == extreme(x, n.upper, FALSE)
  IN \/ n.same
     \/ before.found /\ before.node.value > start
     \/ after.found /\ after.node.key < end
=============================================================================
