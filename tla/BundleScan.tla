----------------------------- MODULE BundleScan -----------------------------
(***************************************************************************)
(* scanTree and scanChild as signBundle uses them: the walk of a bundle and *)
(* of the bundles nested in it, in whatever order the file system            *)
(* enumerates them, with one bundleScan for all: its counts, the names it    *)
(* has seen, and the files that must not be hard links of what is written.   *)
(***************************************************************************)
EXTENDS Integers, Sequences, FiniteSets, FiniteSetsExt

CONSTANTS
  ScanBundles,    \* the bundles
  ScanTop,        \* the one that is signed
  Entries,        \* what they may contain
  In,             \* [Entries -> ScanBundles]
  Kind,           \* [Entries -> Kinds]
  NestedBundle,   \* [entries of kind "child" -> ScanBundles]
  Depth,          \* [ScanBundles -> Nat]: how many bundles enclose each
  MaxBytes        \* math.MaxInt64

Kinds == {"layout", "exec", "envelope", "plain", "helper", "child", "dir", "link",
          "stale", "version", "versionfile"}

ChildEntries == {e \in Entries : Kind[e] = "child"}

\* The directories of a file system are a tree: a bundle is in one other, one level down.
ASSUME ScanAssumption ==
  /\ ScanTop \in ScanBundles /\ In \in [Entries -> ScanBundles] /\ Kind \in [Entries -> Kinds]
  /\ NestedBundle \in [ChildEntries -> ScanBundles \ {ScanTop}]
  /\ \A e, f \in ChildEntries : NestedBundle[e] = NestedBundle[f] => e = f
  /\ Depth \in [ScanBundles -> Nat] /\ Depth[ScanTop] = 0
  /\ \A e \in ChildEntries : Depth[NestedBundle[e]] = Depth[In[e]] + 1
  /\ MaxBytes \in Nat

VARIABLES
  tree,     \* what is on disk: the entries present, inodes, names, sizes
  limits,   \* maxBundleEntries, maxNestedFiles, maxBundleDepth
  stack,    \* the bundles that are being scanned, the innermost last
  left,     \* [bundle -> its entries that are still to be visited]
  scope,    \* the bundleScan
  verdict   \* "", "accepted", "refused"

scanVars == <<tree, limits, stack, left, scope, verdict>>

Contents(b) == {e \in tree.present : In[e] = b}
Regular(e) == Kind[e] \in {"exec", "envelope", "plain", "helper", "stale", "versionfile"}
Targets(b) == {e \in Contents(b) : Kind[e] \in {"exec", "envelope"}}

SameFile(e, f) == tree.inode[e] = tree.inode[f]

\* scanTree visits the layout entries of a framework, then its directory tree,
\* and then its other versions.
Phase(e) == CASE Kind[e] = "layout" -> 1
              [] Kind[e] \in {"version", "versionfile"} -> 3
              [] OTHER -> 2

---------------------------------------------------------------------------
(* bundleScan; each operation gives the new scope, or "refused" in bad *)

Bad(s, problem) == [s EXCEPT !.bad = @ \/ problem]

\* Mutant of CountEntry: names are compared without the bundle they are in.
CountEntryLoose(s, e) ==
  LET c == [s EXCEPT !.entries = @ + 1, !.seen = @ \cup {tree.name[e]}]
  IN Bad(c, c.entries > limits.entries \/ tree.name[e] \in s.seen)

CountEntry(s, e) ==
  LET c == [s EXCEPT !.entries = @ + 1, !.seen = @ \cup {<<In[e], tree.name[e]>>}]
  IN Bad(c, c.entries > limits.entries \/ <<In[e], tree.name[e]>> \in s.seen)

\* Mutant of addBytes: the sum is not checked.
addBytesUnchecked(s, n) == [s EXCEPT !.bytes = @ + n]

addBytes(s, n) ==
  IF s.bytes > MaxBytes - n THEN Bad(s, TRUE) ELSE [s EXCEPT !.bytes = @ + n]

addChild(s) == Bad([s EXCEPT !.nested = @ + 1], s.nested + 1 > limits.nested)

writeTarget(s, e) ==
  Bad([s EXCEPT !.writable = @ \cup {e}], \E f \in s.regular \ {e} : SameFile(e, f))

\* Mutant of regularFile: only what is written later is compared.
regularFileBefore(s, e) == [s EXCEPT !.regular = @ \cup {e}]

regularFile(s, e) ==
  Bad([s EXCEPT !.regular = @ \cup {e}], \E f \in s.writable \ {e} : SameFile(e, f))

\* The executable and the envelope of a bundle that is entered.
TargetsOf(s, b) ==
  Bad([s EXCEPT !.writable = @ \cup Targets(b)],
      \E e \in Targets(b) : \E f \in s.regular \ {e} : SameFile(e, f))

\* Mutant of Enter: a nested bundle has a scan of its own.
EnterAnew(s, b, depth) ==
  LET c == addChild([s EXCEPT !.entries = 0]) IN
  TargetsOf(addBytes(Bad(c, depth > limits.depth), 1), b)

\* scanChild and snapshot, up to the walk: depth, count, the Info.plist.
Enter(s, b, depth) ==
  TargetsOf(addBytes(Bad(addChild(s), depth > limits.depth), 1), b)

---------------------------------------------------------------------------
(* One entry: what the callback of the walk does with it *)

Visited(s, e) ==
  LET c == IF Kind[e] = "version" THEN addChild(s) ELSE CountEntry(s, e)
      r == IF Regular(e) THEN regularFile(c, e) ELSE c
      size == tree.size[e]
  IN CASE Kind[e] \in {"layout", "dir", "version", "exec", "envelope", "stale"} -> r
       [] Kind[e] \in {"plain", "link", "versionfile"} -> addBytes(r, size)
       [] Kind[e] = "helper" -> addBytes(addChild(writeTarget(r, e)), size)
       [] Kind[e] = "child" -> Enter(r, NestedBundle[e], Len(stack))

Current == stack[Len(stack)]

Visit(e) ==
  LET s == Visited(scope, e) IN
  /\ verdict = "" /\ stack # <<>> /\ e \in left[Current]
  /\ \A f \in left[Current] : Phase(e) <= Phase(f)
  /\ scope' = s
  /\ left' = [left EXCEPT ![Current] = @ \ {e}]
  /\ verdict' = IF s.bad THEN "refused" ELSE ""
  /\ stack' = IF Kind[e] = "child" THEN Append(stack, NestedBundle[e]) ELSE stack
  /\ UNCHANGED <<tree, limits>>

\* All of a bundle has been visited: snapshot holds the executable of a nested
\* one and adds its size; signBundle goes on to plan when it is the top.
Leave ==
  LET s == IF Len(stack) = 1 THEN scope ELSE addBytes(scope, 1) IN
  /\ verdict = "" /\ stack # <<>> /\ left[Current] = {}
  /\ scope' = s
  /\ stack' = SubSeq(stack, 1, Len(stack) - 1)
  /\ verdict' = IF s.bad THEN "refused" ELSE IF Len(stack) = 1 THEN "accepted" ELSE ""
  /\ UNCHANGED <<tree, limits, left>>

\* newBundleScan, and the write targets of the top bundle.
Start ==
  TargetsOf([entries |-> 0, nested |-> 0, bytes |-> 0, seen |-> {}, regular |-> {},
             writable |-> {}, bad |-> FALSE], ScanTop)

\* The bundles of the tree: the top, and those whose directory is in it.
Reached ==
  {ScanTop} \cup {NestedBundle[e] : e \in {f \in tree.present : Kind[f] = "child"}}

\* What is on disk is finite, and all of it is in a bundle of the tree.
OnDisk ==
  /\ tree.present \subseteq Entries /\ IsFiniteSet(tree.present)
  /\ \A e \in tree.present : In[e] \in Reached /\ tree.size[e] \in Nat
  /\ {limits.entries, limits.nested, limits.depth} \subseteq Nat

ScanInit ==
  /\ OnDisk
  /\ stack = <<ScanTop>>
  /\ left = [b \in ScanBundles |-> Contents(b)]
  /\ scope = Start
  /\ verdict = IF Start.bad THEN "refused" ELSE ""

ScanNext == Leave \/ \E e \in Entries : Visit(e)

ScanSpec == ScanInit /\ [][ScanNext]_scanVars

---------------------------------------------------------------------------
(* Properties *)

(* What a tree is that can be signed *)
NotVersions == {e \in tree.present : Kind[e] # "version"}
NestedCode == {e \in tree.present : Kind[e] \in {"child", "helper", "version"}}
Measured == {e \in tree.present : Kind[e] \in {"plain", "link", "versionfile", "helper"}}
Rewritten == {e \in tree.present : Kind[e] \in {"exec", "envelope", "helper"}}
Members == {e \in tree.present : Regular(e)}

TotalSize(size, S) == MapThenSumSet(LAMBDA e : size[e], S)

\* The sizes, and one for the Info.plist and one for the executable of a nested bundle.
Bytes == TotalSize(tree.size, Measured) + 2 * (Cardinality(Reached) - 1)

WithinLimits ==
  /\ Cardinality(NotVersions) <= limits.entries
  /\ Cardinality(NestedCode) <= limits.nested
  /\ \A b \in Reached : Depth[b] <= limits.depth
  /\ Bytes <= MaxBytes

Distinct ==
  \A e, f \in NotVersions : e # f /\ In[e] = In[f] => tree.name[e] # tree.name[f]

Apart == \A e \in Rewritten, f \in Members : e # f => ~SameFile(e, f)

CanBeSigned == WithinLimits /\ Distinct /\ Apart

\* "Writing any signature target must not also change another bundle member
\* through a hard link": when the tree is accepted, no file that will be written,
\* in any bundle of it, is another member's file, whichever of them was seen first.
NoAlias == verdict = "accepted" => Apart

\* The limits hold for the whole tree: bundles nested in one another cannot have
\* more entries or code in total than one bundle can, nor overflow the byte count.
LimitsAreShared == verdict = "accepted" => WithinLimits /\ Distinct

\* Nothing else is refused: whether a bundle can be signed does not depend on the
\* order in which the file system enumerates it.
RefusedForCause == verdict = "refused" => ~CanBeSigned

\* The type of every variable; an entry is visited once.
ScanTypeOK ==
  /\ stack \in Seq(ScanBundles) /\ Len(stack) <= limits.depth + 2
  /\ \A b \in ScanBundles : left[b] \subseteq Contents(b)
  /\ scope.entries \in 0..limits.entries + 1 /\ scope.nested \in 0..limits.nested + 1
  /\ scope.bytes \in 0..MaxBytes
  /\ scope.regular \cup scope.writable \subseteq tree.present
  /\ verdict \in {"", "accepted", "refused"}
  /\ verdict = "accepted" => \A b \in Reached : left[b] = {}

\* scanTree accepts a tree exactly when all its bundles together keep the limits
\* and no write target is an alias, whatever the order of enumeration.
ScanHolds == ScanTypeOK /\ NoAlias /\ LimitsAreShared /\ RefusedForCause
=============================================================================
