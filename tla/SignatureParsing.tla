--------------------------- MODULE SignatureParsing ---------------------------
(***************************************************************************)
(* The two parsers of a signature SuperBlob.  parseSignatureRange owns what   *)
(* it reads, and sorts the ranges at the end; parseSignatureView keeps ranges *)
(* of the file and asks the index about each.  Both make the same reads, and   *)
(* here they make them together: a file that is edited meanwhile gives any     *)
(* answer to any read.  Lengths are in units of the header of a blob.           *)
(***************************************************************************)
EXTENDS SignatureIndex, Sequences, SequencesExt

CONSTANTS
  Length,       \* of an arbitrary SuperBlob
  Counts,       \* of entries that a header may state
  Records,      \* Records[i]: what may be read for the entry i
  Primary, Alternates,
  Typed,        \* slots whose magic is fixed
  Written       \* what superblob is given: sets of [slot, n]

Header == 1     \* of the SuperBlob
EntrySize == 1
BlobHeader == 1

VARIABLES
  file,         \* the entries superblob wrote, or <<>> for an arbitrary file
  count, length, \* that the header states
  allowUnsigned,
  i,            \* entries that were read
  owned,        \* parseSignatureRange: seen, spans, directories, out
  view          \* parseSignatureView: slots, intervals, overlap, directories, out

vars == <<file, count, length, allowUnsigned, i, owned, view>>

IsDirectory(slot) == slot = Primary \/ slot \in Alternates
IndexEnd == Header + count * EntrySize

SuperBlobLength(blobs) ==
  Header + FoldSet(LAMBDA b, sum : sum + EntrySize + b.n, 0, blobs)

\* Mutant of superblob: the index of the file is not counted.
superblobShort(blobs) ==
  LET s == SetToSortSeq(blobs, LAMBDA a, b : a.slot < b.slot)
  IN [k \in DOMAIN s |->
       [slot |-> s[k].slot, n |-> s[k].n, off |-> Header +
          FoldSet(LAMBDA j, sum : sum + s[j].n, 0, 1..k - 1),
        magic |-> TRUE, sound |-> TRUE, changed |-> FALSE]]

\* The index entries of a SuperBlob of these blobs, which follow it in the order of slots.
superblob(blobs) ==
  LET s == SetToSortSeq(blobs, LAMBDA a, b : a.slot < b.slot)
  IN [k \in DOMAIN s |->
       [slot |-> s[k].slot, n |-> s[k].n, off |-> Header + Len(s) * EntrySize +
          FoldSet(LAMBDA j, sum : sum + s[j].n, 0, 1..k - 1),
        magic |-> TRUE, sound |-> TRUE, changed |-> FALSE]]

\* Mutant of EntryError: a header may begin at the very end.
EntryErrorLoose(duplicate, e) ==
  CASE duplicate -> "duplicate"
    [] e.off < IndexEnd -> "header"
    [] e.n < BlobHeader -> "length"
    [] e.changed -> "changed"
    [] e.slot \in Typed /\ ~e.magic -> "magic"
    [] IsDirectory(e.slot) /\ ~e.sound -> "directory"
    [] OTHER -> "none"

\* What is wrong with an entry, in the order of the checks: its slot, where it is, how long
\* it is, whether its header was edited after it was read, its magic, its CodeDirectory.
EntryError(duplicate, e) ==
  CASE duplicate -> "duplicate"
    [] ~duplicate /\ (e.off < IndexEnd \/ e.off + BlobHeader > length) -> "header"
    [] OTHER ->
         CASE e.n < BlobHeader \/ e.off + e.n > length -> "length"
           [] OTHER -> CASE e.changed -> "changed"
                         [] ~e.changed /\ e.slot \in Typed /\ ~e.magic -> "magic"
                         [] ~e.changed /\ IsDirectory(e.slot) /\ ~e.sound -> "directory"
                         [] OTHER -> "none"

OwnedEntry(e) ==
  LET error == EntryError(e.slot \in owned.seen, e)
  IN [seen |-> owned.seen \cup {e.slot},
      spans |-> IF error = "none" THEN Append(owned.spans, [start |-> e.off, end |-> e.off + e.n]) ELSE owned.spans,
      directories |-> owned.directories + IF error = "none" /\ IsDirectory(e.slot) THEN 1 ELSE 0,
      out |-> error]

ViewEntry(e) ==
  LET duplicate == find(view.slots, e.slot).found
      error == EntryError(duplicate, e)
      meets == view.overlap \/ overlaps(view.intervals, e.off, e.off + e.n)
  IN [slots |-> IF duplicate THEN view.slots ELSE insert(view.slots, e.slot, i),
      intervals |-> IF error # "none" \/ meets THEN view.intervals
                    ELSE insert(view.intervals, e.off, e.off + e.n),
      overlap |-> IF error = "none" THEN meets ELSE view.overlap,
      directories |-> view.directories + IF error = "none" /\ IsDirectory(e.slot) THEN 1 ELSE 0,
      out |-> error]

\* One iteration of the two loops.
ReadEntry ==
  /\ i < count /\ owned.out = "none" /\ view.out = "none"
  /\ \E e \in IF file = <<>> THEN Records[i + 1] ELSE {file[i + 1]} :
       owned' = OwnedEntry(e) /\ view' = ViewEntry(e)
  /\ i' = i + 1
  /\ UNCHANGED <<file, count, length, allowUnsigned>>

Sorted == SortSeq(owned.spans, LAMBDA a, b : a.start < b.start)

\* Mutant of OwnedEnd: ranges that touch are refused too.
OwnedEndTouching ==
  CASE \E k \in 2..Len(Sorted) : Sorted[k].start <= Sorted[k - 1].end -> "overlap"
    [] Primary \notin owned.seen /\ (~allowUnsigned \/ owned.directories # 0) -> "primary"
    [] OTHER -> "ok"

OwnedEnd ==
  CASE \E k \in 2..Len(Sorted) : Sorted[k].start < Sorted[k - 1].end -> "overlap"
    [] OTHER -> IF Primary \notin owned.seen /\ (~allowUnsigned \/ owned.directories # 0)
                THEN "primary" ELSE "ok"

ViewEnd ==
  CASE view.overlap -> "overlap"
    [] OTHER -> IF ~find(view.slots, Primary).found /\ (~allowUnsigned \/ view.directories # 0)
                THEN "primary" ELSE "ok"

Finish ==
  /\ i = count /\ owned.out = "none" /\ view.out = "none"
  /\ owned' = [owned EXCEPT !.out = OwnedEnd]
  /\ view' = [view EXCEPT !.out = ViewEnd]
  /\ UNCHANGED <<file, count, length, allowUnsigned, i>>

Finished == (owned.out # "none" \/ view.out # "none") /\ UNCHANGED vars

Init ==
  /\ \/ file = <<>> /\ count \in Counts /\ length = Length
     \/ \E blobs \in Written :
          file = superblob(blobs) /\ count = Len(file) /\ length = SuperBlobLength(blobs)
  /\ allowUnsigned \in BOOLEAN
  /\ i = 0
  /\ owned = [seen |-> {}, spans |-> <<>>, directories |-> 0, out |-> "none"]
  /\ view = [slots |-> EmptyIndex, intervals |-> EmptyIndex, overlap |-> FALSE, directories |-> 0, out |-> "none"]

Next == ReadEntry \/ Finish \/ Finished
Spec == Init /\ [][Next]_vars

---------------------------------------------------------------------------

RangesIn(x) ==
  {[start |-> x.extents[p].key, end |-> x.extents[p].value] :
     p \in {q \in DOMAIN x.extents : x.extents[q].bit = Width}}
Meets(r, start, end) == r.start < end /\ start < r.end

\* Type invariant: every node of an index lies in an extent that has room for it.
TypeOK ==
  /\ IndexAssumption
  /\ count \in Nat /\ length \in Nat /\ i \in 0..count /\ allowUnsigned \in BOOLEAN
  /\ \A x \in {view.slots, view.intervals} :
       /\ x.root \in 0..x.count /\ Cardinality(DOMAIN x.extents) = x.count
       /\ \A p \in DOMAIN x.extents : p[2] \in 0..ExtentSize(p[1]) - 1
  /\ owned.directories \in 0..1 + Cardinality(Alternates)
  /\ view.directories \in 0..1 + Cardinality(Alternates)

\* The parser that keeps ranges accepts what the one that owns bytes accepts, and refuses
\* the rest for the same reason (signature_view.go:33-123, blob.go:71-145).
SameVerdict == owned.out = view.out /\ owned.directories = view.directories

\* The index answers as a set of ranges would: each slot is found at its entry, and no other,
\* and a range meets the index when it meets a range in it (signature_index.go:105-209).
IndexAnswers ==
  /\ \A s \in Keys : find(view.slots, s).found = (s \in owned.seen)
  /\ \A start \in Keys, n \in 1..3 :
       overlaps(view.intervals, start, start + n) <=> \E r \in RangesIn(view.intervals) : Meets(r, start, start + n)

\* The components of an accepted signature do not meet each other nor its index, and lie
\* within it; a CodeDirectory is never accepted without a primary one.
AcceptedIsDisjoint ==
  view.out = "ok" =>
    /\ Cardinality(RangesIn(view.intervals)) = count
    /\ \A r \in RangesIn(view.intervals) : IndexEnd <= r.start /\ r.end <= length
    /\ \A r, s \in RangesIn(view.intervals) : r # s => ~Meets(r, s.start, s.end)
    /\ (view.directories > 0 \/ ~allowUnsigned) => find(view.slots, Primary).found

\* A SuperBlob that superblob writes, with a primary CodeDirectory, is accepted and every slot
\* is found at its entry (blob.go:234-262).
WrittenIsAccepted ==
  /\ file # <<>> /\ (owned.out # "none" \/ view.out # "none") =>
       owned.out = (IF \E k \in DOMAIN file : file[k].slot = Primary THEN "ok"
                    ELSE IF allowUnsigned /\ \A k \in DOMAIN file : ~IsDirectory(file[k].slot) THEN "ok" ELSE "primary")
  /\ file # <<>> /\ view.out = "ok" =>
       \A k \in DOMAIN file : find(view.slots, file[k].slot) = [value |-> k - 1, found |-> TRUE]
=============================================================================
