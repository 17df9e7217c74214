------------------------------ MODULE Transfer ------------------------------
(***************************************************************************)
(* transferOutputBuffer with its two destinations: populateOutput writes a  *)
(* file, hashCodePagesTo digests pages and stages the digests in the other   *)
(* half of the same buffer.  The host may read short, misreport a count,     *)
(* return an error with all the data, write short, or fail; the operation    *)
(* may be canceled at any moment.  The cell of the source at position i is   *)
(* i itself.                                                                 *)
(***************************************************************************)
EXTENDS Integers, Sequences

CONSTANTS
  Sizes,           \* of the source
  TransferBuffer,  \* transferBufferSize
  Slot,            \* sha256.Size
  Pages,           \* page sizes
  MaxOld           \* the longest file that is written in place

ASSUME TransferAssumption ==
  /\ Sizes \subseteq Nat /\ Pages \subseteq Nat \ {0} /\ MaxOld \in Nat
  /\ Slot \in Nat \ {0} /\ TransferBuffer \in Nat /\ TransferBuffer >= 2 * Slot

VARIABLES
  job,       \* what is transferred: sink, size, page
  phase,     \* where the operation is
  offset,    \* the position in the source
  got,       \* what the last read returned: n, err
  dst,       \* the file: a sequence of source positions, Old and Zero
  done,      \* what else was done to the file: length, metadata, synced
  hasher,    \* codePageOutput: remaining, the positions hashed since Reset
  batch,     \* pageHashBatch: the staged digests and the slot they start at
  section,   \* the digests that were written, by slot
  canceled,  \* the context is done
  fault      \* the host failed some call

vars == <<job, phase, offset, got, dst, done, hasher, batch, section, canceled, fault>>

Least(a, b) == IF a < b THEN a ELSE b
Most(a, b) == IF a > b THEN a ELSE b

Old == -1
Zero == -2

Reserved == Least(Most(job.size, IF job.sink = "pages" THEN 2 * Slot ELSE 1), TransferBuffer)

\* Mutant of split: the half is not rounded to whole digests.
splitUneven == Reserved \div 2

\* Mutant of split: the digests get all of the buffer.
splitWhole == (Reserved \div Slot) * Slot

split == ((Reserved \div 2) \div Slot) * Slot

Buffer == IF job.sink = "pages" THEN Reserved - split ELSE Reserved
Chunk == Least(Buffer, job.size - offset)

End(how) == phase' = how

---------------------------------------------------------------------------

Begin ==
  /\ phase = "begin"
  /\ \/ canceled /\ End("error")
     \/ ~canceled /\ job.size > 0 /\ End("read")
     \/ ~canceled /\ job.size = 0 /\ End(IF job.sink = "file" THEN "truncate" ELSE "ok")
  /\ UNCHANGED <<job, offset, got, dst, done, hasher, batch, section, canceled, fault>>

\* One ReadAt.  A count above the length of the chunk is a broken reader's.
Read ==
  /\ phase = "read" /\ ~canceled
  /\ \E n \in 0..Chunk + 1, err \in {"none", "eof", "fault"} :
       /\ got' = [n |-> n, err |-> err]
       /\ fault' = (fault \/ n # Chunk \/ err = "fault")
  /\ phase' = "got"
  /\ UNCHANGED <<job, offset, dst, done, hasher, batch, section, canceled>>

ReadCanceled ==
  /\ phase = "read" /\ canceled
  /\ End("error")
  /\ UNCHANGED <<job, offset, got, dst, done, hasher, batch, section, canceled, fault>>

Got ==
  /\ phase = "got"
  /\ \/ (got.n > Chunk \/ canceled) /\ End("error")
     \/ got.n <= Chunk /\ ~canceled /\ got.n > 0 /\ End(IF job.sink = "file" THEN "write" ELSE "hash")
     \/ got.n = 0 /\ ~canceled /\ End("advance")
  /\ UNCHANGED <<job, offset, got, dst, done, hasher, batch, section, canceled, fault>>

\* Mutant of Written: every chunk is written at the start.
WrittenAtStart(n) ==
  [i \in 1..Most(Len(dst), n) |-> IF i <= n THEN offset + i - 1 ELSE dst[i]]

\* The file with the first n cells of the chunk written at the offset.
Written(n) ==
  [i \in 1..Most(Len(dst), IF n = 0 THEN 0 ELSE offset + n) |->
     IF offset < i /\ i <= offset + n THEN i - 1
     ELSE IF i <= Len(dst) THEN dst[i] ELSE Zero]

Write ==
  /\ phase = "write"
  /\ \E n \in 0..got.n, err \in BOOLEAN :
       /\ dst' = Written(n)
       /\ fault' = (fault \/ err \/ n # got.n)
       /\ End(IF err \/ n # got.n THEN "error" ELSE "advance")
  /\ UNCHANGED <<job, offset, got, done, hasher, batch, section, canceled>>

\* Mutant of Complete: an error that comes with all the data is ignored.
CompleteLoose == got.n = Chunk

Complete == got.n = Chunk /\ got.err # "fault"

Advance ==
  /\ phase = "advance"
  /\ IF Complete
       THEN /\ offset' = offset + got.n
            /\ End(IF offset' < job.size THEN "read"
                   ELSE IF canceled THEN "error"
                   ELSE IF job.sink = "file" THEN "truncate" ELSE "tail")
       ELSE End("error") /\ offset' = offset
  /\ UNCHANGED <<job, got, dst, done, hasher, batch, section, canceled, fault>>

---------------------------------------------------------------------------
(* populateOutput, after the transfer *)

\* Mutant of Truncate: the file keeps its length.
TruncateNone ==
  /\ phase = "truncate"
  /\ done' = [done EXCEPT !.length = TRUE] /\ phase' = "metadata"
  /\ UNCHANGED <<job, offset, got, dst, hasher, batch, section, canceled, fault>>

Truncate ==
  /\ phase = "truncate"
  /\ \/ /\ dst' = [i \in 1..job.size |-> IF i <= Len(dst) THEN dst[i] ELSE Zero]
        /\ done' = [done EXCEPT !.length = TRUE]
        /\ phase' = "metadata" /\ UNCHANGED fault
     \/ fault' = TRUE /\ End("error") /\ UNCHANGED <<dst, done>>
  /\ UNCHANGED <<job, offset, got, hasher, batch, section, canceled>>

Metadata ==
  /\ phase = "metadata"
  /\ \/ ~canceled /\ done' = [done EXCEPT !.metadata = TRUE] /\ phase' = "sync" /\ UNCHANGED fault
     \/ ~canceled /\ fault' = TRUE /\ End("error") /\ UNCHANGED done
     \/ canceled /\ End("error") /\ UNCHANGED <<done, fault>>
  /\ UNCHANGED <<job, offset, got, dst, hasher, batch, section, canceled>>

Sync ==
  /\ phase = "sync"
  /\ \/ ~canceled /\ done' = [done EXCEPT !.synced = TRUE] /\ phase' = "synced" /\ UNCHANGED fault
     \/ ~canceled /\ fault' = TRUE /\ End("error") /\ UNCHANGED done
     \/ canceled /\ End("error") /\ UNCHANGED <<done, fault>>
  /\ UNCHANGED <<job, offset, got, dst, hasher, batch, section, canceled>>

Synced ==
  /\ phase = "synced"
  /\ End(IF canceled THEN "error" ELSE "ok")
  /\ UNCHANGED <<job, offset, got, dst, done, hasher, batch, section, canceled, fault>>

---------------------------------------------------------------------------
(* codePageOutput.WriteAt and pageHashBatch *)

\* How much of the chunk was hashed, and how much of it fits the page.
Hashed == hasher.total - offset

\* Mutant of Portion: a chunk that ends in the next page is hashed whole.
PortionWhole == got.n - Hashed

Portion == Least(got.n - Hashed, hasher.remaining)

HashPage ==
  /\ phase = "hash"
  /\ IF Hashed = got.n THEN End("advance") /\ UNCHANGED hasher
     ELSE /\ hasher' = [hasher EXCEPT
                !.pending = @ \o [k \in 1..Portion |-> offset + Hashed + k - 1],
                !.remaining = @ - Portion, !.total = @ + Portion]
          /\ End(IF hasher.remaining = Portion THEN "finish" ELSE "hash")
  /\ UNCHANGED <<job, offset, got, dst, done, batch, section, canceled, fault>>

\* After the transfer: the digest of a last, shorter page.
LastPage ==
  /\ phase = "tail"
  /\ End(IF hasher.remaining # job.page THEN "finish" ELSE "last")
  /\ UNCHANGED <<job, offset, got, dst, done, hasher, batch, section, canceled, fault>>

Used == Len(batch.sums) * Slot
InTail == offset = job.size

\* Mutant of Reset: the hash goes on into the next page.
ResetNot(h) == [h EXCEPT !.remaining = job.page]

Reset(h) == [h EXCEPT !.remaining = job.page, !.pending = <<>>]

\* finish, and pageHashBatch.WriteAt of one digest.
Finish ==
  /\ phase = "finish"
  /\ IF Slot > split - Used THEN End("error") /\ UNCHANGED <<batch, hasher>>
     ELSE /\ batch' = [batch EXCEPT !.sums = Append(@, hasher.pending)]
          /\ hasher' = Reset(hasher)
          /\ End(IF Used + Slot = split THEN "flush" ELSE IF InTail THEN "last" ELSE "hash")
  /\ UNCHANGED <<job, offset, got, dst, done, section, canceled, fault>>

Put(n) == [k \in DOMAIN section |->
             IF batch.at < k /\ k <= batch.at + n THEN batch.sums[k - batch.at] ELSE section[k]]

\* Mutant of Emptied: what was flushed stays in the batch.
EmptiedNot(b) == [b EXCEPT !.at = @ + Len(b.sums)]

Emptied(b) == [at |-> b.at + Len(b.sums), sums |-> <<>>]

\* flush: the context, one WriteAt of the staged digests, the context again.  A
\* full batch is flushed while pages are hashed, and the batch at the end.
AfterFlush == IF phase \in {"last", "wrotelast"} THEN "ok" ELSE IF InTail THEN "last" ELSE "hash"

Flush ==
  /\ phase \in {"flush", "last"}
  /\ IF canceled THEN End("error") /\ UNCHANGED <<section, fault>>
     ELSE IF batch.sums = <<>> THEN End(AfterFlush) /\ UNCHANGED <<section, fault>>
     ELSE \E n \in 0..Len(batch.sums), err \in BOOLEAN :
            /\ section' = Put(n)
            /\ fault' = (fault \/ err \/ n # Len(batch.sums))
            /\ End(IF err \/ n # Len(batch.sums) THEN "error"
                   ELSE IF phase = "last" THEN "wrotelast" ELSE "wrote")
  /\ UNCHANGED <<job, offset, got, dst, done, hasher, batch, canceled>>

Wrote ==
  /\ phase \in {"wrote", "wrotelast"}
  /\ IF canceled THEN End("error") /\ UNCHANGED batch
     ELSE End(AfterFlush) /\ batch' = Emptied(batch)
  /\ UNCHANGED <<job, offset, got, dst, done, hasher, section, canceled, fault>>

---------------------------------------------------------------------------

Cancel ==
  /\ ~canceled /\ phase \notin {"ok", "error"}
  /\ canceled' = TRUE
  /\ UNCHANGED <<job, phase, offset, got, dst, done, hasher, batch, section, fault>>

PageCount(j) == (j.size + j.page - 1) \div j.page

\* A file has no pages.
SomePage == CHOOSE p \in Pages : TRUE

EmptySection == [k \in 1..(IF job.sink = "pages" THEN PageCount(job) ELSE 0) |-> <<>>]

Init ==
  /\ job \in [sink : {"file", "pages"}, size : Sizes, page : Pages]
  /\ job.sink = "file" => job.page = SomePage
  /\ phase = "begin" /\ offset = 0 /\ got = [n |-> 0, err |-> "none"]
  /\ \E len \in 0..MaxOld : (job.sink = "pages" => len = 0) /\ dst = [i \in 1..len |-> Old]
  /\ done = [length |-> FALSE, metadata |-> FALSE, synced |-> FALSE]
  /\ hasher = [remaining |-> job.page, pending |-> <<>>, total |-> 0]
  /\ batch = [at |-> 0, sums |-> <<>>]
  /\ section = EmptySection
  /\ canceled \in BOOLEAN /\ fault = FALSE

Work == Begin \/ Read \/ ReadCanceled \/ Got \/ Write \/ Advance \/ Truncate \/ Metadata \/ Sync
        \/ Synced \/ HashPage \/ LastPage \/ Finish \/ Flush \/ Wrote

Finished == phase \in {"ok", "error"} /\ UNCHANGED vars

Next == Work \/ Cancel \/ Finished
Spec == Init /\ [][Next]_vars
FairSpec == Spec /\ WF_vars(Work)

---------------------------------------------------------------------------

PageOf(k) == [i \in 1..Least(job.page, job.size - (k - 1) * job.page) |-> (k - 1) * job.page + i - 1]

Phases == {"begin", "read", "got", "write", "advance", "truncate", "metadata", "sync", "synced",
           "hash", "finish", "tail", "flush", "last", "wrote", "wrotelast", "ok", "error"}

\* Type invariant: the digests that are staged fit their half of the buffer, and
\* no read is longer than the other half.
TypeOK ==
  /\ job \in [sink : {"file", "pages"}, size : Sizes, page : Pages]
  /\ phase \in Phases /\ offset \in 0..job.size
  /\ got.n \in 0..Buffer + 1 /\ got.err \in {"none", "eof", "fault"}
  /\ \A i \in 1..Len(dst) : dst[i] \in 0..job.size - 1 \cup {Old, Zero}
  /\ done \in [length : BOOLEAN, metadata : BOOLEAN, synced : BOOLEAN]
  /\ hasher.remaining \in 0..job.page
  /\ Used <= split \/ job.sink = "file"
  /\ canceled \in BOOLEAN /\ fault \in BOOLEAN

\* populateOutput and hashCodePagesTo succeed only when no call failed, and then the
\* file holds the source, all of it and nothing else, with its metadata and synced,
\* and every slot holds the digest of its page (transfer.go:65-130, hashing.go:73-193).
Exact ==
  phase = "ok" =>
    /\ ~fault
    /\ job.sink = "file" => /\ dst = [i \in 1..job.size |-> i - 1]
                             /\ done.length /\ done.metadata /\ done.synced
    /\ job.sink = "pages" => \A k \in 1..PageCount(job) : section[k] = PageOf(k)

\* Only a failed call or a cancellation makes them fail: whatever the sizes, the two
\* halves of the buffer suffice for the pages and their digests (hashing.go:139-169).
NoSpuriousFailure == phase = "error" => fault \/ canceled

\* A file written in place holds at any moment the source up to the offset and,
\* beyond what was written, its old contents (transfer.go:41-43, 78-95).
InPlace ==
  \A i \in 1..Len(dst) : dst[i] = i - 1 \/ (dst[i] = Old /\ i > offset)

\* At every moment the destination is the source as far as it was written, success
\* is exact and failure has a cause: what transferOutputBuffer promises to its callers.
TransferIsExact == TypeOK /\ InPlace /\ Exact /\ NoSpuriousFailure

\* "A reader error never permits truncation or commit" (transfer.go:41-43): a file is
\* shortened, or given its metadata, only when all of the source is in it.
CommittedWhenWhole ==
  [][Len(dst') < Len(dst) \/ done' # done =>
       ~fault /\ \A i \in 1..job.size : i \in DOMAIN dst /\ dst[i] = i - 1]_vars

\* The operation ends, whatever a reader or a writer answers (transfer.go:66-98).
TransferEnds == <>(phase \in {"ok", "error"})
=============================================================================
