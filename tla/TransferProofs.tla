--------------------------- MODULE TransferProofs ---------------------------
(***************************************************************************)
(* Proofs about Transfer for sources, pages and buffers of any size.        *)
(* IInv says how much of the file is the source (Prefix) and where a failed *)
(* call is remembered until the operation ends (Seen).  PInv says which     *)
(* pages the digests stand for and what the hash has taken of the next one *)
(* (Hashing), and why its digest will fit (Room).  Fits bounds what is read  *)
(* and staged, for the type invariant.                                      *)
(***************************************************************************)
EXTENDS Transfer, SequenceTheorems, TLAPS

\* What the proofs need of the variables' types.
Types ==
  /\ job \in [sink : {"file", "pages"}, size : Sizes, page : Pages]
  /\ phase \in Phases
  /\ offset \in Nat /\ offset <= job.size
  /\ got \in [n : Nat, err : {"none", "eof", "fault"}]
  /\ dst \in Seq(Int)
  /\ done \in [length : BOOLEAN, metadata : BOOLEAN, synced : BOOLEAN]
  /\ canceled \in BOOLEAN /\ fault \in BOOLEAN

\* While a chunk is under way there is still something to read, and a destination
\* is given no more than was asked for.
ChunkPhases == {"read", "got", "write", "hash", "advance"}
UnderWay ==
  /\ phase \in ChunkPhases => offset < job.size
  /\ phase \in {"write", "hash"} => got.n <= Chunk
  /\ phase \in {"finish", "flush", "wrote"} /\ offset < job.size => got.n <= Chunk
  /\ phase = "advance" => got.n <= Chunk \/ got.n = 0

\* Each destination has phases of its own.
FilePhases == {"write", "truncate", "metadata", "sync", "synced"}
PagePhases == {"hash", "finish", "tail", "flush", "last", "wrote", "wrotelast"}
Sinks ==
  /\ phase \in FilePhases => job.sink = "file"
  /\ phase \in PagePhases => job.sink = "pages"

\* A failed call is forgotten in no phase: either the operation has ended, or the
\* chunk that is under way shows it.
Bad == got.n # Chunk \/ got.err = "fault"
Seen ==
  /\ fault => \/ phase = "error"
              \/ /\ phase \in {"got", "write", "hash", "finish", "flush", "wrote", "advance"}
                 /\ offset < job.size /\ Bad
  /\ phase \in {"got", "write", "hash", "advance"} => (Bad => fault)
  /\ phase \in {"finish", "flush", "wrote"} /\ offset < job.size => (Bad => fault)

\* The prefix of the file that holds the source.
Held == IF phase = "advance" THEN offset + got.n ELSE offset
Prefix ==
  job.sink = "file" =>
    /\ Held <= Len(dst)
    /\ \A i \in 1..Len(dst) : dst[i] = i - 1 \/ (dst[i] = Old /\ i > Held)

\* What is known once the whole source was transferred.
Whole ==
  /\ phase = "begin" => offset = 0
  /\ phase \in {"truncate", "metadata", "sync", "synced", "tail", "last", "wrotelast"}
       => offset = job.size
  /\ phase = "ok" => offset = job.size
  /\ phase \in {"metadata", "sync", "synced", "ok"} /\ job.sink = "file" => Len(dst) = job.size /\ done.length
  /\ phase \in {"sync", "synced", "ok"} /\ job.sink = "file" => done.metadata
  /\ phase \in {"synced", "ok"} /\ job.sink = "file" => done.synced
  /\ job.sink = "pages" => dst = <<>>

IInv == Types /\ UnderWay /\ Sinks /\ Seen /\ Prefix /\ Whole

---------------------------------------------------------------------------
\* What the assumptions say of a job.
LEMMA JobType ==
  ASSUME Types
  PROVE  /\ job.size \in Nat /\ job.page \in Nat /\ job.page > 0
         /\ job.sink \in {"file", "pages"}
<1>1. job.size \in Sizes /\ job.page \in Pages /\ job.sink \in {"file", "pages"}
  BY DEF Types
<1>2. Sizes \subseteq Nat /\ Pages \subseteq Nat \ {0}
  BY TransferAssumption
<1>3. job.size \in Nat /\ job.page \in Nat \ {0}
  BY <1>1, <1>2
<1>4. QED
  BY <1>1, <1>3

\* A file made of the cells of another, or of positions of the source, is a file.
LEMMA MadeIsFile ==
  ASSUME NEW n \in Nat, NEW f, f \in [1..n -> Int]
  PROVE  f \in Seq(Int) /\ Len(f) = n
OBVIOUS

\* The invariant holds at first, and every action keeps it.
LEMMA InitIInv == Init => IInv
<1> SUFFICES ASSUME Init PROVE IInv
  OBVIOUS
<1>2. PICK len \in 0..MaxOld : (job.sink = "pages" => len = 0) /\ dst = [i \in 1..len |-> Old]
  BY DEF Init
<1>3. MaxOld \in Nat /\ len \in Nat
  BY TransferAssumption, <1>2
<1>4. dst \in [1..len -> Int]
  BY <1>2 DEF Old
<1>5. dst \in Seq(Int) /\ Len(dst) = len
  BY <1>3, <1>4, MadeIsFile
<1>6. Types
  <2>1. job.size \in Nat
    BY TransferAssumption DEF Init
  <2>2. offset \in Nat /\ offset <= job.size
    BY <2>1 DEF Init
  <2>3. got \in [n : Nat, err : {"none", "eof", "fault"}]
    BY DEF Init
  <2>4. done \in [length : BOOLEAN, metadata : BOOLEAN, synced : BOOLEAN]
    BY DEF Init
  <2>5. phase \in Phases /\ canceled \in BOOLEAN /\ fault \in BOOLEAN
    BY DEF Init, Phases
  <2>6. job \in [sink : {"file", "pages"}, size : Sizes, page : Pages]
    BY DEF Init
  <2>7. QED
    BY <1>5, <2>2, <2>3, <2>4, <2>5, <2>6 DEF Types
<1>7. phase = "begin" /\ offset = 0 /\ ~fault
  BY DEF Init
<1>8. UnderWay /\ Sinks /\ Seen
  BY <1>7 DEF UnderWay, Sinks, Seen, ChunkPhases, FilePhases, PagePhases
<1>9. Prefix
  BY <1>2, <1>3, <1>5, <1>7 DEF Prefix, Held
<1>10. Whole
  BY <1>2, <1>3, <1>5, <1>7 DEF Whole
<1>11. QED
  BY <1>6, <1>8, <1>9, <1>10 DEF IInv

LEMMA ChunkType ==
  ASSUME Types
  PROVE  Chunk \in Int /\ Chunk <= job.size - offset
<1>1. job.size \in Nat /\ offset \in Nat /\ Slot \in Nat /\ TransferBuffer \in Nat
  BY JobType, TransferAssumption DEF Types
<1>2. Reserved \in Int
  BY <1>1 DEF Reserved, Least, Most
<1>3. split \in Int
  BY <1>1, <1>2, TransferAssumption DEF split
<1>4. Buffer \in Int
  BY <1>2, <1>3 DEF Buffer
<1>5. QED
  BY <1>1, <1>4 DEF Chunk, Least

USE DEF ChunkPhases, FilePhases, PagePhases, End

LEMMA BeginIInv == IInv /\ Begin => IInv'
<1> SUFFICES ASSUME IInv, Begin PROVE IInv'
  OBVIOUS
<1>1. job.size \in Nat /\ job.sink \in {"file", "pages"} /\ offset \in Nat /\ offset <= job.size
  BY JobType DEF IInv, Types
<1>2. phase = "begin" /\ UNCHANGED <<job, offset, got, dst, done, canceled, fault>>
  BY DEF Begin
<1>3. \/ phase' = "error"
      \/ job.size > 0 /\ phase' = "read"
      \/ job.size = 0 /\ phase' = IF job.sink = "file" THEN "truncate" ELSE "ok"
  BY DEF Begin
<1>4. QED
  BY <1>1, <1>2, <1>3 DEF IInv, Types, Phases, UnderWay, Sinks, Seen, Prefix, Held, Whole

LEMMA ReadIInv == IInv /\ Read => IInv'
<1> SUFFICES ASSUME IInv, Read PROVE IInv'
  OBVIOUS
<1>1. /\ job.size \in Nat /\ job.sink \in {"file", "pages"} /\ offset \in Nat /\ offset < job.size
      /\ Chunk \in Int
  BY JobType, ChunkType DEF IInv, Types, UnderWay, Read
<1>2. /\ phase = "read" /\ phase' = "got"
      /\ UNCHANGED <<job, offset, dst, done, canceled>>
  BY DEF Read
<1>3. PICK n \in 0..Chunk + 1, err \in {"none", "eof", "fault"} :
        got' = [n |-> n, err |-> err] /\ fault' = (fault \/ n # Chunk \/ err = "fault")
  BY DEF Read
<1>4. ~fault
  BY <1>2 DEF IInv, Seen
<1>5. Chunk' = Chunk
  BY <1>2 DEF Chunk, Buffer, Reserved, split
<1>6. fault' \in BOOLEAN /\ (fault' <=> Bad')
  BY <1>3, <1>4, <1>5 DEF Bad
<1>7. got' \in [n : Nat, err : {"none", "eof", "fault"}]
  BY <1>1, <1>3
<1>8. Seen'
  BY <1>1, <1>2, <1>6 DEF Seen
<1>9. Types'
  BY <1>1, <1>2, <1>6, <1>7 DEF IInv, Types, Phases
<1>10. UnderWay' /\ Sinks' /\ Prefix' /\ Whole'
  BY <1>1, <1>2 DEF IInv, UnderWay, Sinks, Prefix, Held, Whole
<1>11. QED
  BY <1>8, <1>9, <1>10 DEF IInv

LEMMA ReadCanceledIInv == IInv /\ ReadCanceled => IInv'
  BY DEF ReadCanceled, IInv, Types, Phases, UnderWay, Sinks, Seen, Prefix, Held, Whole

LEMMA GotIInv == IInv /\ Got => IInv'
<1> SUFFICES ASSUME IInv, Got PROVE IInv'
  OBVIOUS
<1>1. /\ job.size \in Nat /\ job.sink \in {"file", "pages"} /\ offset \in Nat /\ offset < job.size
      /\ Chunk \in Int /\ got.n \in Nat
  BY JobType, ChunkType DEF IInv, Types, UnderWay, Got
<1>2. phase = "got" /\ UNCHANGED <<job, offset, got, dst, done, canceled, fault>>
  BY DEF Got
<1>3. Chunk' = Chunk /\ Bad' = Bad
  BY <1>2 DEF Chunk, Buffer, Reserved, split, Bad
<1>4. \/ phase' = "error"
      \/ got.n <= Chunk /\ phase' = IF job.sink = "file" THEN "write" ELSE "hash"
      \/ got.n = 0 /\ phase' = "advance"
  BY DEF Got
<1>5. QED
  BY <1>1, <1>2, <1>3, <1>4 DEF IInv, Types, Phases, UnderWay, Sinks, Seen, Prefix, Held, Whole
\* Writing the beginning of the chunk lengthens the prefix that holds the source.
LEMMA WrittenPrefix ==
  ASSUME NEW n \in Nat, offset \in Nat, dst \in Seq(Int), offset <= Len(dst),
         \A i \in 1..Len(dst) : dst[i] = i - 1 \/ (dst[i] = Old /\ i > offset)
  PROVE  /\ Written(n) \in Seq(Int)
         /\ offset + n <= Len(Written(n))
         /\ \A i \in 1..Len(Written(n)) :
              Written(n)[i] = i - 1 \/ (Written(n)[i] = Old /\ i > offset + n)
<1> DEFINE m == Most(Len(dst), IF n = 0 THEN 0 ELSE offset + n)
<1>1. Len(dst) \in Nat /\ m \in Nat /\ Len(dst) <= m /\ offset + n <= m
      /\ (m > Len(dst) => m = offset + n)
  BY DEF Most
<1>2. \A i \in 1..Len(dst) : dst[i] \in Int
  OBVIOUS
<1>3. Written(n) \in [1..m -> Int]
  BY <1>1, <1>2 DEF Written, Zero
<1>4. Written(n) \in Seq(Int) /\ Len(Written(n)) = m
  BY <1>1, <1>3, MadeIsFile
<1>5. ASSUME NEW i \in 1..m
      PROVE  Written(n)[i] = i - 1 \/ (Written(n)[i] = Old /\ i > offset + n)
  <2>1. Written(n)[i] = IF offset < i /\ i <= offset + n THEN i - 1
                        ELSE IF i <= Len(dst) THEN dst[i] ELSE Zero
    BY DEF Written
  <2>2. CASE offset < i /\ i <= offset + n
    BY <2>1, <2>2
  <2>3. CASE i <= offset
    BY <1>1, <2>1, <2>3
  <2>4. CASE i > offset + n
    BY <1>1, <2>1, <2>4
  <2>5. QED
    BY <1>1, <2>2, <2>3, <2>4
<1>6. QED
  BY <1>1, <1>4, <1>5

LEMMA WriteIInv == IInv /\ Write => IInv'
<1> SUFFICES ASSUME IInv, Write PROVE IInv'
  OBVIOUS
<1>1. /\ job.size \in Nat /\ job.sink = "file" /\ offset \in Nat /\ offset < job.size
      /\ Chunk \in Int /\ got.n \in Nat /\ dst \in Seq(Int)
  BY JobType, ChunkType DEF IInv, Types, UnderWay, Sinks, Write
<1>2. phase = "write" /\ UNCHANGED <<job, offset, got, done, canceled>>
  BY DEF Write
<1>3. Chunk' = Chunk /\ Bad' = Bad
  BY <1>2 DEF Chunk, Buffer, Reserved, split, Bad
<1>4. PICK n \in 0..got.n, err \in BOOLEAN :
        /\ dst' = Written(n)
        /\ fault' = (fault \/ err \/ n # got.n)
        /\ phase' = IF err \/ n # got.n THEN "error" ELSE "advance"
  BY DEF Write
<1>5. n \in Nat
  BY <1>1
<1>6. /\ dst' \in Seq(Int) /\ offset + n <= Len(dst')
      /\ \A i \in 1..Len(dst') : dst'[i] = i - 1 \/ (dst'[i] = Old /\ i > offset + n)
  BY <1>1, <1>2, <1>4, <1>5, WrittenPrefix DEF IInv, Prefix, Held
<1>7. fault' \in BOOLEAN
  BY <1>4 DEF IInv, Types
<1>8. CASE phase' = "error"
  <2>1. Prefix'
    BY <1>1, <1>2, <1>6, <1>8 DEF Prefix, Held
  <2>2. QED
    BY <1>1, <1>2, <1>6, <1>7, <1>8, <2>1 DEF IInv, Types, Phases, UnderWay, Sinks, Seen, Whole
<1>9. CASE phase' = "advance"
  <2>1. n = got.n /\ (fault' <=> fault)
    BY <1>4, <1>9 DEF IInv, Types
  <2>2. Prefix'
    BY <1>1, <1>2, <1>6, <1>9, <2>1 DEF Prefix, Held
  <2>3. QED
    BY <1>1, <1>2, <1>3, <1>6, <1>7, <1>9, <2>1, <2>2 DEF IInv, Types, Phases, UnderWay, Sinks, Seen, Whole
<1>10. QED
  BY <1>4, <1>8, <1>9
LEMMA AdvanceIInv == IInv /\ Advance => IInv'
<1> SUFFICES ASSUME IInv, Advance PROVE IInv'
  OBVIOUS
<1>1. /\ job.size \in Nat /\ job.sink \in {"file", "pages"} /\ offset \in Nat /\ offset < job.size
      /\ Chunk \in Int /\ Chunk <= job.size - offset /\ got.n \in Nat /\ dst \in Seq(Int)
  BY JobType, ChunkType DEF IInv, Types, UnderWay, Advance
<1>2. phase = "advance" /\ UNCHANGED <<job, got, dst, done, canceled, fault>>
  BY DEF Advance
<1>3. CASE ~Complete
  <2>1. phase' = "error" /\ offset' = offset
    BY <1>3 DEF Advance
  <2>2. QED
    BY <1>1, <1>2, <2>1 DEF IInv, Types, Phases, UnderWay, Sinks, Seen, Prefix, Held, Whole
<1>4. CASE Complete
  <2>1. got.n = Chunk /\ ~fault
    BY <1>2, <1>4 DEF Complete, IInv, Seen, Bad
  <2>2. offset' = offset + got.n
    BY <1>4 DEF Advance
  <2>3. offset' \in Nat /\ offset' <= job.size
    BY <1>1, <2>1, <2>2
  <2>4. \/ phase' = "read" /\ offset' < job.size
        \/ phase' = "error"
        \/ phase' = (IF job.sink = "file" THEN "truncate" ELSE "tail") /\ ~(offset' < job.size)
    BY <1>4 DEF Advance
  <2>5. Prefix'
    BY <1>1, <1>2, <2>2, <2>3, <2>4 DEF IInv, Prefix, Held
  <2>6. QED
    BY <1>1, <1>2, <2>1, <2>3, <2>4, <2>5 DEF IInv, Types, Phases, UnderWay, Sinks, Seen, Whole
<1>5. QED
  BY <1>3, <1>4

\* A prefix that is the whole source makes the truncated file the source.
LEMMA TruncateIInv == IInv /\ Truncate => IInv'
<1> SUFFICES ASSUME IInv, Truncate PROVE IInv'
  OBVIOUS
<1>1. /\ job.size \in Nat /\ job.sink = "file" /\ offset = job.size /\ ~fault
      /\ dst \in Seq(Int) /\ offset <= Len(dst)
      /\ \A i \in 1..Len(dst) : dst[i] = i - 1 \/ (dst[i] = Old /\ i > offset)
  BY JobType DEF IInv, Types, Sinks, Seen, Prefix, Held, Whole, Truncate
<1>2. phase = "truncate" /\ UNCHANGED <<job, offset, got, canceled>>
  BY DEF Truncate
<1>3. CASE phase' = "metadata"
  <2>1. /\ dst' = [i \in 1..job.size |-> IF i <= Len(dst) THEN dst[i] ELSE Zero]
        /\ done' = [done EXCEPT !.length = TRUE] /\ fault' = fault
    BY <1>3 DEF Truncate
  <2>2. dst' \in [1..job.size -> Int]
    BY <1>1, <2>1 DEF Zero
  <2>3. dst' \in Seq(Int) /\ Len(dst') = job.size
    BY <1>1, <2>2, MadeIsFile
  <2>4. \A i \in 1..job.size : dst'[i] = i - 1
    BY <1>1, <2>1
  <2>5. done' \in [length : BOOLEAN, metadata : BOOLEAN, synced : BOOLEAN] /\ done'.length
    BY <2>1 DEF IInv, Types
  <2>6. QED
    BY <1>1, <1>2, <1>3, <2>1, <2>3, <2>4, <2>5
       DEF IInv, Types, Phases, UnderWay, Sinks, Seen, Prefix, Held, Whole
<1>4. CASE phase' = "error"
  <2>1. fault' = TRUE /\ UNCHANGED <<dst, done>>
    BY <1>4 DEF Truncate
  <2>2. QED
    BY <1>1, <1>2, <1>4, <2>1 DEF IInv, Types, Phases, UnderWay, Sinks, Seen, Prefix, Held, Whole
<1>5. QED
  BY <1>3, <1>4 DEF Truncate

LEMMA MetadataIInv == IInv /\ Metadata => IInv'
<1> SUFFICES ASSUME IInv, Metadata PROVE IInv'
  OBVIOUS
<1>1. phase = "metadata" /\ UNCHANGED <<job, offset, got, dst, canceled>>
  BY DEF Metadata
<1>2. CASE phase' = "sync"
  <2>1. done' = [done EXCEPT !.metadata = TRUE] /\ fault' = fault
    BY <1>2 DEF Metadata
  <2>2. done' \in [length : BOOLEAN, metadata : BOOLEAN, synced : BOOLEAN]
        /\ done'.metadata /\ done'.length = done.length
    BY <2>1 DEF IInv, Types
  <2>3. QED
    BY <1>1, <1>2, <2>1, <2>2 DEF IInv, Types, Phases, UnderWay, Sinks, Seen, Prefix, Held, Whole
<1>3. CASE phase' = "error"
  <2>1. done' = done /\ fault' \in BOOLEAN
    BY <1>3 DEF Metadata, IInv, Types
  <2>2. QED
    BY <1>1, <1>3, <2>1 DEF IInv, Types, Phases, UnderWay, Sinks, Seen, Prefix, Held, Whole
<1>4. QED
  BY <1>2, <1>3 DEF Metadata

LEMMA SyncIInv == IInv /\ Sync => IInv'
<1> SUFFICES ASSUME IInv, Sync PROVE IInv'
  OBVIOUS
<1>1. phase = "sync" /\ UNCHANGED <<job, offset, got, dst, canceled>>
  BY DEF Sync
<1>2. CASE phase' = "synced"
  <2>1. done' = [done EXCEPT !.synced = TRUE] /\ fault' = fault
    BY <1>2 DEF Sync
  <2>2. done' \in [length : BOOLEAN, metadata : BOOLEAN, synced : BOOLEAN]
        /\ done'.synced /\ done'.length = done.length /\ done'.metadata = done.metadata
    BY <2>1 DEF IInv, Types
  <2>3. QED
    BY <1>1, <1>2, <2>1, <2>2 DEF IInv, Types, Phases, UnderWay, Sinks, Seen, Prefix, Held, Whole
<1>3. CASE phase' = "error"
  <2>1. done' = done /\ fault' \in BOOLEAN
    BY <1>3 DEF Sync, IInv, Types
  <2>2. QED
    BY <1>1, <1>3, <2>1 DEF IInv, Types, Phases, UnderWay, Sinks, Seen, Prefix, Held, Whole
<1>4. QED
  BY <1>2, <1>3 DEF Sync

LEMMA SyncedIInv == IInv /\ Synced => IInv'
  BY DEF Synced, IInv, Types, Phases, UnderWay, Sinks, Seen, Prefix, Held, Whole

LEMMA CancelIInv == IInv /\ Cancel => IInv'
<1> SUFFICES ASSUME IInv, Cancel PROVE IInv'
  OBVIOUS
<1>1. UNCHANGED <<job, phase, offset, got, dst, done, fault>> /\ canceled' = TRUE
  BY DEF Cancel
<1>2. Chunk' = Chunk /\ Bad' = Bad
  BY <1>1 DEF Chunk, Buffer, Reserved, split, Bad
<1>3. QED
  BY <1>1, <1>2 DEF IInv, Types, Phases, UnderWay, Sinks, Seen, Prefix, Held, Whole

LEMMA StutterIInv == IInv /\ UNCHANGED vars => IInv'
<1> SUFFICES ASSUME IInv, UNCHANGED vars PROVE IInv'
  OBVIOUS
<1>1. UNCHANGED <<job, phase, offset, got, dst, done, canceled, fault>>
  BY DEF vars
<1>2. Chunk' = Chunk /\ Bad' = Bad
  BY <1>1 DEF Chunk, Buffer, Reserved, split, Bad
<1>3. QED
  BY <1>1, <1>2 DEF IInv, Types, Phases, UnderWay, Sinks, Seen, Prefix, Held, Whole
LEMMA HashPageIInv == IInv /\ HashPage => IInv'
<1> SUFFICES ASSUME IInv, HashPage PROVE IInv'
  OBVIOUS
<1>1. /\ job.size \in Nat /\ job.sink = "pages" /\ offset \in Nat /\ offset <= job.size
      /\ got.n \in Nat
  BY JobType DEF IInv, Types, Sinks, HashPage
<1>2. UNCHANGED <<job, offset, got, dst, done, canceled, fault>>
  BY DEF HashPage
<1>3. Chunk' = Chunk /\ Bad' = Bad
  BY <1>2 DEF Chunk, Buffer, Reserved, split, Bad
<1>4. phase = "hash" /\ phase' \in {"hash", "finish", "advance"}
  BY DEF HashPage
<1>5. QED
  BY <1>1, <1>2, <1>3, <1>4 DEF IInv, Types, Phases, UnderWay, Sinks, Seen, Prefix, Held, Whole

LEMMA LastPageIInv == IInv /\ LastPage => IInv'
<1> SUFFICES ASSUME IInv, LastPage PROVE IInv'
  OBVIOUS
<1>1. /\ job.size \in Nat /\ job.sink = "pages" /\ offset \in Nat /\ offset <= job.size
      /\ got.n \in Nat
  BY JobType DEF IInv, Types, Sinks, LastPage
<1>2. UNCHANGED <<job, offset, got, dst, done, canceled, fault>>
  BY DEF LastPage
<1>3. Chunk' = Chunk /\ Bad' = Bad
  BY <1>2 DEF Chunk, Buffer, Reserved, split, Bad
<1>4. phase = "tail" /\ phase' \in {"finish", "last"}
  BY DEF LastPage
<1>5. QED
  BY <1>1, <1>2, <1>3, <1>4 DEF IInv, Types, Phases, UnderWay, Sinks, Seen, Prefix, Held, Whole

LEMMA FinishIInv == IInv /\ Finish => IInv'
<1> SUFFICES ASSUME IInv, Finish PROVE IInv'
  OBVIOUS
<1>1. /\ job.size \in Nat /\ job.sink = "pages" /\ offset \in Nat /\ offset <= job.size
      /\ got.n \in Nat
  BY JobType DEF IInv, Types, Sinks, Finish
<1>2. UNCHANGED <<job, offset, got, dst, done, canceled, fault>>
  BY DEF Finish
<1>3. Chunk' = Chunk /\ Bad' = Bad
  BY <1>2 DEF Chunk, Buffer, Reserved, split, Bad
<1>4. phase = "finish" /\ \/ phase' \in {"error", "flush"}
                          \/ phase' = IF offset = job.size THEN "last" ELSE "hash"
  BY DEF Finish, InTail
<1>5. QED
  BY <1>1, <1>2, <1>3, <1>4 DEF IInv, Types, Phases, UnderWay, Sinks, Seen, Prefix, Held, Whole

LEMMA WroteIInv == IInv /\ Wrote => IInv'
<1> SUFFICES ASSUME IInv, Wrote PROVE IInv'
  OBVIOUS
<1>1. /\ job.size \in Nat /\ job.sink = "pages" /\ offset \in Nat /\ offset <= job.size
      /\ got.n \in Nat
  BY JobType DEF IInv, Types, Sinks, Wrote
<1>2. UNCHANGED <<job, offset, got, dst, done, canceled, fault>>
  BY DEF Wrote
<1>3. Chunk' = Chunk /\ Bad' = Bad
  BY <1>2 DEF Chunk, Buffer, Reserved, split, Bad
<1>4. \/ phase \in {"wrote", "wrotelast"} /\ phase' = "error"
      \/ phase = "wrotelast" /\ phase' = "ok"
      \/ phase = "wrote" /\ phase' = IF offset = job.size THEN "last" ELSE "hash"
  BY DEF Wrote, AfterFlush, InTail
<1>5. QED
  BY <1>1, <1>2, <1>3, <1>4 DEF IInv, Types, Phases, UnderWay, Sinks, Seen, Prefix, Held, Whole

LEMMA FlushIInv == IInv /\ Flush => IInv'
<1> SUFFICES ASSUME IInv, Flush PROVE IInv'
  OBVIOUS
<1>1. /\ job.size \in Nat /\ job.sink = "pages" /\ offset \in Nat /\ offset <= job.size
      /\ got.n \in Nat /\ fault \in BOOLEAN
  BY JobType DEF IInv, Types, Sinks, Flush
<1>2. phase \in {"flush", "last"} /\ UNCHANGED <<job, offset, got, dst, done, canceled>>
  BY DEF Flush
<1>3. Chunk' = Chunk /\ Bad' = Bad
  BY <1>2 DEF Chunk, Buffer, Reserved, split, Bad
<1>4. CASE canceled \/ batch.sums = <<>>
  <2>1. /\ fault' = fault
        /\ \/ phase' = "error"
           \/ phase = "last" /\ phase' = "ok"
           \/ phase = "flush" /\ phase' = IF offset = job.size THEN "last" ELSE "hash"
    BY <1>2, <1>4 DEF Flush, AfterFlush, InTail
  <2>2. QED
    BY <1>1, <1>2, <1>3, <2>1 DEF IInv, Types, Phases, UnderWay, Sinks, Seen, Prefix, Held, Whole
<1>5. CASE ~canceled /\ batch.sums # <<>>
  <2>1. PICK n \in 0..Len(batch.sums), err \in BOOLEAN :
          /\ fault' = (fault \/ err \/ n # Len(batch.sums))
          /\ phase' = IF err \/ n # Len(batch.sums) THEN "error"
                      ELSE IF phase = "last" THEN "wrotelast" ELSE "wrote"
    BY <1>5 DEF Flush
  <2>2. fault' \in BOOLEAN /\ (phase' # "error" => (fault' <=> fault))
        /\ phase' \in {"error", IF phase = "last" THEN "wrotelast" ELSE "wrote"}
    BY <1>1, <2>1
  <2>3. QED
    BY <1>1, <1>2, <1>3, <2>2 DEF IInv, Types, Phases, UnderWay, Sinks, Seen, Prefix, Held, Whole
<1>6. QED
  BY <1>4, <1>5

LEMMA StepIInv == IInv /\ [Next]_vars => IInv'
<1> SUFFICES ASSUME IInv, [Next]_vars PROVE IInv'
  OBVIOUS
<1>1. CASE Work
  BY <1>1, BeginIInv, ReadIInv, ReadCanceledIInv, GotIInv, WriteIInv, AdvanceIInv, TruncateIInv,
     MetadataIInv, SyncIInv, SyncedIInv, HashPageIInv, LastPageIInv, FinishIInv, FlushIInv, WroteIInv
     DEF Work
<1>2. CASE Cancel
  BY <1>2, CancelIInv
<1>3. CASE Finished \/ UNCHANGED vars
  BY <1>3, StutterIInv DEF Finished
<1>4. QED
  BY <1>1, <1>2, <1>3 DEF Next

\* The invariant of both destinations: what the file holds while it is written and
\* where a failed call is remembered (transferOutputBuffer, transfer.go:65-98).
THEOREM Invariance == Spec => []IInv
  BY InitIInv, StepIInv, PTL DEF Spec
\* A file that is written in place holds the source up to the offset and its old
\* contents beyond what was written, at every moment and whatever fails
\* (transferOutputBuffer, transfer.go:78-95).
THEOREM InPlaceHolds == Spec => []InPlace
<1>1. IInv => InPlace
  <2> SUFFICES ASSUME IInv, NEW i \in 1..Len(dst)
               PROVE  dst[i] = i - 1 \/ (dst[i] = Old /\ i > offset)
    BY DEF InPlace
  <2>1. /\ offset \in Nat /\ got.n \in Nat /\ job.sink \in {"file", "pages"}
        /\ dst \in Seq(Int) /\ (job.sink = "pages" => dst = <<>>)
    BY JobType DEF IInv, Types, Whole
  <2>2. job.sink = "file"
    BY <2>1
  <2>3. dst[i] = i - 1 \/ (dst[i] = Old /\ i > Held)
    BY <2>2 DEF IInv, Prefix
  <2>4. Held \in Nat /\ Held >= offset
    BY <2>1 DEF Held
  <2>5. QED
    BY <2>1, <2>3, <2>4
<1>2. QED
  BY <1>1, Invariance, PTL

\* A reader error never permits truncation or commit: a file is shortened, given its
\* metadata or synced only when no call has failed and all of the source is in it
\* (transferOutputBuffer's error before Truncate, transfer.go:41-43, 66-98, 120-137).
THEOREM CommittedWhenWholeHolds == Spec => CommittedWhenWhole
<1>1. ASSUME IInv, [Next]_vars, Len(dst') < Len(dst) \/ done' # done
      PROVE  ~fault /\ \A i \in 1..job.size : i \in DOMAIN dst /\ dst[i] = i - 1
  <2>1. dst \in Seq(Int) /\ Len(dst) \in Nat
    BY <1>1 DEF IInv, Types
  <2>2. Truncate \/ Metadata \/ Sync \/ Write
    <3>1. ASSUME UNCHANGED <<dst, done>> PROVE FALSE
      BY <1>1, <2>1, <3>1
    <3>2. QED
      BY <1>1, <3>1 DEF Next, Work, Begin, Read, ReadCanceled, Got, Advance, Synced, HashPage,
         LastPage, Finish, Flush, Wrote, Cancel, Finished, vars
  <2>3. ~Write
    <3>1. SUFFICES ASSUME Write PROVE FALSE
      OBVIOUS
    <3>2. PICK n \in 0..got.n : dst' = Written(n)
      BY <3>1 DEF Write
    <3>3. DEFINE m == Most(Len(dst), IF n = 0 THEN 0 ELSE offset + n)
    <3>4. /\ offset \in Nat /\ got.n \in Nat /\ job.sink = "file"
      BY <1>1, <3>1 DEF IInv, Types, Sinks, Write
    <3>5. m \in Nat /\ m >= Len(dst)
      BY <2>1, <3>4 DEF Most
    <3>6. n \in Nat /\ offset <= Len(dst)
      BY <1>1, <3>1, <3>4 DEF IInv, Prefix, Held, Write
    <3>7. dst' \in Seq(Int) /\ offset + n <= Len(dst')
      BY <1>1, <2>1, <3>1, <3>2, <3>4, <3>6, WrittenPrefix DEF IInv, Prefix, Held, Write
    <3>8. DOMAIN dst' = 1..m
      BY <3>2 DEF Written
    <3>9. Len(dst') = m
      BY <3>5, <3>7, <3>8
    <3>10. done' = done
      BY <3>1 DEF Write
    <3>11. QED
      BY <1>1, <2>1, <3>5, <3>9, <3>10
  <2>4. /\ ~fault /\ offset = job.size /\ job.sink = "file"
        /\ phase \in {"truncate", "metadata", "sync"}
    BY <1>1, <2>2, <2>3 DEF Truncate, Metadata, Sync, IInv, Seen, Whole, Sinks
  <2>5. offset \in Nat /\ Held = offset
    BY <1>1, <2>4 DEF IInv, Types, Held
  <2>6. /\ offset <= Len(dst)
        /\ \A i \in 1..Len(dst) : dst[i] = i - 1 \/ (dst[i] = Old /\ i > offset)
    BY <1>1, <2>4, <2>5 DEF IInv, Prefix
  <2>7. QED
    BY <2>1, <2>4, <2>5, <2>6
<1>2. IInv /\ [Next]_vars
        => [Len(dst') < Len(dst) \/ done' # done
              => ~fault /\ \A i \in 1..job.size : i \in DOMAIN dst /\ dst[i] = i - 1]_vars
  BY <1>1
<1>3. QED
  BY <1>2, Invariance, PTL DEF Spec, CommittedWhenWhole
---------------------------------------------------------------------------
(* Pages *)

\* The cells of the source from position a.
Run(a, n) == [i \in 1..n |-> a + i - 1]

Count == batch.at + Len(batch.sums)
Capacity == (Reserved \div 2) \div Slot

HashTypes ==
  /\ hasher \in [remaining : Nat, pending : Seq(Int), total : Nat]
  /\ batch \in [at : Nat, sums : Seq(Seq(Int))]
  /\ section \in Seq(Seq(Int)) /\ Len(section) = PageCount(job)
  /\ hasher.remaining <= job.page
  /\ phase # "finish" => hasher.remaining > 0

\* Every digest in the batch or in the section is that of its page.
Digests ==
  /\ \A k \in 1..Len(batch.sums) : batch.sums[k] = PageOf(batch.at + k)
  /\ \A k \in 1..batch.at : section[k] = PageOf(k)
  /\ phase \in {"wrote", "wrotelast"} =>
       \A k \in 1..Len(batch.sums) : section[batch.at + k] = batch.sums[k]
  /\ Count <= PageCount(job)

\* After the last page nothing is hashed; before, the hash holds the beginning of
\* the page that follows the digests.
Closed == offset = job.size /\ phase \in {"flush", "wrote", "last", "wrotelast", "ok"}
Hashing ==
  IF Closed THEN Count = PageCount(job)
  ELSE /\ hasher.total = Count * job.page + (job.page - hasher.remaining)
       /\ hasher.pending = Run(Count * job.page, job.page - hasher.remaining)
       /\ hasher.total <= job.size

\* What was hashed of the chunk.
Within ==
  /\ phase \in {"begin", "read", "got", "tail"} => hasher.total = offset
  /\ phase = "advance" => hasher.total = offset + got.n
  /\ phase \in {"hash", "finish", "flush", "wrote"} /\ offset < job.size
       => offset <= hasher.total /\ hasher.total <= offset + got.n
  /\ phase = "finish" /\ offset < job.size => hasher.remaining = 0
  /\ phase = "finish" /\ offset = job.size
       => hasher.total = job.size /\ 0 < hasher.remaining /\ hasher.remaining < job.page

\* There is room for the next digest, and no digest is left at the end.
Room ==
  /\ phase \notin {"flush", "wrote", "wrotelast"} => Len(batch.sums) < Capacity
  /\ phase \in {"begin", "ok"} => batch.sums = <<>>

PInv == job.sink = "pages" /\ phase # "error" => HashTypes /\ Digests /\ Hashing /\ Within /\ Room

\* A failure has a reason.
Caused == phase = "error" => fault \/ canceled

AInv == IInv /\ PInv /\ Caused

\* A run of cells is a sequence.
LEMMA RunIsSeq ==
  ASSUME NEW a \in Nat, NEW n \in Nat
  PROVE  Run(a, n) \in Seq(Int) /\ Len(Run(a, n)) = n /\ DOMAIN Run(a, n) = 1..n
         /\ \A i \in 1..n : Run(a, n)[i] = a + i - 1
<1>1. Run(a, n) \in [1..n -> Int]
  BY DEF Run
<1>2. QED
  BY <1>1 DEF Run

\* A concatenation, by its elements.
LEMMA ConcatByElements ==
  ASSUME NEW s \in Seq(Int), NEW t \in Seq(Int), NEW u \in Seq(Int),
         Len(u) = Len(s) + Len(t),
         \A i \in 1..Len(s) : u[i] = s[i],
         \A i \in 1..Len(t) : u[Len(s) + i] = t[i]
  PROVE  s \o t = u
<1>1. Len(s) \in Nat /\ Len(t) \in Nat
  OBVIOUS
<1>2. s \o t \in Seq(Int) /\ Len(s \o t) = Len(s) + Len(t)
      /\ \A i \in 1..Len(s) + Len(t) : (s \o t)[i] = IF i <= Len(s) THEN s[i] ELSE t[i - Len(s)]
  BY ConcatProperties
<1>3. ASSUME NEW i \in 1..Len(s) + Len(t) PROVE (s \o t)[i] = u[i]
  <2>1. CASE i <= Len(s)
    BY <1>1, <1>2, <2>1
  <2>2. CASE i > Len(s)
    <3>1. i - Len(s) \in 1..Len(t) /\ Len(s) + (i - Len(s)) = i
      BY <1>1, <2>2
    <3>2. u[i] = t[i - Len(s)]
      BY <3>1
    <3>3. QED
      BY <1>1, <1>2, <2>2, <3>2
  <2>3. QED
    BY <1>1, <2>1, <2>2
<1>4. QED
  BY <1>2, <1>3, SeqEqual

\* Runs that meet are one run.
LEMMA RunConcat ==
  ASSUME NEW a \in Nat, NEW m \in Nat, NEW n \in Nat
  PROVE  Run(a, m) \o Run(a + m, n) = Run(a, m + n)
<1>1. /\ Run(a, m) \in Seq(Int) /\ Len(Run(a, m)) = m /\ \A i \in 1..m : Run(a, m)[i] = a + i - 1
  BY RunIsSeq
<1>2. a + m \in Nat /\ m + n \in Nat
  OBVIOUS
<1>3. /\ Run(a + m, n) \in Seq(Int) /\ Len(Run(a + m, n)) = n
      /\ \A i \in 1..n : Run(a + m, n)[i] = a + m + i - 1
  BY <1>2, RunIsSeq
<1>4. /\ Run(a, m + n) \in Seq(Int) /\ Len(Run(a, m + n)) = m + n
      /\ \A i \in 1..m + n : Run(a, m + n)[i] = a + i - 1
  BY <1>2, RunIsSeq
<1>5. \A i \in 1..m : Run(a, m + n)[i] = Run(a, m)[i]
  BY <1>1, <1>4
<1>6. \A i \in 1..n : Run(a, m + n)[m + i] = Run(a + m, n)[i]
  BY <1>3, <1>4
<1>7. \A i \in 1..Len(Run(a, m)) : Run(a, m + n)[i] = Run(a, m)[i]
  BY <1>1, <1>5
<1>8. \A i \in 1..Len(Run(a + m, n)) : Run(a, m + n)[Len(Run(a, m)) + i] = Run(a + m, n)[i]
  BY <1>1, <1>3, <1>6
<1>9. Len(Run(a, m + n)) = Len(Run(a, m)) + Len(Run(a + m, n))
  BY <1>1, <1>3, <1>4
<1>10. Run(a, m) \in Seq(Int) /\ Run(a + m, n) \in Seq(Int) /\ Run(a, m + n) \in Seq(Int)
  BY <1>1, <1>3, <1>4
<1>11. QED
  BY <1>7, <1>8, <1>9, <1>10, ConcatByElements

\* The position of the next page.
LEMMA NextPage ==
  ASSUME NEW a \in Nat, NEW b \in Nat
  PROVE  a * b \in Nat /\ (a + 1) * b = a * b + b
OBVIOUS

\* Pages come in order.
LEMMA PagesGrow ==
  ASSUME NEW a \in Nat, NEW b \in Nat, NEW c \in Nat, a <= b
  PROVE  a * c <= b * c
OBVIOUS

\* Dividing whole pages, rounded up.
LEMMA EvenCount ==
  ASSUME NEW c \in Nat, NEW p \in Nat \ {0}
  PROVE  (c * p + p - 1) \div p = c
OBVIOUS
\* Dividing whole pages and a part of one.
LEMMA LastCount ==
  ASSUME NEW c \in Nat, NEW p \in Nat \ {0}, NEW r \in 0..p-1
  PROVE  (c * p + r) \div p = c
OBVIOUS
\* Half of a buffer of two digests holds one.
LEMMA Halves ==
  ASSUME NEW r \in Nat, NEW s \in Nat \ {0}, r >= 2 * s
  PROVE  (r \div 2) \div s \in Nat /\ (r \div 2) \div s >= 1 /\ (((r \div 2) \div s) * s) + s <= r
<1>1. r \div 2 \in Nat /\ r \div 2 >= s /\ 2 * (r \div 2) <= r
  OBVIOUS
<1> DEFINE h == r \div 2
<1> HIDE DEF h
<1>2. \A x \in Nat : x >= s => x \div s \in Nat /\ x \div s >= 1 /\ (x \div s) * s <= x
  OBVIOUS
<1>3. QED
  BY <1>1, <1>2
LEMMA PageFacts ==
  ASSUME IInv, PInv, job.sink = "pages", phase # "error"
  PROVE  /\ job.size \in Nat /\ job.page \in Nat \ {0} /\ offset \in Nat /\ offset <= job.size
         /\ got.n \in Nat
         /\ batch.at \in Nat /\ batch.sums \in Seq(Seq(Int)) /\ Len(batch.sums) \in Nat
         /\ Count \in Nat /\ Count * job.page \in Nat
         /\ hasher.remaining \in Nat /\ hasher.pending \in Seq(Int) /\ hasher.total \in Nat
         /\ hasher.remaining <= job.page
<1>1. job.size \in Nat /\ job.page \in Nat \ {0} /\ offset \in Nat /\ offset <= job.size /\ got.n \in Nat
  BY JobType DEF IInv, Types
<1>2. HashTypes
  BY DEF PInv
<1>3. batch.at \in Nat /\ batch.sums \in Seq(Seq(Int)) /\ Len(batch.sums) \in Nat
  BY <1>2 DEF HashTypes
<1>4. Count \in Nat
  BY <1>3 DEF Count
<1>5. Count * job.page \in Nat
  BY <1>1, <1>4, NextPage
<1>6. QED
  BY <1>1, <1>2, <1>3, <1>4, <1>5 DEF HashTypes

\* Two halves of whole digests: the batch has room for at least one.
LEMMA CapacityFacts ==
  ASSUME IInv, job.sink = "pages"
  PROVE  Capacity \in Nat /\ Capacity >= 1 /\ split = Capacity * Slot
<1>1. job.size \in Nat /\ Slot \in Nat \ {0} /\ TransferBuffer \in Nat /\ TransferBuffer >= 2 * Slot
  BY JobType, TransferAssumption DEF IInv
<1>2. Reserved \in Nat /\ Reserved >= 2 * Slot
  BY <1>1 DEF Reserved, Least, Most
<1>3. QED
  BY <1>1, <1>2, Halves DEF Capacity, split

\* The number of the pages of a source that ends with a page.
LEMMA EvenEnd ==
  ASSUME IInv, PInv, job.sink = "pages", phase # "error", Count * job.page = job.size
  PROVE  PageCount(job) = Count
<1>1. job.page \in Nat \ {0} /\ Count \in Nat
  BY PageFacts
<1>2. (Count * job.page + job.page - 1) \div job.page = Count
  BY <1>1, EvenCount
<1>3. QED
  BY <1>2 DEF PageCount

\* Steps that neither hash nor write.
LEMMA QuietPInv ==
  ASSUME IInv, PInv, job.sink = "pages", phase # "error", UNCHANGED <<job, hasher, batch, section>>,
         phase' \notin {"error", "finish", "wrote", "wrotelast", "flush", "begin"},
         phase' = "ok" => phase = "begin",
         phase \notin {"finish", "wrote", "wrotelast", "flush"}, Within', Hashing'
  PROVE  PInv'
<1>1. Count' = Count /\ Capacity' = Capacity /\ PageCount(job)' = PageCount(job)
  BY DEF Count, Capacity, Reserved, PageCount
<1>2. \A k : PageOf(k)' = PageOf(k)
  BY DEF PageOf
<1>3. HashTypes'
  BY <1>1 DEF PInv, HashTypes
<1>4. Digests'
  BY <1>1, <1>2 DEF PInv, Digests
<1>5. Room'
  BY <1>1 DEF PInv, Room
<1>6. QED
  BY <1>3, <1>4, <1>5 DEF PInv
LEMMA BeginPInv ==
  ASSUME IInv, PInv, job.sink = "pages", Begin
  PROVE  PInv'
<1>1. phase = "begin" /\ UNCHANGED <<job, offset, got, hasher, batch, section>>
  BY DEF Begin
<1>2. /\ job.size \in Nat /\ job.page \in Nat \ {0} /\ Count \in Nat /\ Count * job.page \in Nat
      /\ hasher.remaining \in Nat /\ hasher.remaining <= job.page
  BY <1>1, PageFacts
<1>3. ~Closed /\ hasher.total = offset /\ offset = 0
  BY <1>1 DEF IInv, Whole, PInv, Within, Closed
<1>4. hasher.total = Count * job.page + (job.page - hasher.remaining)
      /\ hasher.pending = Run(Count * job.page, job.page - hasher.remaining)
  BY <1>1, <1>3 DEF PInv, Hashing
<1>5. Count' = Count /\ PageCount(job)' = PageCount(job)
  BY <1>1 DEF Count, PageCount
<1>6. CASE phase' = "error"
  BY <1>6 DEF PInv
<1>7. CASE phase' = "read"
  <2>1. Within'
    BY <1>1, <1>3, <1>7 DEF Within
  <2>2. Hashing'
    BY <1>1, <1>3, <1>5, <1>7 DEF PInv, Hashing, Closed
  <2>3. QED
    BY <1>1, <1>7, <2>1, <2>2, QuietPInv
<1>8. CASE phase' = "ok" /\ job.size = 0
  <2>1. Within'
    BY <1>1, <1>8 DEF Within
  <2>2. Count * job.page = job.size
    BY <1>2, <1>3, <1>4, <1>8
  <2>3. PageCount(job) = Count
    BY <1>1, <2>2, EvenEnd
  <2>4. Hashing'
    BY <1>1, <1>2, <1>3, <1>5, <1>8, <2>3 DEF Hashing, Closed
  <2>5. QED
    BY <1>1, <1>8, <2>1, <2>4, QuietPInv
<1>9. QED
  BY <1>6, <1>7, <1>8 DEF Begin

LEMMA ReadPInv ==
  ASSUME IInv, PInv, job.sink = "pages", Read
  PROVE  PInv'
<1>1. phase = "read" /\ phase' = "got" /\ UNCHANGED <<job, offset, hasher, batch, section>>
  BY DEF Read
<1>2. Count' = Count
  BY <1>1 DEF Count
<1>3. Within'
  BY <1>1 DEF PInv, Within
<1>4. Hashing'
  BY <1>1, <1>2 DEF PInv, Hashing, Closed
<1>5. QED
  BY <1>1, <1>3, <1>4, QuietPInv

LEMMA GotPInv ==
  ASSUME IInv, PInv, job.sink = "pages", Got
  PROVE  PInv'
<1>1. phase = "got" /\ UNCHANGED <<job, offset, got, hasher, batch, section>>
  BY DEF Got
<1>2. /\ offset \in Nat /\ got.n \in Nat /\ offset < job.size
  BY <1>1, PageFacts DEF IInv, UnderWay
<1>3. Count' = Count /\ hasher.total = offset
  BY <1>1 DEF Count, PInv, Within
<1>4. phase' = "error" \/ phase' = "hash" \/ (phase' = "advance" /\ got.n = 0)
  BY DEF Got
<1>5. CASE phase' = "error"
  BY <1>5 DEF PInv
<1>6. CASE phase' = "hash" \/ (phase' = "advance" /\ got.n = 0)
  <2>1. Within'
    BY <1>1, <1>2, <1>3, <1>6 DEF Within
  <2>2. Hashing'
    BY <1>1, <1>3, <1>6 DEF PInv, Hashing, Closed
  <2>3. QED
    BY <1>1, <1>6, <2>1, <2>2, QuietPInv
<1>7. QED
  BY <1>4, <1>5, <1>6

LEMMA AdvancePInv ==
  ASSUME IInv, PInv, job.sink = "pages", Advance
  PROVE  PInv'
<1>1. phase = "advance" /\ UNCHANGED <<job, got, hasher, batch, section>>
  BY DEF Advance
<1>2. Count' = Count /\ hasher.total = offset + got.n
  BY <1>1 DEF Count, PInv, Within
<1>3. CASE phase' = "error"
  BY <1>3 DEF PInv
<1>4. CASE phase' # "error"
  <2>1. offset' = offset + got.n /\ phase' \in {"read", "tail"}
    BY <1>4 DEF Advance
  <2>2. Within'
    BY <1>1, <1>2, <2>1 DEF Within
  <2>3. Hashing'
    BY <1>1, <1>2, <2>1 DEF PInv, Hashing, Closed
  <2>4. QED
    BY <1>1, <2>1, <2>2, <2>3, QuietPInv
<1>5. QED
  BY <1>3, <1>4

LEMMA LastPagePInv ==
  ASSUME IInv, PInv, job.sink = "pages", LastPage
  PROVE  PInv'
<1>1. phase = "tail" /\ UNCHANGED <<job, offset, got, hasher, batch, section>>
  BY DEF LastPage
<1>2. /\ job.size \in Nat /\ job.page \in Nat \ {0} /\ Count \in Nat /\ Count * job.page \in Nat
      /\ hasher.remaining \in Nat /\ hasher.remaining <= job.page
  BY <1>1, PageFacts
<1>3. hasher.total = job.size /\ offset = job.size
  BY <1>1 DEF IInv, Whole, PInv, Within
<1>4. hasher.total = Count * job.page + (job.page - hasher.remaining)
      /\ hasher.pending = Run(Count * job.page, job.page - hasher.remaining)
  BY <1>1 DEF PInv, Hashing, Closed
<1>5. /\ Count' = Count /\ Capacity' = Capacity /\ PageCount(job)' = PageCount(job)
  BY <1>1 DEF Count, Capacity, Reserved, PageCount
<1>6. CASE hasher.remaining # job.page
  <2>1. phase' = "finish"
    BY <1>6 DEF LastPage
  <2>2. hasher.remaining > 0
    BY <1>1, <1>2 DEF PInv, HashTypes
  <2>3. Within'
    BY <1>1, <1>2, <1>3, <1>6, <2>1, <2>2 DEF Within
  <2>4. Hashing'
    BY <1>1, <1>3, <1>4, <1>5, <2>1 DEF PInv, Hashing, Closed
  <2>5. \A k : PageOf(k)' = PageOf(k)
    BY <1>1 DEF PageOf
  <2>6. HashTypes' /\ Digests' /\ Room'
    BY <1>1, <1>5, <2>1, <2>5 DEF PInv, HashTypes, Digests, Room
  <2>7. QED
    BY <2>3, <2>4, <2>6 DEF PInv
<1>7. CASE hasher.remaining = job.page
  <2>1. phase' = "last"
    BY <1>7 DEF LastPage
  <2>2. Count * job.page = job.size
    BY <1>2, <1>3, <1>4, <1>7
  <2>3. PageCount(job) = Count
    BY <1>1, <2>2, EvenEnd
  <2>4. Hashing' /\ Within'
    BY <1>1, <1>3, <1>5, <2>1, <2>3 DEF Hashing, Closed, Within
  <2>5. QED
    BY <1>1, <2>1, <2>4, QuietPInv
<1>8. QED
  BY <1>6, <1>7
\* An empty run.
LEMMA RunEmpty ==
  ASSUME NEW a PROVE Run(a, 0) = <<>>
<1>1. Run(a, 0) = [i \in {} |-> a + i - 1]
  BY DEF Run
<1>2. 1..0 = {}
  OBVIOUS
<1>3. QED
  BY <1>1, <1>2 DEF Run

\* Pages within the source are counted.
LEMMA AtLeast ==
  ASSUME NEW k \in Nat, NEW p \in Nat \ {0}, NEW n \in Nat, k * p <= n
  PROVE  k <= (n + p - 1) \div p
OBVIOUS

LEMMA HashPagePInv ==
  ASSUME IInv, PInv, job.sink = "pages", HashPage
  PROVE  PInv'
<1>1. phase = "hash" /\ UNCHANGED <<job, offset, got, batch, section>>
  BY DEF HashPage
<1>2. /\ job.size \in Nat /\ job.page \in Nat \ {0} /\ offset \in Nat /\ got.n \in Nat
      /\ Count \in Nat /\ Count * job.page \in Nat
      /\ hasher.remaining \in Nat /\ hasher.remaining <= job.page /\ hasher.remaining > 0
      /\ hasher.pending \in Seq(Int) /\ hasher.total \in Nat
  BY <1>1, PageFacts DEF PInv, HashTypes
<1>3. /\ offset < job.size /\ offset + got.n <= job.size
      /\ offset <= hasher.total /\ hasher.total <= offset + got.n
  <2>1. got.n <= Chunk /\ offset < job.size
    BY <1>1 DEF IInv, UnderWay
  <2>2. Chunk \in Int /\ Chunk <= job.size - offset
    BY ChunkType DEF IInv
  <2>3. QED
    BY <1>1, <1>2, <2>1, <2>2 DEF PInv, Within
<1>4. /\ hasher.total = Count * job.page + (job.page - hasher.remaining)
      /\ hasher.pending = Run(Count * job.page, job.page - hasher.remaining)
  BY <1>1 DEF PInv, Hashing, Closed
<1>5. /\ Count' = Count /\ Capacity' = Capacity /\ PageCount(job)' = PageCount(job)
  BY <1>1 DEF Count, Capacity, Reserved, PageCount
<1>6. CASE Hashed = got.n
  <2>1. phase' = "advance" /\ hasher' = hasher
    BY <1>6 DEF HashPage
  <2>2. Within'
    BY <1>1, <1>2, <1>6, <2>1 DEF Within, Hashed
  <2>3. Hashing'
    BY <1>1, <1>5, <2>1 DEF PInv, Hashing, Closed
  <2>4. QED
    BY <1>1, <2>1, <2>2, <2>3, QuietPInv
<1>7. CASE Hashed # got.n
  <2> DEFINE n == Portion
             m == job.page - hasher.remaining
             a == Count * job.page
  <2>1. /\ a \in Nat /\ hasher.total = a + m /\ hasher.pending = Run(a, m)
    BY <1>2, <1>4
  <2> HIDE DEF a
  <2>2. /\ job.page \in Nat /\ offset \in Nat /\ got.n \in Nat /\ hasher.remaining \in Nat
        /\ hasher.remaining <= job.page /\ hasher.total \in Nat /\ hasher.total <= offset + got.n
    BY <1>2, <1>3
  <2>3. /\ n \in Nat /\ n <= hasher.remaining /\ hasher.total + n <= offset + got.n
        /\ m \in Nat
    BY <2>2 DEF Portion, Hashed, Least
  <2>4. /\ hasher' = [hasher EXCEPT
                !.pending = @ \o [k \in 1..n |-> offset + Hashed + k - 1],
                !.remaining = @ - n, !.total = @ + n]
        /\ phase' = IF hasher.remaining = n THEN "finish" ELSE "hash"
    BY <1>7 DEF HashPage
  <2> HIDE DEF n, m
  <2>5. /\ hasher'.pending = hasher.pending \o [k \in 1..n |-> offset + Hashed + k - 1]
        /\ hasher'.remaining = hasher.remaining - n
        /\ hasher'.total = hasher.total + n
        /\ DOMAIN hasher' = {"remaining", "pending", "total"}
        /\ hasher' = [remaining |-> hasher'.remaining, pending |-> hasher'.pending, total |-> hasher'.total]
    BY <1>1, <2>4 DEF PInv, HashTypes
  <2>6. offset + Hashed = a + m
    BY <2>1, <2>2 DEF Hashed
  <2>7. [k \in 1..n |-> offset + Hashed + k - 1] = Run(a + m, n)
    BY <2>6 DEF Run
  <2>8. hasher'.pending = Run(a, m + n)
    <3>1. Run(a, m) \o Run(a + m, n) = Run(a, m + n)
      BY <2>1, <2>3, RunConcat
    <3>2. hasher'.pending = Run(a, m) \o Run(a + m, n)
      BY <2>1, <2>5, <2>7
    <3>3. QED
      BY <3>1, <3>2
  <2>9. m + n = job.page - hasher'.remaining /\ m + n \in Nat
    <3>1. hasher'.remaining = hasher.remaining - n
      BY <2>5
    <3>2. m = job.page - hasher.remaining
      BY DEF m
    <3>3. m + n = job.page - (hasher.remaining - n) /\ m + n \in Nat
      BY <2>2, <2>3, <3>2
    <3>4. QED
      BY <3>1, <3>3
  <2>10. hasher'.pending \in Seq(Int)
    BY <2>1, <2>8, <2>9, RunIsSeq
  <2>11. hasher'.remaining \in Nat /\ hasher'.total \in Nat /\ hasher'.remaining <= job.page
        /\ (phase' # "finish" => hasher'.remaining > 0)
        /\ (phase' = "finish" => hasher'.remaining = 0)
    BY <2>2, <2>3, <2>4, <2>5
  <2>12. hasher' \in [remaining : Nat, pending : Seq(Int), total : Nat]
    BY <2>5, <2>10, <2>11
  <2>13. HashTypes'
    BY <1>1, <1>5, <2>11, <2>12 DEF PInv, HashTypes
  <2>14. \A k : PageOf(k)' = PageOf(k)
    BY <1>1 DEF PageOf
  <2>15. Digests' /\ Room'
    BY <1>1, <1>5, <2>4, <2>14 DEF PInv, Digests, Room
  <2>16. hasher'.total = a + (job.page - hasher'.remaining) /\ hasher'.total <= job.size
    <3>1. hasher'.total = a + (m + n)
      BY <2>1, <2>3, <2>5, <2>2
    <3>2. offset + got.n \in Nat /\ job.size \in Nat /\ offset + got.n <= job.size
      BY <1>3, <2>2, JobType DEF IInv
    <3>3. hasher'.total <= job.size
      BY <2>3, <2>5, <2>2, <3>2
    <3>4. QED
      BY <2>9, <3>1, <3>3
  <2>17. hasher'.pending = Run(a, job.page - hasher'.remaining)
    BY <2>8, <2>9
  <2>18. a' = a
    BY <1>1, <1>5 DEF a
  <2>19. Hashing'
    <3>1. ~Closed'
      BY <1>1, <1>3, <2>4 DEF Closed
    <3>2. hasher'.total = a' + (job'.page - hasher'.remaining)
          /\ hasher'.pending = Run(a', job'.page - hasher'.remaining)
          /\ hasher'.total <= job'.size
      BY <1>1, <2>16, <2>17, <2>18
    <3>3. QED
      BY <3>1, <3>2 DEF Hashing, a
  <2>20. Within'
    BY <1>1, <1>3, <2>2, <2>3, <2>4, <2>5, <2>11 DEF Within
  <2>21. QED
    BY <2>13, <2>15, <2>19, <2>20 DEF PInv
<1>8. QED
  BY <1>6, <1>7

\* What was hashed of a page when it is finished is all of it.
LEMMA PendingIsPage ==
  ASSUME IInv, PInv, job.sink = "pages", phase = "finish"
  PROVE  /\ hasher.pending = PageOf(Count + 1)
         /\ Count + 1 <= PageCount(job)
         /\ offset = job.size => Count + 1 = PageCount(job)
         /\ offset < job.size => hasher.total = (Count + 1) * job.page
<1> DEFINE c == Count
           p == job.page
           r == hasher.remaining
<1>1. /\ job.size \in Nat /\ p \in Nat \ {0} /\ offset \in Nat /\ offset <= job.size
      /\ c \in Nat /\ c * p \in Nat /\ r \in Nat /\ r <= p
  BY PageFacts
<1>2. hasher.total = c * p + (p - r) /\ hasher.pending = Run(c * p, p - r) /\ hasher.total <= job.size
  BY DEF PInv, Hashing, Closed
<1>3. /\ offset < job.size => r = 0
      /\ offset = job.size => hasher.total = job.size /\ 0 < r /\ r < p
  BY DEF PInv, Within
<1> HIDE DEF c, p, r
<1>4. Least(p, job.size - c * p) = p - r
  BY <1>1, <1>2, <1>3 DEF Least
<1>5. (c + 1) - 1 = c /\ c + 1 \in Nat /\ (c + 1) * p = c * p + p
  BY <1>1, NextPage
<1>6. PageOf(c + 1) = Run(c * p, Least(p, job.size - c * p))
  BY <1>5 DEF PageOf, Run, p
<1>7. CASE offset < job.size
  <2>1. (c + 1) * p <= job.size /\ hasher.total = (c + 1) * p
    BY <1>1, <1>2, <1>3, <1>5, <1>7
  <2>2. c + 1 <= (job.size + p - 1) \div p
    BY <1>1, <1>5, <2>1, AtLeast
  <2>3. QED
    BY <1>1, <1>2, <1>4, <1>6, <1>7, <2>1, <2>2 DEF PageCount, c, p
<1>8. CASE offset = job.size
  <2>1. p - r - 1 \in 0..p - 1 /\ job.size + p - 1 = (c + 1) * p + (p - r - 1)
    BY <1>1, <1>2, <1>3, <1>5, <1>8
  <2>2. (job.size + p - 1) \div p = c + 1
    BY <1>1, <1>5, <2>1, LastCount
  <2>3. QED
    BY <1>1, <1>2, <1>4, <1>5, <1>6, <1>8, <2>2 DEF PageCount, c, p
<1>9. QED
  BY <1>1, <1>7, <1>8
\* A digest fits whenever a page is finished.
LEMMA DigestFits ==
  ASSUME IInv, PInv, job.sink = "pages", phase = "finish"
  PROVE  /\ ~(Slot > split - Used)
         /\ Used + Slot = split <=> Len(batch.sums) + 1 = Capacity
         /\ Len(batch.sums) + 1 <= Capacity
<1> DEFINE l == Len(batch.sums)
<1>1. /\ l \in Nat /\ Capacity \in Nat /\ split = Capacity * Slot /\ l < Capacity
      /\ Slot \in Nat \ {0}
  BY PageFacts, CapacityFacts, TransferAssumption DEF PInv, Room
<1> HIDE DEF l
<1>2. Used = l * Slot
  BY DEF Used, l
<1>3. (l + 1) * Slot = l * Slot + Slot /\ l * Slot \in Nat /\ Capacity * Slot \in Nat
  BY <1>1, NextPage
<1>4. l + 1 <= Capacity /\ l + 1 \in Nat
  BY <1>1
<1>5. (l + 1) * Slot <= Capacity * Slot
  BY <1>1, <1>4, PagesGrow
<1>6. l + 1 < Capacity => (l + 1) * Slot < Capacity * Slot
  <2>1. SUFFICES ASSUME l + 1 < Capacity PROVE (l + 1) * Slot < Capacity * Slot
    OBVIOUS
  <2>2. (l + 2) \in Nat /\ l + 2 <= Capacity /\ (l + 2) = (l + 1) + 1
    BY <1>1, <2>1
  <2>3. (l + 2) * Slot <= Capacity * Slot /\ (l + 2) * Slot = (l + 1) * Slot + Slot
    BY <1>1, <1>4, <2>2, PagesGrow, NextPage
  <2>4. (l + 1) * Slot \in Nat
    BY <1>1, <1>4, NextPage
  <2>5. QED
    BY <1>1, <1>3, <2>3, <2>4
<1>7. l + 1 = Capacity => (l + 1) * Slot = Capacity * Slot
  OBVIOUS
<1> DEFINE used == l * Slot  next == (l + 1) * Slot  all == Capacity * Slot
<1>8. /\ Used = used /\ split = all /\ next = used + Slot /\ used \in Nat /\ all \in Nat /\ Slot \in Nat
      /\ next <= all /\ (l + 1 < Capacity => next < all) /\ (l + 1 = Capacity => next = all)
  BY <1>1, <1>2, <1>3, <1>5, <1>6, <1>7
<1> HIDE DEF used, next, all
<1>9. l + 1 <= Capacity /\ l + 1 \in Nat /\ Capacity \in Nat
  BY <1>1, <1>4
<1>10. QED
  BY <1>8, <1>9 DEF l

LEMMA FinishPInv ==
  ASSUME IInv, PInv, job.sink = "pages", Finish
  PROVE  PInv'
<1>1. phase = "finish" /\ UNCHANGED <<job, offset, got, section>>
  BY DEF Finish
<1>2. /\ ~(Slot > split - Used)
      /\ Used + Slot = split <=> Len(batch.sums) + 1 = Capacity
      /\ Len(batch.sums) + 1 <= Capacity
  BY <1>1, DigestFits
<1>3. /\ batch' = [batch EXCEPT !.sums = Append(@, hasher.pending)]
      /\ hasher' = [hasher EXCEPT !.remaining = job.page, !.pending = <<>>]
      /\ phase' = IF Len(batch.sums) + 1 = Capacity THEN "flush"
                  ELSE IF offset = job.size THEN "last" ELSE "hash"
  BY <1>2 DEF Finish, Reset, InTail
<1>4. /\ job.size \in Nat /\ job.page \in Nat \ {0} /\ offset \in Nat /\ offset <= job.size
      /\ batch.at \in Nat /\ batch.sums \in Seq(Seq(Int)) /\ Len(batch.sums) \in Nat
      /\ Count \in Nat /\ hasher.total \in Nat /\ hasher.pending \in Seq(Int)
  BY <1>1, PageFacts
<1>5. /\ hasher.pending = PageOf(Count + 1) /\ Count + 1 <= PageCount(job)
      /\ offset = job.size => Count + 1 = PageCount(job)
      /\ offset < job.size => hasher.total = (Count + 1) * job.page
  BY <1>1, PendingIsPage
<1>6. /\ batch'.at = batch.at /\ batch'.sums = Append(batch.sums, hasher.pending)
      /\ batch' = [at |-> batch'.at, sums |-> batch'.sums]
      /\ hasher' = [remaining |-> job.page, pending |-> <<>>, total |-> hasher.total]
  BY <1>1, <1>3 DEF PInv, HashTypes
<1>7. /\ batch'.sums \in Seq(Seq(Int)) /\ Len(batch'.sums) = Len(batch.sums) + 1
      /\ \A k \in 1..Len(batch.sums) : batch'.sums[k] = batch.sums[k]
      /\ batch'.sums[Len(batch.sums) + 1] = hasher.pending
  BY <1>4, <1>6
<1>8. /\ Count' = Count + 1 /\ Capacity' = Capacity /\ PageCount(job)' = PageCount(job)
  BY <1>1, <1>4, <1>6, <1>7 DEF Count, Capacity, Reserved, PageCount
<1>9. \A k : PageOf(k)' = PageOf(k)
  BY <1>1 DEF PageOf
<1>10. HashTypes'
  <2>1. batch' \in [at : Nat, sums : Seq(Seq(Int))]
    BY <1>4, <1>6, <1>7
  <2>2. hasher' \in [remaining : Nat, pending : Seq(Int), total : Nat]
    BY <1>4, <1>6
  <2>3. hasher'.remaining = job.page
    BY <1>6
  <2>4. QED
    BY <1>1, <1>4, <1>8, <2>1, <2>2, <2>3 DEF PInv, HashTypes
<1>11. Digests'
  <2>1. ASSUME NEW k \in 1..Len(batch'.sums) PROVE batch'.sums[k] = PageOf(batch.at + k)
    <3>1. CASE k = Len(batch.sums) + 1
      <4>1. batch.at + k = Count + 1
        BY <1>4, <3>1 DEF Count
      <4>2. QED
        BY <1>5, <1>7, <3>1, <4>1
    <3>2. CASE k # Len(batch.sums) + 1
      <4>1. k \in 1..Len(batch.sums)
        BY <1>4, <1>7, <3>2
      <4>2. QED
        BY <1>1, <1>7, <4>1 DEF PInv, Digests
    <3>3. QED
      BY <3>1, <3>2
  <2>2. \A k \in 1..Len(batch'.sums) : batch'.sums[k] = PageOf(batch.at + k)'
    BY <1>6, <1>9, <2>1
  <2>3. \A k \in 1..batch'.at : section'[k] = PageOf(k)'
    BY <1>1, <1>6, <1>9 DEF PInv, Digests
  <2>4. Count' <= PageCount(job)' /\ phase' \notin {"wrote", "wrotelast"}
    BY <1>3, <1>5, <1>8
  <2>5. QED
    BY <2>2, <2>3, <2>4 DEF Digests
<1>12. Room'
  BY <1>2, <1>3, <1>4, <1>7, <1>8, CapacityFacts DEF Room
<1>13. Within'
  <2>1. offset < job.size => offset <= hasher.total /\ hasher.total <= offset + got.n
    BY <1>1 DEF PInv, Within
  <2>2. hasher'.total = hasher.total
    BY <1>6
  <2>3. phase' \in {"flush", "last", "hash"} /\ (phase' = "hash" => offset < job.size)
    BY <1>3, <1>4
  <2>4. QED
    BY <1>1, <2>1, <2>2, <2>3 DEF Within
<1>14. Hashing'
  <2>1. CASE offset = job.size
    <3>1. Closed'
      BY <1>1, <1>3, <2>1 DEF Closed
    <3>2. QED
      BY <1>5, <1>8, <2>1, <3>1 DEF Hashing
  <2>2. CASE offset < job.size
    <3>1. ~Closed'
      BY <1>1, <1>4, <2>2 DEF Closed
    <3>2. hasher'.remaining = job.page /\ hasher'.pending = <<>> /\ hasher'.total = hasher.total
      BY <1>6
    <3>3. job.page - job.page = 0
      BY <1>4
    <3>4. (Count + 1) * job.page \in Nat /\ hasher.total = (Count + 1) * job.page
      BY <1>4, <1>5, <2>2
    <3>5. hasher'.total = (Count + 1) * job.page + (job.page - job.page)
      BY <3>2, <3>3, <3>4
    <3>6. hasher'.pending = Run((Count + 1) * job.page, job.page - job.page)
      BY <3>2, <3>3, RunEmpty
    <3>7. hasher.total <= job.size
      BY <1>1 DEF PInv, Hashing, Closed
    <3>8. QED
      BY <1>1, <1>8, <3>1, <3>2, <3>5, <3>6, <3>7 DEF Hashing
  <2>3. QED
    BY <1>4, <2>1, <2>2
<1>15. QED
  BY <1>10, <1>11, <1>12, <1>13, <1>14 DEF PInv
LEMMA FlushPInv ==
  ASSUME IInv, PInv, job.sink = "pages", Flush
  PROVE  PInv'
<1>1. phase \in {"flush", "last"} /\ UNCHANGED <<job, offset, got, hasher, batch>>
  BY DEF Flush
<1>2. /\ offset \in Nat /\ offset <= job.size /\ job.size \in Nat
      /\ batch.at \in Nat /\ batch.sums \in Seq(Seq(Int)) /\ Len(batch.sums) \in Nat
      /\ Count = batch.at + Len(batch.sums)
  BY <1>1, PageFacts DEF Count
<1>3. /\ Count' = Count /\ Capacity' = Capacity /\ PageCount(job)' = PageCount(job)
  BY <1>1 DEF Count, Capacity, Reserved, PageCount
<1>4. \A k : PageOf(k)' = PageOf(k)
  BY <1>1 DEF PageOf
<1>5. Count <= PageCount(job) /\ Len(section) = PageCount(job) /\ section \in Seq(Seq(Int))
  BY <1>1 DEF PInv, HashTypes, Digests
<1>6. phase = "last" => offset = job.size
  BY DEF IInv, Whole
<1>7. CASE phase' = "error"
  BY <1>7 DEF PInv
<1>8. CASE phase' # "error" /\ batch.sums = <<>>
  <2>1. /\ section' = section
        /\ phase' = IF phase = "last" THEN "ok" ELSE IF offset = job.size THEN "last" ELSE "hash"
    BY <1>1, <1>8 DEF Flush, AfterFlush, InTail
  <2>2. HashTypes'
    BY <1>1, <1>3, <2>1 DEF PInv, HashTypes
  <2>3. Digests'
    BY <1>1, <1>3, <1>4, <2>1 DEF PInv, Digests
  <2>4. Hashing'
    BY <1>1, <1>3, <1>6, <2>1 DEF PInv, Hashing, Closed
  <2>5. Within'
    BY <1>1, <1>2, <2>1 DEF PInv, Within
  <2>6. Room'
    BY <1>3, <1>1, <1>8, <2>1, CapacityFacts DEF Room
  <2>7. QED
    BY <2>2, <2>3, <2>4, <2>5, <2>6 DEF PInv
<1>9. CASE phase' # "error" /\ batch.sums # <<>>
  <2>1. /\ section' = Put(Len(batch.sums))
        /\ phase' = IF phase = "last" THEN "wrotelast" ELSE "wrote"
    BY <1>1, <1>9 DEF Flush
  <2>2. DOMAIN section = 1..PageCount(job) /\ PageCount(job) \in Nat
    BY <1>5
  <2>3. section' = [k \in 1..PageCount(job) |->
                      IF batch.at < k /\ k <= batch.at + Len(batch.sums) THEN batch.sums[k - batch.at]
                      ELSE section[k]]
    BY <2>1, <2>2 DEF Put
  <2>4. ASSUME NEW k \in 1..PageCount(job) PROVE section'[k] \in Seq(Int)
    <3>1. CASE batch.at < k /\ k <= batch.at + Len(batch.sums)
      <4>1. k - batch.at \in 1..Len(batch.sums)
        BY <1>2, <2>2, <3>1
      <4>2. section'[k] = batch.sums[k - batch.at]
        BY <2>3, <3>1
      <4>3. QED
        BY <1>2, <4>1, <4>2
    <3>2. CASE ~(batch.at < k /\ k <= batch.at + Len(batch.sums))
      <4>1. section'[k] = section[k]
        BY <2>3, <3>2
      <4>2. QED
        BY <1>5, <2>2, <4>1
    <3>3. QED
      BY <3>1, <3>2
  <2>5. section' \in [1..PageCount(job) -> Seq(Int)]
    BY <2>3, <2>4
  <2>6. section' \in Seq(Seq(Int)) /\ Len(section') = PageCount(job)
    BY <2>2, <2>5
  <2>7. HashTypes'
    BY <1>1, <1>3, <2>1, <2>6 DEF PInv, HashTypes
  <2>8. \A k \in 1..batch.at : section'[k] = PageOf(k)
    <3>1. SUFFICES ASSUME NEW k \in 1..batch.at PROVE section'[k] = PageOf(k)
      OBVIOUS
    <3>2. k \in 1..PageCount(job) /\ ~(batch.at < k)
      BY <1>2, <1>5, <2>2
    <3>3. QED
      BY <1>1, <2>3, <3>2 DEF PInv, Digests
  <2>9. \A k \in 1..Len(batch.sums) : section'[batch.at + k] = batch.sums[k]
    <3>1. SUFFICES ASSUME NEW k \in 1..Len(batch.sums) PROVE section'[batch.at + k] = batch.sums[k]
      OBVIOUS
    <3>2. \A a, l, c \in Nat : a + l <= c /\ k <= l =>
            a + k \in 1..c /\ a < a + k /\ a + k <= a + l /\ (a + k) - a = k
      OBVIOUS
    <3>3. batch.at + Len(batch.sums) <= PageCount(job) /\ k <= Len(batch.sums)
      BY <1>2, <1>5
    <3>4. /\ batch.at + k \in 1..PageCount(job) /\ batch.at < batch.at + k
          /\ batch.at + k <= batch.at + Len(batch.sums) /\ (batch.at + k) - batch.at = k
      BY <1>2, <2>2, <3>2, <3>3
    <3>5. QED
      BY <2>3, <3>4
  <2>10. Digests'
    BY <1>1, <1>3, <1>4, <2>8, <2>9 DEF PInv, Digests
  <2>11. Hashing'
    BY <1>1, <1>3, <1>6, <2>1 DEF PInv, Hashing, Closed
  <2>12. Within' /\ Room'
    BY <1>1, <2>1 DEF PInv, Within, Room
  <2>13. QED
    BY <2>7, <2>10, <2>11, <2>12 DEF PInv
<1>10. QED
  BY <1>7, <1>8, <1>9

LEMMA WrotePInv ==
  ASSUME IInv, PInv, job.sink = "pages", Wrote
  PROVE  PInv'
<1>1. phase \in {"wrote", "wrotelast"} /\ UNCHANGED <<job, offset, got, hasher, section>>
  BY DEF Wrote
<1>2. /\ offset \in Nat /\ offset <= job.size /\ job.size \in Nat
      /\ batch.at \in Nat /\ batch.sums \in Seq(Seq(Int)) /\ Len(batch.sums) \in Nat
      /\ Count = batch.at + Len(batch.sums)
  BY <1>1, PageFacts DEF Count
<1>3. CASE phase' = "error"
  BY <1>3 DEF PInv
<1>4. CASE phase' # "error"
  <2>1. /\ batch' = [at |-> batch.at + Len(batch.sums), sums |-> <<>>]
        /\ phase' = IF phase = "wrotelast" THEN "ok" ELSE IF offset = job.size THEN "last" ELSE "hash"
    BY <1>1, <1>4 DEF Wrote, AfterFlush, InTail, Emptied
  <2>2. /\ batch'.at = Count /\ batch'.sums = <<>> /\ Len(batch'.sums) = 0
    BY <1>2, <2>1
  <2>3. /\ Count' = Count /\ Capacity' = Capacity /\ PageCount(job)' = PageCount(job)
    BY <1>1, <1>2, <2>2 DEF Count, Capacity, Reserved, PageCount
  <2>4. \A k : PageOf(k)' = PageOf(k)
    BY <1>1 DEF PageOf
  <2>5. batch' \in [at : Nat, sums : Seq(Seq(Int))]
    BY <1>2, <2>1
  <2>6. HashTypes'
    BY <1>1, <2>1, <2>3, <2>5 DEF PInv, HashTypes
  <2>7. \A k \in 1..Count : section[k] = PageOf(k)
    <3>1. SUFFICES ASSUME NEW k \in 1..Count PROVE section[k] = PageOf(k)
      OBVIOUS
    <3>2. CASE k <= batch.at
      BY <1>1, <1>2, <3>2 DEF PInv, Digests
    <3>3. CASE k > batch.at
      <4>1. k - batch.at \in 1..Len(batch.sums) /\ batch.at + (k - batch.at) = k
        BY <1>2, <3>3
      <4>2. section[batch.at + (k - batch.at)] = batch.sums[k - batch.at]
        BY <1>1, <4>1 DEF PInv, Digests
      <4>3. batch.sums[k - batch.at] = PageOf(batch.at + (k - batch.at))
        BY <1>1, <4>1 DEF PInv, Digests
      <4>4. QED
        BY <4>1, <4>2, <4>3
    <3>4. QED
      BY <1>2, <3>2, <3>3
  <2>8. Digests'
    BY <1>1, <2>1, <2>2, <2>3, <2>4, <2>7 DEF PInv, Digests
  <2>9. phase = "wrotelast" => offset = job.size
    BY DEF IInv, Whole
  <2>10. Hashing'
    BY <1>1, <2>1, <2>3, <2>9 DEF PInv, Hashing, Closed
  <2>11. Within'
    BY <1>1, <1>2, <2>1 DEF PInv, Within
  <2>12. Room'
    BY <1>1, <2>2, <2>3, CapacityFacts DEF Room
  <2>13. QED
    BY <2>6, <2>8, <2>10, <2>11, <2>12 DEF PInv
<1>5. QED
  BY <1>3, <1>4

\* Cancellation, and steps that change nothing.
LEMMA IdlePInv ==
  ASSUME IInv, PInv, job.sink = "pages",
         UNCHANGED <<job, phase, offset, got, hasher, batch, section>>
  PROVE  PInv'
<1>1. /\ Count' = Count /\ Capacity' = Capacity /\ PageCount(job)' = PageCount(job)
  BY DEF Count, Capacity, Reserved, PageCount
<1>2. \A k : PageOf(k)' = PageOf(k)
  BY DEF PageOf
<1>3. CASE phase = "error"
  BY <1>3 DEF PInv
<1>4. CASE phase # "error"
  <2>1. HashTypes'
    BY <1>1, <1>4 DEF PInv, HashTypes
  <2>2. Digests'
    BY <1>1, <1>2, <1>4 DEF PInv, Digests
  <2>3. Hashing' /\ Within' /\ Room'
    BY <1>1, <1>4 DEF PInv, Hashing, Closed, Within, Room
  <2>4. QED
    BY <2>1, <2>2, <2>3 DEF PInv
<1>5. QED
  BY <1>3, <1>4

LEMMA StepPInv == IInv /\ PInv /\ [Next]_vars => PInv'
<1> SUFFICES ASSUME IInv, PInv, [Next]_vars PROVE PInv'
  OBVIOUS
<1>1. UNCHANGED job
  BY DEF Next, Work, Begin, Read, ReadCanceled, Got, Write, Advance, Truncate, Metadata, Sync, Synced,
     HashPage, LastPage, Finish, Flush, Wrote, Cancel, Finished, vars
<1>2. CASE job.sink # "pages"
  BY <1>1, <1>2 DEF PInv
<1>3. CASE job.sink = "pages"
  <2>1. CASE Work
    <3>1. CASE Begin \/ Read \/ Got \/ Advance
      BY <1>3, <3>1, BeginPInv, ReadPInv, GotPInv, AdvancePInv
    <3>2. CASE HashPage \/ LastPage \/ Finish \/ Flush \/ Wrote
      BY <1>3, <3>2, HashPagePInv, LastPagePInv, FinishPInv, FlushPInv, WrotePInv
    <3>3. CASE ReadCanceled
      BY <3>3 DEF ReadCanceled, PInv
    <3>4. CASE Write \/ Truncate \/ Metadata \/ Sync \/ Synced
      BY <1>3, <3>4 DEF Write, Truncate, Metadata, Sync, Synced, IInv, Sinks
    <3>5. QED
      BY <2>1, <3>1, <3>2, <3>3, <3>4 DEF Work
  <2>2. CASE Cancel
    BY <1>3, <2>2, IdlePInv DEF Cancel
  <2>3. CASE Finished \/ UNCHANGED vars
    BY <1>3, <2>3, IdlePInv DEF Finished, vars
  <2>4. QED
    BY <2>1, <2>2, <2>3 DEF Next
<1>4. QED
  BY <1>2, <1>3
LEMMA InitPInv == Init => PInv
<1> SUFFICES ASSUME Init, job.sink = "pages" PROVE PInv
  BY DEF PInv
<1>1. IInv
  BY InitIInv
<1>2. job.size \in Nat /\ job.page \in Nat \ {0}
  BY <1>1, JobType DEF IInv
<1>3. /\ phase = "begin" /\ offset = 0 /\ section = EmptySection
      /\ hasher = [remaining |-> job.page, pending |-> <<>>, total |-> 0]
      /\ batch = [at |-> 0, sums |-> <<>>]
  BY DEF Init
<1>4. PageCount(job) \in Nat
  BY <1>2 DEF PageCount
<1>5. section \in [1..PageCount(job) -> Seq(Int)]
  BY <1>3 DEF EmptySection
<1>6. section \in Seq(Seq(Int)) /\ Len(section) = PageCount(job)
  BY <1>4, <1>5
<1>7. HashTypes
  BY <1>2, <1>3, <1>6 DEF HashTypes
<1>8. Count = 0
  BY <1>3 DEF Count
<1>9. Digests
  BY <1>3, <1>4, <1>8 DEF Digests
<1>10. Hashing
  <2>1. job.page - hasher.remaining = 0 /\ 0 * job.page = 0 /\ hasher.total = 0 /\ hasher.pending = <<>>
    BY <1>2, <1>3
  <2>2. Run(0, 0) = <<>>
    BY RunEmpty
  <2>3. QED
    BY <1>2, <1>3, <1>8, <2>1, <2>2 DEF Hashing, Closed
<1>11. Within
  BY <1>3 DEF Within
<1>12. Room
  BY <1>1, <1>3, CapacityFacts DEF Room
<1>13. QED
  BY <1>7, <1>9, <1>10, <1>11, <1>12 DEF PInv

LEMMA StepCaused == IInv /\ PInv /\ Caused /\ [Next]_vars => Caused'
<1> SUFFICES ASSUME IInv, PInv, Caused, [Next]_vars, phase' = "error" PROVE fault' \/ canceled'
  BY DEF Caused
<1>1. CASE Begin \/ ReadCanceled \/ Metadata \/ Sync \/ Synced \/ Truncate
  BY <1>1 DEF Begin, ReadCanceled, Metadata, Sync, Synced, Truncate
<1>2. CASE Got
  <2>1. got.n \in Nat /\ Chunk \in Int
    BY ChunkType DEF IInv, Types
  <2>2. got.n > Chunk => fault
    BY <1>2, <2>1 DEF Got, IInv, Seen, Bad
  <2>3. QED
    BY <1>2, <2>2 DEF Got
<1>3. CASE Advance
  <2>1. ~Complete => fault
    BY <1>3 DEF Advance, Complete, IInv, Seen, Bad
  <2>2. QED
    BY <1>3, <2>1 DEF Advance
<1>4. CASE Write
  <2>1. PICK n \in 0..got.n, err \in BOOLEAN :
          /\ fault' = (fault \/ err \/ n # got.n)
          /\ phase' = IF err \/ n # got.n THEN "error" ELSE "advance"
    BY <1>4 DEF Write
  <2>2. QED
    BY <2>1
<1>5. CASE Flush
  <2>1. CASE canceled
    BY <1>5, <2>1 DEF Flush
  <2>2. CASE ~canceled /\ batch.sums = <<>>
    BY <1>5, <2>2 DEF Flush, AfterFlush
  <2>3. CASE ~canceled /\ batch.sums # <<>>
    <3>1. PICK n \in 0..Len(batch.sums), err \in BOOLEAN :
            /\ fault' = (fault \/ err \/ n # Len(batch.sums))
            /\ phase' = IF err \/ n # Len(batch.sums) THEN "error"
                        ELSE IF phase = "last" THEN "wrotelast" ELSE "wrote"
      BY <1>5, <2>3 DEF Flush
    <3>2. QED
      BY <3>1
  <2>4. QED
    BY <2>1, <2>2, <2>3
<1>6. CASE Wrote
  BY <1>6 DEF Wrote, AfterFlush
<1>7. CASE Finish
  <2>1. phase = "finish" /\ job.sink = "pages"
    BY <1>7 DEF Finish, IInv, Sinks
  <2>2. ~(Slot > split - Used)
    BY <2>1, DigestFits
  <2>3. QED
    BY <1>7, <2>2 DEF Finish
<1>8. CASE Read \/ HashPage \/ LastPage
  BY <1>8 DEF Read, HashPage, LastPage
<1>9. CASE Cancel \/ Finished \/ UNCHANGED vars
  BY <1>9 DEF Cancel, Finished, vars, Caused
<1>10. QED
  BY <1>1, <1>2, <1>3, <1>4, <1>5, <1>6, <1>7, <1>8, <1>9 DEF Next, Work

\* With the invariant of the pages: which digests the batch and the section hold, and
\* what the hash has taken of the page that follows (codePageOutput, hashing.go:88-137).
THEOREM FullInvariance == Spec => []AInv
<1>1. Init => AInv
  BY InitIInv, InitPInv DEF AInv, Caused, Init
<1>2. AInv /\ [Next]_vars => AInv'
  BY StepIInv, StepPInv, StepCaused DEF AInv
<1>3. QED
  BY <1>1, <1>2, PTL DEF Spec

\* Whatever the sizes of the source, its pages and the buffer, an operation whose
\* calls all succeed and that is not canceled does not fail: the digests of a chunk
\* always fit the half of the buffer that stages them (hashCodePagesTo, hashing.go:139-169).
THEOREM NoSpuriousFailureHolds == Spec => []NoSpuriousFailure
<1>1. AInv => NoSpuriousFailure
  BY DEF AInv, Caused, NoSpuriousFailure
<1>2. QED
  BY <1>1, FullInvariance, PTL

\* Success means that no call failed and that the file is the source with its metadata,
\* synced, or that every slot of the section is the digest of its page
\* (populateOutput, transfer.go:103-137; hashCodePagesTo, hashing.go:73-193).
THEOREM ExactHolds == Spec => []Exact
<1>1. AInv => Exact
  <2> SUFFICES ASSUME AInv, phase = "ok"
               PROVE  /\ ~fault
                      /\ job.sink = "file" => /\ dst = [i \in 1..job.size |-> i - 1]
                                              /\ done.length /\ done.metadata /\ done.synced
                      /\ job.sink = "pages" => \A k \in 1..PageCount(job) : section[k] = PageOf(k)
    BY DEF Exact
  <2>1. ~fault /\ offset = job.size
    BY DEF AInv, IInv, Seen, Whole
  <2>2. ASSUME job.sink = "file"
        PROVE  dst = [i \in 1..job.size |-> i - 1] /\ done.length /\ done.metadata /\ done.synced
    <3>1. /\ dst \in Seq(Int) /\ Len(dst) = job.size /\ job.size \in Nat
          /\ done.length /\ done.metadata /\ done.synced
      BY <2>2, JobType DEF AInv, IInv, Types, Whole
    <3>2. \A i \in 1..job.size : dst[i] = i - 1
      BY <2>1, <2>2, <3>1 DEF AInv, IInv, Prefix, Held
    <3>3. [i \in 1..job.size |-> i - 1] \in [1..job.size -> Int]
      OBVIOUS
    <3>4. [i \in 1..job.size |-> i - 1] \in Seq(Int) /\ Len([i \in 1..job.size |-> i - 1]) = job.size
      BY <3>1, <3>3, MadeIsFile
    <3>5. dst = [i \in 1..job.size |-> i - 1]
      BY <3>1, <3>2, <3>4, SeqEqual
    <3>6. QED
      BY <3>1, <3>5
  <2>3. ASSUME job.sink = "pages" PROVE \A k \in 1..PageCount(job) : section[k] = PageOf(k)
    <3>1. Digests /\ Hashing /\ batch.sums = <<>> /\ Closed
      BY <2>1, <2>3 DEF AInv, PInv, Room, Closed
    <3>2. batch.at \in Nat
      BY <2>3 DEF AInv, PInv, HashTypes
    <3>3. Count = batch.at /\ Count = PageCount(job)
      BY <3>1, <3>2 DEF Hashing, Count
    <3>4. QED
      BY <3>1, <3>3 DEF Digests
  <2>4. QED
    BY <2>1, <2>2, <2>3
<1>2. QED
  BY <1>1, FullInvariance, PTL

---------------------------------------------------------------------------
(* The type invariant: what was read fits its buffer, what is staged its half *)

FileCells == \A i \in 1..Len(dst) : dst[i] \in 0..job.size - 1 \cup {Old, Zero}

Fits ==
  /\ got.n <= Buffer + 1
  /\ FileCells
  /\ hasher.remaining \in 0..job.page
  /\ job.sink = "pages" => batch.sums \in Seq(Seq(Int)) /\ Used <= split

\* A buffer is not empty, whatever is left of it by the digests.
LEMMA BufferType ==
  ASSUME Types
  PROVE  Buffer \in Nat /\ split \in Nat
<1>1. job.size \in Nat /\ job.sink \in {"file", "pages"}
  BY JobType
<1>2. Slot \in Nat \ {0} /\ TransferBuffer \in Nat /\ TransferBuffer >= 2 * Slot
  BY TransferAssumption
<1>3. Reserved \in Nat /\ (job.sink = "pages" => Reserved >= 2 * Slot)
  BY <1>1, <1>2 DEF Reserved, Least, Most
<1>4. CASE job.sink = "pages"
  <2>1. split \in Nat /\ split + Slot <= Reserved
    BY <1>2, <1>3, <1>4, Halves DEF split
  <2>2. QED
    BY <1>2, <1>3, <1>4, <2>1 DEF Buffer
<1>5. CASE job.sink = "file"
  <2>1. split \in Nat
    BY <1>2, <1>3 DEF split
  <2>2. QED
    BY <1>3, <1>5, <2>1 DEF Buffer
<1>6. QED
  BY <1>1, <1>4, <1>5

LEMMA InitFits == Init => Fits
<1> SUFFICES ASSUME Init PROVE Fits
  OBVIOUS
<1>1. IInv
  BY InitIInv
<1>2. Buffer \in Nat /\ split \in Nat /\ job.page \in Nat
  BY <1>1, BufferType, JobType DEF IInv
<1>3. got.n = 0 /\ hasher.remaining = job.page /\ batch.sums = <<>>
  BY DEF Init
<1>4. FileCells
  <2>1. PICK len \in 0..MaxOld : dst = [i \in 1..len |-> Old]
    BY DEF Init
  <2>2. len \in Nat
    BY <2>1, TransferAssumption
  <2>3. [i \in 1..len |-> Old] \in [1..len -> Int]
    BY DEF Old
  <2>4. Len(dst) = len
    BY <2>1, <2>2, <2>3, MadeIsFile
  <2>5. QED
    BY <2>1, <2>4 DEF FileCells
<1>5. Used = 0
  <2>1. Len(batch.sums) = 0
    BY <1>3
  <2>2. QED
    BY <2>1, TransferAssumption DEF Used
<1>6. QED
  BY <1>2, <1>3, <1>4, <1>5 DEF Fits

\* The sizes that do not change as long as the job does not.
LEMMA SizesKept ==
  ASSUME UNCHANGED job
  PROVE  UNCHANGED <<Buffer, split>>
BY DEF Buffer, split, Reserved

LEMMA ReadFits ==
  ASSUME IInv, Fits, [Next]_vars
  PROVE  got'.n <= Buffer' + 1
<1>1. UNCHANGED job
  BY DEF Next, Work, Begin, Read, ReadCanceled, Got, Write, Advance, Truncate, Metadata, Sync, Synced,
     HashPage, LastPage, Finish, Flush, Wrote, Cancel, Finished, vars
<1>2. Buffer' = Buffer /\ Buffer \in Nat
  BY <1>1, SizesKept, BufferType DEF IInv
<1>3. CASE Read
  <2>1. PICK n \in 0..Chunk + 1 : got'.n = n
    BY <1>3 DEF Read
  <2>2. Chunk \in Int /\ Chunk <= Buffer
    <3>1. job.size \in Nat /\ offset \in Nat
      BY JobType DEF IInv, Types
    <3>2. QED
      BY <1>2, <3>1 DEF Chunk, Least
  <2>3. QED
    BY <1>2, <2>1, <2>2
<1>4. CASE ~Read
  <2>1. got' = got
    BY <1>4 DEF Next, Work, Begin, ReadCanceled, Got, Write, Advance, Truncate, Metadata, Sync, Synced,
       HashPage, LastPage, Finish, Flush, Wrote, Cancel, Finished, vars
  <2>2. QED
    BY <1>2, <2>1 DEF Fits
<1>5. QED
  BY <1>3, <1>4

LEMMA WriteFits ==
  ASSUME IInv, FileCells, [Next]_vars
  PROVE  FileCells'
<1>1. UNCHANGED job
  BY DEF Next, Work, Begin, Read, ReadCanceled, Got, Write, Advance, Truncate, Metadata, Sync, Synced,
     HashPage, LastPage, Finish, Flush, Wrote, Cancel, Finished, vars
<1>2. job.size \in Nat /\ offset \in Nat /\ dst \in Seq(Int) /\ Len(dst) \in Nat /\ got.n \in Nat
  BY JobType DEF IInv, Types
<1>3. CASE Write
  <2>1. PICK n \in 0..got.n : dst' = Written(n)
    BY <1>3 DEF Write
  <2>2. n \in Nat /\ offset + n <= job.size
    <3>1. got.n <= Chunk /\ Chunk \in Int /\ Chunk <= job.size - offset
      BY <1>3, ChunkType DEF IInv, UnderWay, Write
    <3>2. QED
      BY <1>2, <2>1, <3>1
  <2> DEFINE m == Most(Len(dst), IF n = 0 THEN 0 ELSE offset + n)
             cell(i) == IF offset < i /\ i <= offset + n THEN i - 1
                        ELSE IF i <= Len(dst) THEN dst[i] ELSE Zero
  <2>3. m \in Nat
    BY <1>2, <2>2 DEF Most
  <2>4. ASSUME NEW i \in 1..m
        PROVE  cell(i) \in Int /\ cell(i) \in 0..job.size - 1 \cup {Old, Zero}
    <3>1. CASE offset < i /\ i <= offset + n
      BY <1>2, <2>2, <2>3, <3>1
    <3>2. CASE ~(offset < i /\ i <= offset + n) /\ i <= Len(dst)
      BY <1>2, <2>3, <3>2 DEF FileCells
    <3>3. CASE ~(offset < i /\ i <= offset + n) /\ ~(i <= Len(dst))
      BY <3>3 DEF Zero
    <3>4. QED
      BY <3>1, <3>2, <3>3
  <2>5. dst' = [i \in 1..m |-> cell(i)]
    BY <2>1 DEF Written
  <2> HIDE DEF m, cell
  <2>6. [i \in 1..m |-> cell(i)] \in [1..m -> Int]
    BY <2>4
  <2>7. Len(dst') = m
    BY <2>3, <2>5, <2>6, MadeIsFile
  <2>8. QED
    BY <1>1, <2>4, <2>5, <2>7 DEF FileCells
<1>4. CASE Truncate /\ dst' # dst
  <2> DEFINE cell(i) == IF i <= Len(dst) THEN dst[i] ELSE Zero
  <2>1. dst' = [i \in 1..job.size |-> cell(i)]
    BY <1>4 DEF Truncate
  <2>2. ASSUME NEW i \in 1..job.size
        PROVE  cell(i) \in Int /\ cell(i) \in 0..job.size - 1 \cup {Old, Zero}
    BY <1>2 DEF FileCells, Zero
  <2> HIDE DEF cell
  <2>3. [i \in 1..job.size |-> cell(i)] \in [1..job.size -> Int]
    BY <2>2
  <2>4. Len(dst') = job.size
    BY <1>2, <2>1, <2>3, MadeIsFile
  <2>5. QED
    BY <1>1, <2>1, <2>2, <2>4 DEF FileCells
<1>5. CASE dst' = dst
  BY <1>1, <1>5 DEF FileCells
<1>6. QED
  BY <1>3, <1>4, <1>5 DEF Next, Work, Begin, Read, ReadCanceled, Got, Advance, Metadata, Sync, Synced,
     HashPage, LastPage, Finish, Flush, Wrote, Cancel, Finished, vars

\* The hash and the batch change in two steps each, none of which fails.
LEMMA HashFits ==
  ASSUME IInv, PInv, Fits, [Next]_vars
  PROVE  /\ hasher'.remaining \in 0..job'.page
         /\ job'.sink = "pages" => batch'.sums \in Seq(Seq(Int)) /\ Used' <= split'
<1>1. UNCHANGED job
  BY DEF Next, Work, Begin, Read, ReadCanceled, Got, Write, Advance, Truncate, Metadata, Sync, Synced,
     HashPage, LastPage, Finish, Flush, Wrote, Cancel, Finished, vars
<1>2. split' = split /\ split \in Nat /\ Slot \in Nat /\ job.page \in Nat /\ job.sink \in {"file", "pages"}
  BY <1>1, SizesKept, BufferType, JobType, TransferAssumption DEF IInv
<1>3. CASE UNCHANGED <<hasher, batch>>
  BY <1>1, <1>2, <1>3 DEF Fits, Used
<1>4. CASE HashPage /\ hasher' # hasher
  <2>1. job.sink = "pages" /\ phase # "error" /\ phase' # "error" /\ UNCHANGED batch
    BY <1>4 DEF HashPage, IInv, Sinks
  <2>2. HashTypes'
    BY <1>1, <1>4, <2>1, StepPInv DEF PInv
  <2>3. hasher'.remaining \in 0..job'.page
    BY <1>1, <1>2, <2>2 DEF HashTypes
  <2>4. QED
    BY <1>2, <2>1, <2>3 DEF Fits, Used
<1>5. CASE Finish /\ ~UNCHANGED <<hasher, batch>>
  <2>1. job.sink = "pages" /\ HashTypes
    BY <1>5 DEF Finish, IInv, Sinks, PInv
  <2>2. /\ batch.sums \in Seq(Seq(Int)) /\ hasher.pending \in Seq(Int) /\ Len(batch.sums) \in Nat
    BY <2>1 DEF HashTypes
  <2>3. /\ Slot <= split - Used /\ batch'.sums = Append(batch.sums, hasher.pending)
        /\ hasher'.remaining = job.page
    <3>1. /\ ~(Slot > split - Used)
          /\ batch' = [batch EXCEPT !.sums = Append(@, hasher.pending)]
          /\ hasher' = [hasher EXCEPT !.remaining = job.page, !.pending = <<>>]
      BY <1>5 DEF Finish, Reset
    <3>2. Used \in Int
      BY <1>2, <2>2, NextPage DEF Used
    <3>3. Slot <= split - Used
      BY <1>2, <3>1, <3>2
    <3>4. QED
      BY <2>1, <3>1, <3>3 DEF HashTypes
  <2>4. batch'.sums \in Seq(Seq(Int)) /\ Len(batch'.sums) = Len(batch.sums) + 1
    BY <2>3, <2>2
  <2>5. Used \in Nat /\ Used' = Used + Slot
    BY <1>2, <2>2, <2>4, NextPage DEF Used
  <2>6. QED
    BY <1>1, <1>2, <2>3, <2>4, <2>5
<1>6. CASE Wrote /\ batch' # batch
  <2>1. batch'.sums = <<>> /\ UNCHANGED hasher
    BY <1>6 DEF Wrote, Emptied
  <2>2. batch'.sums \in Seq(Seq(Int)) /\ Len(batch'.sums) = 0
    BY <2>1
  <2>3. Used' = 0
    BY <1>2, <2>2 DEF Used
  <2>4. QED
    BY <1>1, <1>2, <2>1, <2>2, <2>3 DEF Fits
<1>7. QED
  BY <1>3, <1>4, <1>5, <1>6 DEF Next, Work, Begin, Read, ReadCanceled, Got, Write, Advance, Truncate, Metadata,
     Sync, Synced, HashPage, LastPage, Flush, Wrote, Cancel, Finished, vars

\* What is read or staged always fits, and every variable has its type, for sources,
\* pages and buffers of any size (hashing.go:139-169, transfer.go:62-98).
THEOREM TypeCorrect == Spec => []TypeOK
<1>1. AInv /\ Fits /\ [Next]_vars => Fits'
  BY ReadFits, WriteFits, HashFits DEF AInv, Fits, FileCells
<1>2. AInv /\ Fits => TypeOK
  <2> SUFFICES ASSUME AInv, Fits PROVE TypeOK
    OBVIOUS
  <2>1. Buffer \in Nat /\ job.size \in Nat /\ job.sink \in {"file", "pages"}
    BY BufferType, JobType DEF AInv, IInv
  <2>2. /\ job \in [sink : {"file", "pages"}, size : Sizes, page : Pages]
        /\ phase \in Phases /\ offset \in 0..job.size
        /\ got.n \in 0..Buffer + 1 /\ got.err \in {"none", "eof", "fault"}
        /\ done \in [length : BOOLEAN, metadata : BOOLEAN, synced : BOOLEAN]
    BY <2>1 DEF AInv, IInv, Types, Fits
  <2>3. canceled \in BOOLEAN /\ fault \in BOOLEAN
    BY DEF AInv, IInv, Types
  <2>4. /\ \A i \in 1..Len(dst) : dst[i] \in 0..job.size - 1 \cup {Old, Zero}
        /\ hasher.remaining \in 0..job.page
        /\ Used <= split \/ job.sink = "file"
    BY <2>1 DEF Fits, FileCells
  <2>5. QED
    BY <2>2, <2>3, <2>4 DEF TypeOK
<1>3. QED
  BY <1>1, <1>2, InitFits, FullInvariance, PTL DEF Spec

\* The four together, for sources, pages and buffers of any size
\* (transferOutputBuffer, transfer.go:62-98, with both of its destinations).
THEOREM TransferIsExactHolds == Spec => []TransferIsExact
  BY TypeCorrect, InPlaceHolds, ExactHolds, NoSpuriousFailureHolds, PTL DEF TransferIsExact
=============================================================================
