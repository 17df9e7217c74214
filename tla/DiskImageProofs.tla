-------------------------- MODULE DiskImageProofs --------------------------
(***************************************************************************)
(* Proofs about DiskImage for any number of operations, signatures of any   *)
(* length, and any number of writes by other programs.  That the payload is *)
(* never written depends on every trailer a signer can read, those of torn  *)
(* images included: none of them leads into the payload (WellPlaced).       *)
(***************************************************************************)
EXTENDS DiskImage, SequenceTheorems, TLAPS

\* Before parsing, nothing is hashed.
NothingHashed ==
  \A s \in Signers : pc[s] \in {"start", "probe", "stat", "parse"} => plan[s] = <<>>

\* What the parser accepted ends after the payload.
EndAfterPayload ==
  \A s \in Signers : pc[s] \in {"hash", "lstat", "open", "verify", "write", "sync"}
    => end[s] >= Payload

\* The file that is written is the one that was hashed.
OutIsSource ==
  \A s \in Signers : pc[s] \in {"verify", "write", "sync"} => out[s] = source[s]

Placed == \A f \in Files : WellPlaced(blocks[f])

IInv == TypeOK /\ NothingHashed /\ EndAfterPayload /\ OutIsSource /\ Placed

---------------------------------------------------------------------------
(* Contents *)

\* Resizing keeps the blocks in common and adds holes.
LEMMA ResizedIsFile ==
  ASSUME FileType, NEW f \in Files, NEW n \in Nat
  PROVE  /\ Resized(f, n) \in Seq(Block)
         /\ Len(Resized(f, n)) = n
         /\ \A k \in 1..n : Resized(f, n)[k] = IF k <= Len(blocks[f]) THEN blocks[f][k] ELSE Hole
<1>1. blocks[f] \in Seq(Block)
  BY DEF FileType
<1>2. DOMAIN blocks[f] = 1..Len(blocks[f]) /\ Len(blocks[f]) \in Nat
      /\ \A k \in 1..Len(blocks[f]) : blocks[f][k] \in Block
  BY <1>1
<1>3. Hole \in Block
  BY DEF Block
<1>4. \A k \in 1..n : (IF k \in DOMAIN blocks[f] THEN blocks[f][k] ELSE Hole) \in Block
  BY <1>2, <1>3
<1>5. Resized(f, n) \in [1..n -> Block]
  BY <1>4 DEF Resized
<1>6. Resized(f, n) \in Seq(Block) /\ Len(Resized(f, n)) = n
  BY <1>5
<1>7. \A k \in 1..n : Resized(f, n)[k] = IF k <= Len(blocks[f]) THEN blocks[f][k] ELSE Hole
  BY <1>2 DEF Resized
<1>8. QED
  BY <1>6, <1>7

\* Replacing a block by one that is no misplaced trailer.
LEMMA UpdatedIsFile ==
  ASSUME NEW image \in Seq(Block), NEW k \in 1..Len(image), NEW b \in Block
  PROVE  /\ [image EXCEPT ![k] = b] \in Seq(Block)
         /\ Len([image EXCEPT ![k] = b]) = Len(image)
         /\ \A j \in 1..Len(image) : [image EXCEPT ![k] = b][j] = IF j = k THEN b ELSE image[j]
OBVIOUS

\* A write at or after the end of the payload keeps the payload and the place
\* of the trailers.
LEMMA WriteKeepsPayload ==
  ASSUME FileType, DiskImageAssumption, NEW f \in Files, WellPlaced(blocks[f]),
         NEW at \in Nat, at > Payload, NEW b \in Block,
         b.kind = "koly" => b.offset >= Payload
  PROVE  LET new == Put(f, at, b) IN
         /\ new \in Seq(Block) /\ WellPlaced(new)
         /\ \A k \in 1..Payload : k \in DOMAIN new /\ new[k] = blocks[f][k]
<1> DEFINE n == Longer(at, Len(blocks[f]))
           new == Put(f, at, b)
<1>1. blocks[f] \in Seq(Block) /\ Len(blocks[f]) \in Nat /\ Payload \in Nat
      /\ DOMAIN blocks[f] = 1..Len(blocks[f])
  BY DiskImageAssumption DEF FileType
<1>2. n \in Nat /\ n >= at /\ n >= Len(blocks[f]) /\ n > Payload /\ at \in 1..n
  BY <1>1, DiskImageAssumption DEF Longer
<1> HIDE DEF n
<1>3. /\ Resized(f, n) \in Seq(Block) /\ Len(Resized(f, n)) = n
      /\ \A k \in 1..n : Resized(f, n)[k] = IF k <= Len(blocks[f]) THEN blocks[f][k] ELSE Hole
  BY <1>2, ResizedIsFile
<1>4. /\ new \in Seq(Block) /\ Len(new) = n
      /\ \A k \in 1..n : new[k] = IF k = at THEN b ELSE Resized(f, n)[k]
  BY <1>2, <1>3, UpdatedIsFile DEF n, Put
<1> HIDE DEF new
<1>5. DOMAIN new = 1..n
  BY <1>4
<1>6. \A k \in 1..Payload : k \in DOMAIN new /\ new[k] = blocks[f][k]
  BY <1>1, <1>2, <1>3, <1>4, <1>5 DEF WellPlaced
<1>7. ASSUME NEW k \in 1..n, new[k].kind = "koly"
      PROVE  k > Payload /\ (new[k].offset = 0 \/ new[k].offset >= Payload)
  <2>1. CASE k = at
    BY <2>1, <1>2, <1>4, <1>7
  <2>2. CASE k # at /\ k <= Len(blocks[f])
    <3>1. new[k] = blocks[f][k] /\ k \in DOMAIN blocks[f]
      BY <2>2, <1>1, <1>3, <1>4
    <3>2. QED
      BY <3>1, <1>7 DEF WellPlaced
  <2>3. CASE k # at /\ k > Len(blocks[f])
    <3>1. new[k] = Hole
      BY <2>3, <1>1, <1>2, <1>3, <1>4
    <3>2. QED
      BY <3>1, <1>7 DEF Hole
  <2>4. QED
    BY <2>1, <2>2, <2>3, <1>1
<1>8. QED
  BY <1>2, <1>4, <1>5, <1>6, <1>7 DEF WellPlaced, new

\* Truncating at or after the end of the payload does, too.
LEMMA TruncateKeepsPayload ==
  ASSUME FileType, DiskImageAssumption, NEW f \in Files, WellPlaced(blocks[f]),
         NEW n \in Nat, n > Payload, NEW new, new = Resized(f, n)
  PROVE  /\ new \in Seq(Block) /\ WellPlaced(new)
         /\ \A k \in 1..Payload : k \in DOMAIN new /\ new[k] = blocks[f][k]
<1>1. blocks[f] \in Seq(Block) /\ Len(blocks[f]) \in Nat /\ Payload \in Nat
      /\ DOMAIN blocks[f] = 1..Len(blocks[f])
  BY DiskImageAssumption DEF FileType
<1>2. /\ new \in Seq(Block) /\ Len(new) = n /\ DOMAIN new = 1..n
      /\ \A k \in 1..n : new[k] = IF k <= Len(blocks[f]) THEN blocks[f][k] ELSE Hole
  <2>1. new \in Seq(Block) /\ Len(new) = n
        /\ \A k \in 1..n : new[k] = IF k <= Len(blocks[f]) THEN blocks[f][k] ELSE Hole
    BY ResizedIsFile
  <2>2. QED
    BY <2>1
<1>3. \A k \in 1..Payload : k \in DOMAIN new /\ new[k] = blocks[f][k]
  BY <1>1, <1>2 DEF WellPlaced
<1>4. ASSUME NEW k \in 1..n, new[k].kind = "koly"
      PROVE  k > Payload /\ (new[k].offset = 0 \/ new[k].offset >= Payload)
  <2>1. CASE k <= Len(blocks[f])
    <3>1. k \in DOMAIN blocks[f] /\ new[k] = blocks[f][k]
      BY <2>1, <1>1, <1>2
    <3>2. QED
      BY <3>1, <1>4 DEF WellPlaced
  <2>2. CASE k > Len(blocks[f])
    <3>1. new[k] = Hole
      BY <2>2, <1>1, <1>2
    <3>2. QED
      BY <3>1, <1>4 DEF Hole
  <2>3. QED
    BY <2>1, <2>2, <1>1
<1>5. QED
  BY <1>2, <1>3, <1>4 DEF WellPlaced

\* The blocks that a signer writes.
LEMMA TailBlocks ==
  ASSUME TypeOK, DiskImageAssumption, NEW s \in Signers, end[s] >= Payload
  PROVE  /\ DOMAIN TailOf(s) = 1..job[s].length + 1
         /\ Len(TailOf(s)) = job[s].length + 1 /\ job[s].length \in Nat \ {0}
         /\ \A k \in DOMAIN TailOf(s) :
              TailOf(s)[k] \in Block /\ (TailOf(s)[k].kind = "koly" => TailOf(s)[k].offset >= Payload)
<1>1. job[s].length \in Nat \ {0} /\ job[s].dryRun \in BOOLEAN
  BY DiskImageAssumption DEF TypeOK, ControlType
<1>2. end[s] \in Nat
  BY DEF TypeOK, SourceType
<1>3. Signature(s) \in Signatures
  BY <1>1 DEF Signature, Signatures
<1>4. \A k \in Nat : Sig(Signature(s), k) \in Block /\ Sig(Signature(s), k).kind # "koly"
  BY <1>3 DEF Sig, Block
<1>5. Koly(end[s], job[s].length) \in Block /\ Koly(end[s], job[s].length).offset = end[s]
  BY <1>1, <1>2 DEF Koly, Block
<1>6. \A k \in 1..job[s].length + 1 : TailOf(s)[k] =
        IF k <= job[s].length THEN Sig(Signature(s), k) ELSE Koly(end[s], job[s].length)
  BY DEF TailOf
<1>7. DOMAIN TailOf(s) = 1..job[s].length + 1
  BY DEF TailOf
<1>8. \A k \in DOMAIN TailOf(s) : TailOf(s)[k] \in Block
  BY <1>1, <1>4, <1>5, <1>6, <1>7
<1>9. TailOf(s) \in [1..job[s].length + 1 -> Block]
  BY <1>8, <1>7 DEF TailOf
<1>10. Len(TailOf(s)) = job[s].length + 1
  BY <1>9, <1>1
<1>11. QED
  BY <1>1, <1>4, <1>5, <1>6, <1>7, <1>8, <1>10

\* What a change of one file's contents keeps.
LEMMA ChangeKeeps ==
  ASSUME TypeOK, Placed, NEW f \in Files, NEW by, NEW new \in Seq(Block), WellPlaced(new),
         Change(f, new, by), UNCHANGED entry
  PROVE  FileType' /\ Placed' /\ early' \subseteq Signers /\ late' \subseteq Signers
<1>1. blocks' = [blocks EXCEPT ![f] = new] /\ mtime' = [mtime EXCEPT ![f] = @ + 1]
  BY DEF Change
<1>2. FileType'
  BY <1>1 DEF TypeOK, FileType
<1>3. Placed'
  BY <1>1 DEF TypeOK, FileType, Placed
<1>4. early' \subseteq Signers /\ late' \subseteq Signers
  BY DEF Change, TypeOK, GhostType
<1>5. QED
  BY <1>2, <1>3, <1>4

---------------------------------------------------------------------------
(* The inductive invariant *)

LEMMA InitInv == Init => IInv
<1> SUFFICES ASSUME Init PROVE IInv
  OBVIOUS
<1>1. ControlType
  BY DEF Init, ControlType, Labels
<1>2. FileType
  BY DiskImageAssumption DEF Init, FileType, Files
<1>3. SourceType
  BY DEF Init, SourceType, Files
<1>4. OutType /\ GhostType
  BY DiskImageAssumption DEF Init, OutType, GhostType, Files
<1>5. NothingHashed /\ EndAfterPayload /\ OutIsSource
  BY DEF Init, NothingHashed, EndAfterPayload, OutIsSource
<1>6. Placed
  BY DiskImageAssumption DEF Init, Placed, Files
<1>7. QED
  BY <1>1, <1>2, <1>3, <1>4, <1>5, <1>6 DEF IInv, TypeOK

\* Steps that only move s on, without entering the states that carry facts.
LEMMA MoveOn ==
  ASSUME IInv, NEW s \in Signers, NEW label \in Labels, Goto(s, label),
         UNCHANGED <<job, entry, blocks, mtime, sourceVars, outVars, ghosts>>,
         label \in {"start", "probe", "stat", "parse"} => plan[s] = <<>>,
         label \in {"hash", "lstat", "open", "verify", "write", "sync"} => end[s] >= Payload,
         label \in {"verify", "write", "sync"} => out[s] = source[s]
  PROVE  IInv'
<1>1. pc' = [pc EXCEPT ![s] = label] /\ pc \in [Signers -> Labels]
  BY DEF Goto, IInv, TypeOK, ControlType
<1>2. ControlType'
  BY <1>1 DEF IInv, TypeOK, ControlType
<1>3. FileType' /\ SourceType' /\ OutType' /\ GhostType'
  BY DEF IInv, TypeOK, FileType, SourceType, OutType, GhostType, sourceVars, outVars, ghosts
<1>4. NothingHashed'
  BY <1>1 DEF IInv, NothingHashed, sourceVars
<1>5. EndAfterPayload'
  BY <1>1 DEF IInv, EndAfterPayload, sourceVars
<1>6. OutIsSource'
  BY <1>1 DEF IInv, OutIsSource, sourceVars, outVars
<1>7. Placed'
  BY DEF IInv, Placed
<1>8. QED
  BY <1>2, <1>3, <1>4, <1>5, <1>6, <1>7 DEF IInv, TypeOK

LEMMA ReadingInv ==
  ASSUME IInv, NEW s \in Signers,
         \/ openCodeSource(s) \/ isDMG(s) \/ signDMGFile(s) \/ ParseImage(s)
         \/ signDMGTailSource(s)
  PROVE  IInv'
<1> USE DEF Goto
<1>0. /\ pc \in [Signers -> Labels] /\ plan[s] \in Seq(Block)
      /\ source[s] \in Files /\ Held(s) \in Seq(Block) /\ size[s] \in Nat
  BY DEF IInv, TypeOK, ControlType, SourceType, FileType, Held
<1>1. CASE openCodeSource(s)
  <2>1. ControlType'
    BY <1>1 DEF openCodeSource, IInv, TypeOK, ControlType, Labels
  <2>2. FileType' /\ OutType' /\ GhostType'
    BY <1>1 DEF openCodeSource, IInv, TypeOK, FileType, OutType, GhostType, outVars, ghosts
  <2>3. SourceType'
    BY <1>1 DEF openCodeSource, IInv, TypeOK, FileType, SourceType
  <2>4. NothingHashed' /\ EndAfterPayload' /\ OutIsSource' /\ Placed'
    BY <1>1, <1>0 DEF openCodeSource, IInv, NothingHashed, EndAfterPayload, OutIsSource, Placed, outVars
  <2>5. QED
    BY <2>1, <2>2, <2>3, <2>4 DEF IInv, TypeOK
<1>2. CASE isDMG(s)
  <2>1. plan[s] = <<>>
    BY <1>2 DEF isDMG, IInv, NothingHashed
  <2>2. QED
    BY <1>2, <2>1, MoveOn DEF isDMG, Labels
<1>3. CASE signDMGFile(s)
  <2>1. ControlType'
    BY <1>3 DEF signDMGFile, IInv, TypeOK, ControlType, Labels
  <2>2. FileType' /\ OutType' /\ GhostType'
    BY <1>3 DEF signDMGFile, IInv, TypeOK, FileType, OutType, GhostType, outVars, ghosts
  <2>3. SourceType'
    BY <1>3, <1>0 DEF signDMGFile, IInv, TypeOK, FileType, SourceType
  <2>4. NothingHashed' /\ EndAfterPayload' /\ OutIsSource' /\ Placed'
    BY <1>3, <1>0 DEF signDMGFile, IInv, NothingHashed, EndAfterPayload, OutIsSource, Placed, outVars
  <2>5. QED
    BY <2>1, <2>2, <2>3, <2>4 DEF IInv, TypeOK
<1>4. CASE ParseImage(s)
  <2> DEFINE koly == Held(s)[size[s]]
             new == IF koly.offset = 0 THEN size[s] - 1 ELSE koly.offset
  <2>1. size[s] \in DOMAIN Held(s) /\ koly.kind = "koly" /\ koly \in Block
    BY <1>4, <1>0 DEF ParseImage, HasTrailer
  <2>2. koly.offset \in Nat
    BY <2>1 DEF Block, Hole, Torn
  <2>3. size[s] > Payload /\ (koly.offset = 0 \/ koly.offset >= Payload)
    BY <2>1, <1>0 DEF IInv, Placed, WellPlaced, Held
  <2>4. new \in Nat /\ new >= Payload
    BY <2>2, <2>3, <1>0, DiskImageAssumption
  <2>5. plan[s] = <<>> /\ end' = [end EXCEPT ![s] = new]
    BY <1>4 DEF ParseImage, IInv, NothingHashed
  <2> HIDE DEF new
  <2>6. ControlType'
    BY <1>4 DEF ParseImage, IInv, TypeOK, ControlType, Labels
  <2>7. FileType' /\ OutType' /\ GhostType'
    BY <1>4 DEF ParseImage, IInv, TypeOK, FileType, OutType, GhostType, outVars, ghosts
  <2>8. SourceType'
    BY <1>4, <2>4, <2>5 DEF ParseImage, IInv, TypeOK, SourceType
  <2>9. NothingHashed' /\ EndAfterPayload' /\ OutIsSource' /\ Placed'
    BY <1>4, <1>0, <2>4, <2>5
    DEF ParseImage, IInv, TypeOK, SourceType, NothingHashed, EndAfterPayload, OutIsSource, Placed, outVars
  <2>10. QED
    BY <2>6, <2>7, <2>8, <2>9 DEF IInv, TypeOK
<1>5. CASE signDMGTailSource(s)
  <2> DEFINE k == Len(plan[s]) + 1
  <2>1. end[s] \in Nat /\ end[s] >= Payload /\ pc[s] = "hash"
    BY <1>5 DEF signDMGTailSource, IInv, TypeOK, SourceType, EndAfterPayload
  <2>2. CASE k <= end[s]
    <3>1. /\ plan' = [plan EXCEPT ![s] = Append(@, Held(s)[k])] /\ k \in DOMAIN Held(s)
          /\ UNCHANGED <<pc, job, entry, blocks, mtime, source, size, before, end, outVars, ghosts>>
      BY <1>5, <2>2 DEF signDMGTailSource
    <3>2. Append(plan[s], Held(s)[k]) \in Seq(Block) /\ Len(Append(plan[s], Held(s)[k])) = k
      BY <3>1, <1>0
    <3>3. SourceType'
      BY <3>1, <3>2, <2>2 DEF IInv, TypeOK, SourceType
    <3>4. ControlType' /\ FileType' /\ OutType' /\ GhostType'
      BY <3>1 DEF IInv, TypeOK, ControlType, FileType, OutType, GhostType, outVars, ghosts
    <3>5. NothingHashed' /\ EndAfterPayload' /\ OutIsSource' /\ Placed'
      BY <3>1, <2>1, <1>0
      DEF IInv, TypeOK, SourceType, NothingHashed, EndAfterPayload, OutIsSource, Placed, outVars
    <3>6. QED
      BY <3>3, <3>4, <3>5 DEF IInv, TypeOK
  <2>3. CASE ~(k <= end[s])
    BY <1>5, <2>1, <2>3, MoveOn DEF signDMGTailSource, Labels, sourceVars
  <2>4. QED
    BY <2>2, <2>3
<1>6. QED
  BY <1>1, <1>2, <1>3, <1>4, <1>5

\* A write or truncation by s that keeps its file well placed.
LEMMA ChangeInv ==
  ASSUME IInv, NEW s \in Signers, NEW new \in Seq(Block), WellPlaced(new),
         Change(out[s], new, {s}), pc[s] = "write",
         UNCHANGED <<job, entry, sourceVars, out, writes>>,
         pc' = pc \/ Goto(s, "sync") \/ Goto(s, "failed"),
         written' \in [Signers -> Nat]
  PROVE  IInv'
<1>1. out[s] \in Files /\ pc \in [Signers -> Labels]
  BY DEF IInv, TypeOK, OutType, ControlType
<1>2. FileType' /\ Placed' /\ early' \subseteq Signers /\ late' \subseteq Signers
  BY <1>1, ChangeKeeps DEF IInv
<1>3. ControlType' /\ SourceType' /\ OutType'
  BY <1>1 DEF Goto, IInv, TypeOK, ControlType, SourceType, OutType, sourceVars, Labels
<1>4. GhostType'
  BY <1>2 DEF IInv, TypeOK, GhostType
<1>5. NothingHashed' /\ EndAfterPayload' /\ OutIsSource'
  BY <1>1 DEF Goto, IInv, NothingHashed, EndAfterPayload, OutIsSource, sourceVars
<1>6. QED
  BY <1>2, <1>3, <1>4, <1>5 DEF IInv, TypeOK

\* Every write of a signer is one that keeps the payload.
LEMMA WritingContents ==
  ASSUME IInv, NEW s \in Signers, WriteAt(s) \/ WriteAtFails(s) \/ Truncate(s)
  PROVE  \E new \in Seq(Block) :
           /\ Change(out[s], new, {s}) /\ WellPlaced(new)
           /\ \A k \in 1..Payload : k \in DOMAIN new /\ new[k] = blocks[out[s]][k]
<1>1. pc[s] = "write" /\ end[s] >= Payload /\ end[s] \in Nat /\ written[s] \in Nat
      /\ out[s] \in Files /\ FileType /\ TypeOK /\ WellPlaced(blocks[out[s]]) /\ Payload \in Nat
  BY DiskImageAssumption DEF WriteAt, WriteAtFails, Truncate, IInv, EndAfterPayload, TypeOK,
     SourceType, OutType, Placed
<1>2. /\ DOMAIN TailOf(s) = 1..job[s].length + 1
      /\ Len(TailOf(s)) = job[s].length + 1 /\ job[s].length \in Nat \ {0}
      /\ \A k \in DOMAIN TailOf(s) :
           TailOf(s)[k] \in Block /\ (TailOf(s)[k].kind = "koly" => TailOf(s)[k].offset >= Payload)
  BY <1>1, TailBlocks, DiskImageAssumption
<1> DEFINE at == end[s] + (written[s] + 1)
           put(b) == Put(out[s], at, b)
<1>3. at \in Nat /\ at > Payload
  BY <1>1
<1>4. ASSUME NEW b \in Block, b.kind = "koly" => b.offset >= Payload
      PROVE  /\ put(b) \in Seq(Block) /\ WellPlaced(put(b))
             /\ \A k \in 1..Payload : k \in DOMAIN put(b) /\ put(b)[k] = blocks[out[s]][k]
  <2> HIDE DEF at
  <2>1. QED
    BY <1>1, <1>3, <1>4, WriteKeepsPayload, DiskImageAssumption
<1>5. CASE WriteAt(s)
  <2>1. written[s] + 1 \in DOMAIN TailOf(s) /\ Change(out[s], put(TailOf(s)[written[s] + 1]), {s})
    BY <1>5 DEF WriteAt
  <2> HIDE DEF put
  <2>2. QED
    BY <2>1, <1>2, <1>4
<1>6. CASE WriteAtFails(s)
  <2>1. Change(out[s], put(Torn), {s})
    BY <1>6 DEF WriteAtFails
  <2>2. Torn \in Block /\ Torn.kind # "koly"
    BY DEF Torn, Block
  <2> HIDE DEF put, at
  <2>3. /\ put(Torn) \in Seq(Block) /\ WellPlaced(put(Torn))
        /\ \A k \in 1..Payload : k \in DOMAIN put(Torn) /\ put(Torn)[k] = blocks[out[s]][k]
    BY <2>2, <1>4
  <2>4. QED
    BY <2>1, <2>3
<1>7. CASE Truncate(s)
  <2> DEFINE n == end[s] + Len(TailOf(s))
  <2>1. n \in Nat /\ n > Payload
    <3>1. end[s] \in Nat /\ Payload \in Nat /\ end[s] >= Payload
      BY <1>1
    <3>2. Len(TailOf(s)) \in Nat \ {0}
      BY <1>2
    <3>3. QED
      BY <3>1, <3>2
  <2>2. Change(out[s], Resized(out[s], n), {s})
    BY <1>7 DEF Truncate
  <2> HIDE DEF n
  <2>3. QED
    BY <2>1, <2>2, <1>1, TruncateKeepsPayload, DiskImageAssumption
<1>8. QED
  BY <1>5, <1>6, <1>7

LEMMA WritingInv ==
  ASSUME IInv, NEW s \in Signers,
         \/ Lstat(s) \/ OpenFile(s) \/ VerifySource(s) \/ WriteAt(s) \/ WriteAtFails(s)
         \/ Truncate(s) \/ Sync(s) \/ Fail(s)
  PROVE  IInv'
<1>0. pc \in [Signers -> Labels] /\ written \in [Signers -> Nat]
  BY DEF IInv, TypeOK, ControlType, OutType
<1>1. CASE Lstat(s)
  BY <1>1, MoveOn DEF Lstat, IInv, EndAfterPayload, Labels
<1>2. CASE OpenFile(s)
  <2>1. end[s] >= Payload /\ entry \in Files
    BY <1>2 DEF OpenFile, IInv, EndAfterPayload, TypeOK, FileType
  <2>2. ControlType' /\ FileType' /\ SourceType' /\ OutType' /\ GhostType'
    BY <1>2, <2>1 DEF OpenFile, Goto, IInv, TypeOK, ControlType, FileType, SourceType,
       OutType, GhostType, sourceVars, ghosts, Labels
  <2>3. NothingHashed' /\ EndAfterPayload' /\ Placed'
    BY <1>2, <1>0, <2>1 DEF OpenFile, Goto, IInv, NothingHashed, EndAfterPayload, Placed, sourceVars
  <2>4. OutIsSource'
    BY <1>2, <1>0 DEF OpenFile, Goto, IInv, TypeOK, OutType, OutIsSource, sourceVars
  <2>5. QED
    BY <2>2, <2>3, <2>4 DEF IInv, TypeOK
<1>3. CASE VerifySource(s)
  BY <1>3, MoveOn DEF VerifySource, IInv, EndAfterPayload, OutIsSource, Labels
<1>4. CASE WriteAt(s) \/ WriteAtFails(s) \/ Truncate(s)
  <2>1. PICK new \in Seq(Block) : Change(out[s], new, {s}) /\ WellPlaced(new)
    BY <1>4, WritingContents
  <2>2. /\ pc[s] = "write" /\ UNCHANGED <<job, entry, sourceVars, out, writes>>
        /\ pc' = pc \/ Goto(s, "sync") \/ Goto(s, "failed")
    BY <1>4 DEF WriteAt, WriteAtFails, Truncate, outVars
  <2>3. written' \in [Signers -> Nat]
    BY <1>4, <1>0 DEF WriteAt, WriteAtFails, Truncate, outVars
  <2>4. QED
    BY <2>1, <2>2, <2>3, ChangeInv
<1>5. CASE Sync(s)
  BY <1>5, MoveOn DEF Sync, Labels
<1>6. CASE Fail(s)
  BY <1>6, MoveOn DEF Fail, Labels
<1>7. QED
  BY <1>1, <1>2, <1>3, <1>4, <1>5, <1>6

LEMMA OthersInv == ASSUME IInv, OtherPrograms PROVE IInv'
<1> DEFINE image == blocks[Image]
<1>0. /\ image \in Seq(Block) /\ WellPlaced(image) /\ Image \in Files
      /\ writes \in Nat /\ MaxWrites \in Nat /\ Payload \in Nat
      /\ Len(image) \in Nat /\ DOMAIN image = 1..Len(image) /\ Len(image) > Payload
  BY DiskImageAssumption DEF IInv, TypeOK, FileType, GhostType, Placed, Files, WellPlaced
<1>1. Data(writes + 1) \in Block /\ Data(writes + 1).kind # "koly"
  BY <1>0 DEF Data, Block
<1>2. ASSUME NEW new \in Seq(Block), WellPlaced(new), Change(Image, new, {}),
             writes < MaxWrites, writes' = writes + 1,
             UNCHANGED <<job, pc, entry, sourceVars, outVars>>
      PROVE  IInv'
  <2>1. FileType' /\ Placed' /\ early' \subseteq Signers /\ late' \subseteq Signers
    BY <1>0, <1>2, ChangeKeeps DEF IInv
  <2>2. ControlType' /\ SourceType' /\ OutType' /\ GhostType'
    BY <1>0, <1>2, <2>1 DEF IInv, TypeOK, ControlType, SourceType, OutType, GhostType,
       sourceVars, outVars
  <2>3. NothingHashed' /\ EndAfterPayload' /\ OutIsSource'
    BY <1>2 DEF IInv, NothingHashed, EndAfterPayload, OutIsSource, sourceVars, outVars
  <2>4. QED
    BY <2>1, <2>2, <2>3 DEF IInv, TypeOK
<1>3. ASSUME NEW k \in 1..Payload, Overwrite(k) PROVE IInv'
  <2> DEFINE new == [image EXCEPT ![k] = Data(writes + 1)]
  <2>1. k \in 1..Len(image)
    BY <1>0
  <2>2. /\ new \in Seq(Block) /\ Len(new) = Len(image)
        /\ \A j \in 1..Len(image) : new[j] = IF j = k THEN Data(writes + 1) ELSE image[j]
    BY <1>0, <1>1, <2>1, UpdatedIsFile
  <2>3. WellPlaced(new)
    <3> HIDE DEF new
    <3> HIDE DEF image
    <3>1. DOMAIN new = DOMAIN image
      BY <1>0, <2>2
    <3>2. ASSUME NEW j \in DOMAIN image, new[j].kind = "koly"
          PROVE  j > Payload /\ (new[j].offset = 0 \/ new[j].offset >= Payload)
      <4>1. j \in 1..Len(image) /\ new[j] = IF j = k THEN Data(writes + 1) ELSE image[j]
        BY <1>0, <2>2
      <4>2. new[j] = image[j]
        BY <1>1, <3>2, <4>1
      <4>3. QED
        BY <1>0, <3>2, <4>2 DEF WellPlaced
    <3>3. Len(new) > Payload
      BY <1>0, <2>2 DEF WellPlaced
    <3>4. QED
      BY <3>1, <3>2, <3>3 DEF WellPlaced
  <2>4. QED
    BY <1>2, <1>3, <2>2, <2>3 DEF Overwrite
<1>4. CASE Grow
  <2> DEFINE new == Append(image, Data(writes + 1))
  <2>1. /\ new \in Seq(Block) /\ Len(new) = Len(image) + 1
        /\ new[Len(image) + 1] = Data(writes + 1)
        /\ \A j \in 1..Len(image) : new[j] = image[j]
    BY <1>0, <1>1
  <2>2. WellPlaced(new)
    <3> HIDE DEF new
    <3> HIDE DEF image
    <3>1. DOMAIN new = 1..Len(image) + 1
      BY <2>1, <1>0
    <3>2. ASSUME NEW j \in DOMAIN new, new[j].kind = "koly"
          PROVE  j > Payload /\ (new[j].offset = 0 \/ new[j].offset >= Payload)
      <4>1. j \in DOMAIN image /\ new[j] = image[j]
        BY <1>0, <1>1, <2>1, <3>1, <3>2
      <4>2. QED
        BY <1>0, <3>2, <4>1 DEF WellPlaced
    <3>3. Len(new) > Payload
      BY <1>0, <2>1 DEF WellPlaced
    <3>4. QED
      BY <3>2, <3>3 DEF WellPlaced
  <2>3. QED
    BY <1>2, <1>4, <2>1, <2>2 DEF Grow
<1>5. CASE Replace
  <2>1. FileType' /\ Placed'
    BY <1>5 DEF Replace, IInv, TypeOK, FileType, Placed, Files
  <2>2. ControlType' /\ SourceType' /\ OutType' /\ GhostType'
    BY <1>0, <1>5 DEF Replace, IInv, TypeOK, ControlType, SourceType, OutType, GhostType,
       sourceVars, outVars
  <2>3. NothingHashed' /\ EndAfterPayload' /\ OutIsSource'
    BY <1>5 DEF Replace, IInv, NothingHashed, EndAfterPayload, OutIsSource, sourceVars, outVars
  <2>4. QED
    BY <2>1, <2>2, <2>3 DEF IInv, TypeOK
<1>6. QED
  BY <1>3, <1>4, <1>5 DEF OtherPrograms

LEMMA NextInv == IInv /\ [Next]_vars => IInv'
<1> SUFFICES ASSUME IInv, [Next]_vars PROVE IInv'
  OBVIOUS
<1>1. ASSUME NEW s \in Signers, Step(s) PROVE IInv'
  BY <1>1, ReadingInv, WritingInv DEF Step
<1>2. CASE OtherPrograms
  BY <1>2, OthersInv
<1>3. CASE UNCHANGED vars
  BY <1>3 DEF vars, sourceVars, outVars, ghosts, IInv, TypeOK, ControlType, FileType, SourceType,
     OutType, GhostType, NothingHashed, EndAfterPayload, OutIsSource, Placed
<1>4. QED
  BY <1>1, <1>2, <1>3 DEF Next

---------------------------------------------------------------------------
(* What a signer found, and what it has written *)

Planning == {"parse", "hash", "lstat", "open", "verify"}

Unmodified(s) == mtime[source[s]] = before[s].mtime

\* The image starts with the payload that was hashed, and goes on with the blocks written.
Matches(s) == \A k \in 1..Len(plan[s]) : k \in DOMAIN Held(s) /\ Held(s)[k] = plan[s][k]
TailWritten(s) ==
  \A k \in 1..written[s] : end[s] + k \in DOMAIN Held(s) /\ Held(s)[end[s] + k] = TailOf(s)[k]

Forced(s) == Signed(source[s]) => job[s].force

\* A state of modification that is seen again is that of the same contents.
Seen(s) ==
  pc[s] \in Planning =>
    /\ before[s].mtime <= mtime[source[s]]
    /\ Unmodified(s) => Matches(s)

Hashed(s) ==
  /\ pc[s] \in {"lstat", "open", "verify", "write"} => Len(plan[s]) = end[s]
  /\ pc[s] \notin {"write", "sync", "done", "failed"} => written[s] = 0
  /\ pc[s] = "write" => written[s] <= job[s].length + 1

AsPlanned(s) ==
  /\ pc[s] = "write" /\ s \notin late => Matches(s) /\ TailWritten(s)
  /\ pc[s] \in {"sync", "done"} /\ s \notin late => Complete(s)

\* Unless the image grew before it, Stat finds no more than openCodeSource measured.
Measured(s) ==
  s \notin early =>
    /\ pc[s] \in {"probe", "stat"} => Len(Held(s)) <= size[s]
    /\ pc[s] = "parse" /\ Unmodified(s) => Len(Held(s)) <= size[s]
    /\ pc[s] \in Planning \ {"parse"} /\ Unmodified(s) => Forced(s)
    /\ pc[s] = "write" /\ s \notin late /\ written[s] = 0 => Forced(s)

SInv == \A s \in Signers : Seen(s) /\ Hashed(s) /\ AsPlanned(s) /\ Measured(s)

SInvAt(s) == Seen(s) /\ Hashed(s) /\ AsPlanned(s) /\ Measured(s)

LEMMA SourceTypes ==
  ASSUME IInv, NEW s \in Signers
  PROVE  /\ source[s] \in Files /\ Held(s) \in Seq(Block) /\ plan[s] \in Seq(Block)
         /\ Len(plan[s]) <= end[s] /\ Len(plan[s]) \in Nat /\ end[s] \in Nat /\ size[s] \in Nat
         /\ Len(Held(s)) \in Nat /\ DOMAIN Held(s) = 1..Len(Held(s))
         /\ mtime[source[s]] \in Nat /\ before[s].mtime \in Nat /\ written[s] \in Nat
         /\ job[s].length \in Nat \ {0} /\ Len(TailOf(s)) = job[s].length + 1
         /\ DOMAIN TailOf(s) = 1..job[s].length + 1
<1>1. /\ source[s] \in Files /\ plan[s] \in Seq(Block) /\ Len(plan[s]) <= end[s]
      /\ end[s] \in Nat /\ size[s] \in Nat /\ before[s] \in [size : Nat, mtime : Nat]
      /\ blocks \in [Files -> Seq(Block)] /\ mtime \in [Files -> Nat] /\ written[s] \in Nat
  BY DEF IInv, TypeOK, SourceType, FileType, OutType
<1>2. Held(s) \in Seq(Block)
  BY <1>1 DEF Held
<1>3. job[s].length \in Nat \ {0}
  BY DiskImageAssumption DEF IInv, TypeOK, ControlType
<1>4. TailOf(s) = [k \in 1..job[s].length + 1 |-> TailOf(s)[k]] /\ DOMAIN TailOf(s) = 1..job[s].length + 1
  BY DEF TailOf
<1>5. Len(TailOf(s)) = job[s].length + 1
  <2> DEFINE n == job[s].length + 1
  <2>1. n \in Nat
    BY <1>3
  <2>2. TailOf(s) \in Seq({TailOf(s)[k] : k \in 1..n})
    <3> DEFINE f == TailOf(s)
    <3>1. f \in [1..n -> {f[k] : k \in 1..n}]
      BY <1>4
    <3> HIDE DEF f, n
    <3>2. f \in Seq({f[k] : k \in 1..n})
      BY <2>1, <3>1
    <3>3. QED
      BY <3>2 DEF f
  <2>3. QED
    BY <1>4, <2>1, <2>2
<1>6. Len(plan[s]) \in Nat
  BY <1>1
<1>7. Len(Held(s)) \in Nat /\ DOMAIN Held(s) = 1..Len(Held(s))
  BY <1>2
<1>8. mtime[source[s]] \in Nat /\ before[s].mtime \in Nat
  BY <1>1
<1>9. QED
  BY <1>1, <1>2, <1>3, <1>4, <1>5, <1>6, <1>7, <1>8

\* A step that leaves the operation's own state, and the contents of its file.
LocalSame(s) ==
  /\ pc'[s] = pc[s] /\ job'[s] = job[s] /\ source'[s] = source[s] /\ size'[s] = size[s]
  /\ before'[s] = before[s] /\ end'[s] = end[s] /\ plan'[s] = plan[s] /\ written'[s] = written[s]

LEMMA FileSame ==
  ASSUME NEW s \in Signers, SInvAt(s), LocalSame(s),
         blocks'[source[s]] = blocks[source[s]], mtime'[source[s]] = mtime[source[s]],
         s \in early => s \in early', s \in late => s \in late'
  PROVE  SInvAt(s)'
<1>1. Held(s)' = Held(s)
  BY DEF Held, LocalSame
<1>2. TailOf(s)' = TailOf(s)
  BY DEF TailOf, LocalSame, Signature
<1>3. Unmodified(s)' = Unmodified(s) /\ Matches(s)' = Matches(s) /\ TailWritten(s)' = TailWritten(s)
  BY <1>1, <1>2 DEF Unmodified, Matches, TailWritten, LocalSame
<1>4. Forced(s)' = Forced(s)
  BY DEF Forced, Signed, LocalSame
<1>5. Complete(s)' = Complete(s)
  BY <1>1, <1>2 DEF Complete, LocalSame, Held
<1>6. Seen(s)' /\ Hashed(s)' /\ AsPlanned(s)' /\ Measured(s)'
  BY <1>1, <1>3, <1>4, <1>5 DEF SInvAt, Seen, Hashed, AsPlanned, Measured, LocalSame
<1>7. QED
  BY <1>6 DEF SInvAt

\* Another operation or program writes a file: the operation sees it by the time of
\* modification, or it happened after the last check.
LEMMA ChangedByOthers ==
  ASSUME IInv, NEW s \in Signers, SInvAt(s), LocalSame(s),
         NEW f \in Files, NEW new \in Seq(Block), NEW by, s \notin by, Change(f, new, by)
  PROVE  SInvAt(s)'
<1>0. /\ blocks' = [blocks EXCEPT ![f] = new] /\ mtime' = [mtime EXCEPT ![f] = @ + 1]
      /\ blocks \in [Files -> Seq(Block)] /\ mtime \in [Files -> Nat] /\ source[s] \in Files
  BY DEF Change, IInv, TypeOK, FileType, SourceType
<1>1. (s \in early => s \in early') /\ (s \in late => s \in late')
  BY DEF Change
<1>2. CASE source[s] # f
  BY <1>0, <1>1, <1>2, FileSame
<1>3. CASE source[s] = f
  <2>1. /\ mtime'[source'[s]] = mtime[source[s]] + 1 /\ mtime[source[s]] \in Nat
        /\ Held(s)' = new
    BY <1>0, <1>3 DEF LocalSame, Held
  <2>2. pc[s] \in Planning => before'[s].mtime <= mtime'[source'[s]] /\ ~Unmodified(s)'
    BY <2>1, SourceTypes DEF SInvAt, Seen, LocalSame, Unmodified
  <2>3. pc[s] \in {"write", "sync", "done"} => s \in late'
    BY <1>3 DEF Change
  <2>4. pc[s] \in {"probe", "stat"} /\ s \notin early' => ~(Len(new) > size[s])
    BY <1>3 DEF Change
  <2>5. Seen(s)' /\ Hashed(s)' /\ AsPlanned(s)'
    BY <2>2, <2>3 DEF SInvAt, Seen, Hashed, AsPlanned, LocalSame
  <2>6. pc[s] \in {"probe", "stat"} /\ s \notin early' => Len(Held(s)') <= size'[s]
    BY <2>1, <2>4, SourceTypes DEF LocalSame
  <2>7. Measured(s)'
    BY <2>2, <2>3, <2>6 DEF Measured, LocalSame, Planning
  <2>8. QED
    BY <2>5, <2>7 DEF SInvAt
<1>4. QED
  BY <1>2, <1>3

\* The operation's own steps, as far as the checks before the first write.
LEMMA ReadingKeeps ==
  ASSUME IInv, NEW s \in Signers, SInvAt(s),
         \/ openCodeSource(s) \/ isDMG(s) \/ signDMGFile(s) \/ ParseImage(s)
         \/ signDMGTailSource(s) \/ Lstat(s) \/ OpenFile(s) \/ Sync(s) \/ Fail(s)
  PROVE  SInvAt(s)'
<1> USE DEF Goto, sourceVars, outVars, ghosts
<1>0. /\ pc \in [Signers -> Labels] /\ source \in [Signers -> Files] /\ size \in [Signers -> Nat]
      /\ before \in [Signers -> [size : Nat, mtime : Nat]] /\ end \in [Signers -> Nat]
      /\ plan \in [Signers -> Seq(Block)]
  BY DEF IInv, TypeOK, ControlType, SourceType
<1>1. CASE openCodeSource(s)
  <2>1. /\ pc[s] = "start" /\ pc'[s] = "probe" /\ written'[s] = written[s]
        /\ source'[s] = entry /\ size'[s] = Len(blocks[entry]) /\ blocks' = blocks
        /\ entry \in Files
    BY <1>0, <1>1 DEF openCodeSource, IInv, TypeOK, FileType
  <2>2. Len(Held(s)') <= size'[s]
    BY <2>1 DEF Held, IInv, TypeOK, FileType
  <2>3. QED
    BY <2>1, <2>2 DEF SInvAt, Seen, Hashed, AsPlanned, Measured, Planning
<1>2. CASE isDMG(s)
  <2>1. /\ pc[s] = "probe" /\ pc'[s] = "stat"
        /\ UNCHANGED <<job, blocks, mtime, sourceVars, outVars, ghosts>>
    BY <1>0, <1>2 DEF isDMG
  <2>2. Held(s)' = Held(s)
    BY <2>1 DEF Held
  <2>3. QED
    BY <2>1, <2>2 DEF SInvAt, Seen, Hashed, AsPlanned, Measured, Planning
<1>3. CASE signDMGFile(s)
  <2>1. /\ pc[s] = "stat" /\ pc'[s] = "parse"
        /\ before'[s].mtime = mtime[source[s]]
        /\ UNCHANGED <<job, blocks, mtime, source, size, plan, outVars, ghosts>>
    BY <1>0, <1>3 DEF signDMGFile
  <2>2. Held(s)' = Held(s) /\ plan[s] = <<>>
    BY <2>1 DEF Held, IInv, NothingHashed
  <2>3. Seen(s)'
    BY <2>1, <2>2, SourceTypes DEF Seen, Matches
  <2>4. QED
    BY <2>1, <2>2, <2>3 DEF SInvAt, Hashed, AsPlanned, Measured, Planning
<1>4. CASE ParseImage(s)
  <2>1. /\ pc[s] = "parse" /\ pc'[s] = "hash"
        /\ HasTrailer(s) /\ ParsesAt(Held(s), size[s]) /\ (SignedAt(Held(s), size[s]) => job[s].force)
        /\ UNCHANGED <<job, blocks, mtime, source, size, before, plan, outVars, ghosts>>
    BY <1>0, <1>4 DEF ParseImage
  <2>2. Held(s)' = Held(s) /\ plan[s] = <<>> /\ Unmodified(s)' = Unmodified(s)
    BY <2>1 DEF Held, IInv, NothingHashed, Unmodified
  <2>3. Seen(s)'
    BY <2>1, <2>2 DEF SInvAt, Seen, Planning, Matches
  <2>4. s \notin early /\ Unmodified(s) => Forced(s)'
    <3>1. s \notin early /\ Unmodified(s) => Len(Held(s)) <= size[s]
      BY <2>1 DEF SInvAt, Measured
    <3>2. size[s] <= Len(Held(s))
      BY <2>1, SourceTypes DEF HasTrailer
    <3>3. s \notin early /\ Unmodified(s) => Len(Held(s)) = size[s]
      BY <3>1, <3>2, SourceTypes
    <3>4. QED
      BY <2>1, <3>3 DEF Forced, Signed, Held
  <2>5. QED
    BY <2>1, <2>2, <2>3, <2>4 DEF SInvAt, Hashed, AsPlanned, Measured, Planning
<1>5. CASE signDMGTailSource(s)
  <2> DEFINE k == Len(plan[s]) + 1
  <2>1. /\ pc[s] = "hash" /\ UNCHANGED <<job, blocks, mtime, source, size, before, end, outVars, ghosts>>
    BY <1>5 DEF signDMGTailSource
  <2>2. Held(s)' = Held(s) /\ Unmodified(s)' = Unmodified(s) /\ Forced(s)' = Forced(s)
    BY <2>1 DEF Held, Unmodified, Forced, Signed
  <2>3. CASE k <= end[s]
    <3>1. pc'[s] = pc[s] /\ k \in DOMAIN Held(s) /\ plan'[s] = Append(plan[s], Held(s)[k])
      BY <1>0, <1>5, <2>3 DEF signDMGTailSource
    <3>2. Matches(s) => Matches(s)'
      <4>1. /\ Len(plan'[s]) = k /\ plan'[s][k] = Held(s)[k]
            /\ \A j \in 1..Len(plan[s]) : plan'[s][j] = plan[s][j]
        BY <3>1, SourceTypes
      <4>2. \A j \in 1..k : j = k \/ j \in 1..Len(plan[s])
        BY SourceTypes
      <4>3. QED
        BY <2>2, <3>1, <4>1, <4>2 DEF Matches
    <3>3. QED
      BY <2>1, <2>2, <3>1, <3>2 DEF SInvAt, Seen, Hashed, AsPlanned, Measured, Planning
  <2>4. CASE ~(k <= end[s])
    <3>1. pc'[s] = "lstat" /\ plan' = plan
      BY <1>0, <1>5, <2>4 DEF signDMGTailSource
    <3>2. Len(plan[s]) = end[s]
      BY <2>4, SourceTypes
    <3>3. Matches(s)' = Matches(s)
      BY <2>2, <3>1 DEF Matches
    <3>4. QED
      BY <2>1, <2>2, <3>1, <3>2, <3>3 DEF SInvAt, Seen, Hashed, AsPlanned, Measured, Planning
  <2>5. QED
    BY <2>3, <2>4
<1>6. CASE Lstat(s) \/ OpenFile(s)
  <2>1. /\ pc[s] \in {"lstat", "open"} /\ pc'[s] \in {"open", "verify"}
        /\ UNCHANGED <<job, blocks, mtime, sourceVars, written, ghosts>>
    BY <1>0, <1>6 DEF Lstat, OpenFile
  <2>2. /\ Held(s)' = Held(s) /\ Unmodified(s)' = Unmodified(s) /\ Forced(s)' = Forced(s)
        /\ Matches(s)' = Matches(s)
    BY <2>1 DEF Held, Unmodified, Forced, Signed, Matches
  <2>3. QED
    BY <2>1, <2>2 DEF SInvAt, Seen, Hashed, AsPlanned, Measured, Planning
<1>7. CASE Sync(s)
  <2>1. /\ pc[s] = "sync" /\ pc'[s] = "done"
        /\ UNCHANGED <<job, blocks, mtime, sourceVars, outVars, ghosts>>
    BY <1>0, <1>7 DEF Sync
  <2>2. Complete(s)' = Complete(s)
    BY <2>1 DEF Complete, TailOf, Signature
  <2>3. QED
    BY <2>1, <2>2 DEF SInvAt, Seen, Hashed, AsPlanned, Measured, Planning
<1>8. CASE Fail(s)
  <2>1. pc'[s] = "failed"
    BY <1>0, <1>8 DEF Fail
  <2>2. QED
    BY <2>1 DEF SInvAt, Seen, Hashed, AsPlanned, Measured, Planning
<1>9. QED
  BY <1>1, <1>2, <1>3, <1>4, <1>5, <1>6, <1>7, <1>8

\* The last check, and the writes: what was written stays until the operation ends.
LEMMA WritingKeeps ==
  ASSUME IInv, NEW s \in Signers, SInvAt(s),
         VerifySource(s) \/ WriteAt(s) \/ WriteAtFails(s) \/ Truncate(s)
  PROVE  SInvAt(s)'
<1> USE DEF Goto, sourceVars, outVars, ghosts
<1>0. /\ pc \in [Signers -> Labels] /\ written \in [Signers -> Nat] /\ FileType
      /\ blocks \in [Files -> Seq(Block)] /\ mtime \in [Files -> Nat]
  BY DEF IInv, TypeOK, ControlType, FileType, OutType
<1> DEFINE H == Held(s)
           n == Len(H)
<1>t. /\ source[s] \in Files /\ H \in Seq(Block) /\ n \in Nat /\ DOMAIN H = 1..n
      /\ end[s] \in Nat /\ written[s] \in Nat /\ job[s].length \in Nat
      /\ Len(TailOf(s)) = job[s].length + 1 /\ DOMAIN TailOf(s) = 1..job[s].length + 1
      /\ plan[s] \in Seq(Block)
  BY SourceTypes
<1>1. CASE VerifySource(s)
  <2>1. /\ pc[s] = "verify" /\ pc'[s] = "write" /\ Unmodified(s)
        /\ UNCHANGED <<job, blocks, mtime, sourceVars, outVars, ghosts>>
    BY <1>0, <1>1 DEF VerifySource, sourceUnchanged, Unmodified
  <2>2. written[s] = 0 /\ Matches(s) /\ Len(plan[s]) = end[s]
    BY <2>1 DEF SInvAt, Hashed, Seen, Planning
  <2>3. Matches(s)' = Matches(s) /\ Forced(s)' = Forced(s) /\ TailWritten(s)'
    BY <2>1, <2>2 DEF Matches, Held, Forced, Signed, TailWritten
  <2>4. s \notin early => Forced(s)
    BY <2>1 DEF SInvAt, Measured, Planning
  <2>5. QED
    BY <2>1, <2>2, <2>3, <2>4, <1>t DEF SInvAt, Seen, Hashed, AsPlanned, Measured, Planning
<1>2. CASE WriteAtFails(s)
  <2>1. pc'[s] = "failed"
    BY <1>0, <1>2 DEF WriteAtFails
  <2>2. QED
    BY <2>1 DEF SInvAt, Seen, Hashed, AsPlanned, Measured, Planning
<1>w. ASSUME pc[s] = "write"
      PROVE  out[s] = source[s] /\ Len(plan[s]) = end[s] /\ (s \notin late => Matches(s) /\ TailWritten(s))
  BY <1>w DEF IInv, OutIsSource, SInvAt, Hashed, AsPlanned
<1>l. ASSUME NEW new, Change(source[s], new, {s}), UNCHANGED source
      PROVE  Held(s)' = new /\ (s \in late' <=> s \in late)
  BY <1>0, <1>t, <1>l DEF Change, Held
<1>3. CASE WriteAt(s)
  <2> DEFINE k == written[s] + 1
             at == end[s] + k
             m == Longer(at, n)
             new == Put(source[s], at, TailOf(s)[k])
  <2>1. /\ pc[s] = "write" /\ pc'[s] = "write" /\ k \in DOMAIN TailOf(s) /\ written'[s] = k
        /\ UNCHANGED <<job, sourceVars>>
    BY <1>0, <1>3 DEF WriteAt
  <2>2. Change(source[s], new, {s})
    <3>1. Change(out[s], Put(out[s], at, TailOf(s)[k]), {s})
      BY <1>3 DEF WriteAt
    <3>2. out[s] = source[s]
      BY <1>w, <2>1
    <3>3. QED
      BY <3>1, <3>2
  <2>3. Held(s)' = new /\ (s \in late' <=> s \in late)
    BY <1>l, <2>1, <2>2
  <2>4. /\ at \in Nat /\ m \in Nat /\ at <= m /\ n <= m /\ at \in 1..m
    <3>1. n \in Nat /\ end[s] \in Nat /\ k \in Nat \ {0}
      BY <1>t
    <3> HIDE DEF n, k
    <3>2. at \in Nat \ {0}
      BY <3>1
    <3> HIDE DEF at
    <3>3. QED
      BY <3>1, <3>2 DEF Longer
  <2>5. DOMAIN new = 1..m /\ \A j \in 1..m : new[j] = IF j = at THEN TailOf(s)[k]
                                                      ELSE IF j \in 1..n THEN H[j] ELSE Hole
    BY <1>t, <2>4 DEF Put, Resized, Held
  <2>6. TailOf(s)' = TailOf(s)
    BY <2>1 DEF TailOf, Signature
  <2> HIDE DEF at, m, new
  <2>7. Matches(s) => Matches(s)'
    <3> SUFFICES ASSUME Matches(s), NEW j \in 1..Len(plan[s])
                 PROVE  j \in DOMAIN new /\ new[j] = plan[s][j]
      BY <2>1, <2>3 DEF Matches
    <3>1. j \in 1..n /\ H[j] = plan[s][j]
      BY <1>t DEF Matches
    <3>2. j # at /\ j \in 1..m
      BY <1>t, <1>w, <2>1, <2>4, <3>1 DEF at
    <3>3. QED
      BY <2>5, <3>1, <3>2
  <2>8. TailWritten(s) => TailWritten(s)'
    <3> SUFFICES ASSUME TailWritten(s), NEW j \in 1..k
                 PROVE  end[s] + j \in DOMAIN new /\ new[end[s] + j] = TailOf(s)[j]
      BY <2>1, <2>3, <2>6 DEF TailWritten
    <3>1. CASE j = k
      BY <2>4, <2>5, <3>1 DEF at
    <3>2. CASE j # k
      <4>1. j \in 1..written[s]
        BY <1>t, <3>2
      <4>2. end[s] + j \in 1..n /\ H[end[s] + j] = TailOf(s)[j]
        BY <1>t, <4>1 DEF TailWritten
      <4>3. end[s] + j # at
        BY <1>t, <3>2, <4>1 DEF at
      <4>4. end[s] + j \in 1..m
        BY <1>t, <2>4, <4>2
      <4>5. QED
        BY <2>5, <4>2, <4>3, <4>4
    <3>3. QED
      BY <3>1, <3>2
  <2>9. written'[s] # 0 /\ written'[s] <= job'[s].length + 1
    BY <1>t, <2>1
  <2>10. QED
    BY <1>w, <2>1, <2>3, <2>7, <2>8, <2>9 DEF SInvAt, Seen, Hashed, AsPlanned, Measured, Planning
<1>4. CASE Truncate(s)
  <2> DEFINE l == end[s] + Len(TailOf(s))
             new == Resized(source[s], l)
  <2>1. /\ pc[s] = "write" /\ pc'[s] = "sync" /\ written[s] = Len(TailOf(s))
        /\ UNCHANGED <<job, sourceVars>>
    BY <1>0, <1>4 DEF Truncate
  <2>2. Change(source[s], new, {s})
    BY <1>4, <1>w, <2>1 DEF Truncate
  <2>3. Held(s)' = new /\ (s \in late' <=> s \in late)
    BY <1>l, <2>1, <2>2
  <2>4. l \in Nat
    BY <1>t
  <2>5. new = [j \in 1..l |-> IF j \in 1..n THEN H[j] ELSE Hole]
    BY <1>t DEF Resized, Held
  <2>6. ASSUME Matches(s), TailWritten(s) PROVE new = plan[s] \o TailOf(s)
    <3>1. ASSUME NEW j \in 1..l
          PROVE  j \in 1..n /\ H[j] = IF j <= Len(plan[s]) THEN plan[s][j] ELSE TailOf(s)[j - Len(plan[s])]
      <4>1. CASE j <= Len(plan[s])
        BY <1>t, <2>6, <4>1 DEF Matches
      <4>2. CASE j > Len(plan[s])
        <5>1. l = end[s] + written[s] /\ Len(plan[s]) = end[s]
          BY <1>w, <2>1
        <5> DEFINE i == j - end[s]
        <5>2. i \in 1..written[s] /\ end[s] + i = j
          BY <1>t, <4>2, <5>1
        <5> HIDE DEF i
        <5>3. end[s] + i \in DOMAIN H /\ H[end[s] + i] = TailOf(s)[i]
          BY <2>6, <5>2 DEF TailWritten
        <5>4. QED
          BY <1>t, <4>2, <5>1, <5>2, <5>3 DEF i
      <4>3. QED
        BY <1>t, <4>1, <4>2
    <3>2. Len(plan[s]) + Len(TailOf(s)) = l
      BY <1>t, <1>w, <2>1
    <3>3. TailOf(s) \in Seq(Block)
      <4>1. \A j \in 1..job[s].length + 1 : TailOf(s)[j] \in Block
        BY <2>1, TailBlocks, DiskImageAssumption DEF IInv, EndAfterPayload
      <4>2. TailOf(s) \in [1..job[s].length + 1 -> Block]
        BY <4>1 DEF TailOf
      <4>3. QED
        BY <1>t, <4>2
    <3>4. new \in Seq(Block) /\ Len(new) = l /\ \A j \in 1..l : new[j] = H[j]
      BY <1>0, <1>t, <2>4, <2>5, <3>1, ResizedIsFile
    <3> HIDE DEF l, new
    <3> DEFINE both == plan[s] \o TailOf(s)
    <3>5. /\ both \in Seq(Block) /\ Len(both) = l
          /\ \A j \in 1..l : both[j] = IF j <= Len(plan[s]) THEN plan[s][j] ELSE TailOf(s)[j - Len(plan[s])]
      BY <1>t, <3>2, <3>3, ConcatProperties
    <3> HIDE DEF both
    <3>6. new = both
      BY <3>1, <3>4, <3>5, SeqEqual
    <3>7. QED
      BY <3>6 DEF both
  <2>7. TailOf(s)' = TailOf(s) /\ plan' = plan
    BY <2>1 DEF TailOf, Signature
  <2>8. s \notin late' => Complete(s)'
    BY <1>w, <2>1, <2>3, <2>6, <2>7 DEF Complete, Held
  <2>9. QED
    BY <2>1, <2>8 DEF SInvAt, Seen, Hashed, AsPlanned, Measured, Planning
<1>5. QED
  BY <1>1, <1>2, <1>3, <1>4

LEMMA OtherOperations ==
  ASSUME IInv, NEW s \in Signers, SInvAt(s), NEW t \in Signers, t # s, Step(t)
  PROVE  SInvAt(s)'
<1> USE DEF Goto
<1>0. /\ job \in [Signers -> Jobs] /\ pc \in [Signers -> Labels] /\ source \in [Signers -> Files]
      /\ size \in [Signers -> Nat] /\ before \in [Signers -> [size : Nat, mtime : Nat]]
      /\ end \in [Signers -> Nat] /\ plan \in [Signers -> Seq(Block)] /\ written \in [Signers -> Nat]
      /\ out[t] \in Files
  BY DEF IInv, TypeOK, ControlType, SourceType, OutType
<1>1. ASSUME WriteAt(t) \/ WriteAtFails(t) \/ Truncate(t) PROVE SInvAt(s)'
  <2>1. LocalSame(s)
    BY <1>0, <1>1 DEF WriteAt, WriteAtFails, Truncate, LocalSame, sourceVars, outVars
  <2>2. PICK new \in Seq(Block) : Change(out[t], new, {t})
    BY <1>1, WritingContents
  <2>3. QED
    BY <1>0, <2>1, <2>2, ChangedByOthers
<1>2. ASSUME \/ openCodeSource(t) \/ isDMG(t) \/ signDMGFile(t) \/ ParseImage(t) \/ signDMGTailSource(t)
             \/ Lstat(t) \/ OpenFile(t) \/ VerifySource(t) \/ Sync(t) \/ Fail(t)
      PROVE  SInvAt(s)'
  <2>1. UNCHANGED <<blocks, mtime, early, late>>
    BY <1>2 DEF openCodeSource, isDMG, signDMGFile, ParseImage, signDMGTailSource, Lstat, OpenFile,
       VerifySource, Sync, Fail, ghosts
  <2>2. LocalSame(s)
    <3>1. CASE openCodeSource(t) \/ isDMG(t) \/ signDMGFile(t) \/ ParseImage(t)
      BY <1>0, <3>1 DEF openCodeSource, isDMG, signDMGFile, ParseImage, LocalSame, sourceVars, outVars
    <3>2. CASE signDMGTailSource(t) \/ Lstat(t) \/ OpenFile(t) \/ VerifySource(t) \/ Sync(t) \/ Fail(t)
      BY <1>0, <3>2 DEF signDMGTailSource, Lstat, OpenFile, VerifySource, Sync, Fail, LocalSame,
         sourceVars, outVars
    <3>3. QED
      BY <1>2, <3>1, <3>2
  <2>3. QED
    BY <2>1, <2>2, FileSame
<1>3. QED
  BY <1>1, <1>2 DEF Step

LEMMA OtherProgramsKeep ==
  ASSUME IInv, NEW s \in Signers, SInvAt(s), OtherPrograms
  PROVE  SInvAt(s)'
<1> DEFINE image == blocks[Image]
<1>0. /\ image \in Seq(Block) /\ Image \in Files /\ Payload \in Nat /\ Len(image) > Payload
      /\ writes \in Nat
  BY DiskImageAssumption DEF IInv, TypeOK, FileType, GhostType, Placed, Files, WellPlaced
<1>1. Data(writes + 1) \in Block
  BY <1>0 DEF Data, Block
<1>2. LocalSame(s)
  BY DEF OtherPrograms, Overwrite, Grow, Replace, LocalSame, sourceVars, outVars
<1>3. ASSUME NEW k \in 1..Payload, Overwrite(k) PROVE SInvAt(s)'
  <2>1. k \in 1..Len(image)
    BY <1>0
  <2>2. [image EXCEPT ![k] = Data(writes + 1)] \in Seq(Block)
    BY <1>0, <1>1, <2>1, UpdatedIsFile
  <2>3. QED
    BY <1>0, <1>2, <1>3, <2>2, ChangedByOthers DEF Overwrite
<1>4. CASE Grow
  <2>1. Append(image, Data(writes + 1)) \in Seq(Block)
    BY <1>0, <1>1
  <2>2. QED
    BY <1>0, <1>2, <1>4, <2>1, ChangedByOthers DEF Grow
<1>5. CASE Replace
  BY <1>2, <1>5, FileSame DEF Replace
<1>6. QED
  BY <1>3, <1>4, <1>5 DEF OtherPrograms

LEMMA SInvInit == Init => SInv
BY DEF Init, SInv, Seen, Hashed, AsPlanned, Measured, Planning

LEMMA SInvNext == IInv /\ SInv /\ [Next]_vars => SInv'
<1> SUFFICES ASSUME IInv, SInv, [Next]_vars, NEW s \in Signers PROVE SInvAt(s)'
  BY DEF SInv, SInvAt
<1>0. SInvAt(s)
  BY DEF SInv, SInvAt
<1>1. CASE Step(s)
  BY <1>0, <1>1, ReadingKeeps, WritingKeeps DEF Step
<1>2. ASSUME NEW t \in Signers, t # s, Step(t) PROVE SInvAt(s)'
  BY <1>0, <1>2, OtherOperations
<1>3. CASE OtherPrograms
  BY <1>0, <1>3, OtherProgramsKeep
<1>4. CASE UNCHANGED vars
  <2>1. LocalSame(s) /\ UNCHANGED <<blocks, mtime, early, late>>
    BY <1>4 DEF vars, LocalSame, sourceVars, outVars, ghosts
  <2>2. QED
    BY <1>0, <2>1, FileSame
<1>5. QED
  BY <1>1, <1>2, <1>3, <1>4 DEF Next

---------------------------------------------------------------------------
(* Theorems *)

THEOREM Invariance == Spec => []IInv
BY InitInv, NextInv, PTL DEF Spec

\* Every variable of the operations and of the files keeps its type, whatever
\* signDMGFile finds in a torn image.
THEOREM TypeCorrect == Spec => []TypeOK
<1>1. IInv => TypeOK
  BY DEF IInv
<1>2. QED
  BY <1>1, Invariance, PTL

\* populateDMGTailSource never changes a block of the payload: the trailers in
\* an image, those of failed and concurrent operations included, never make
\* parseDMGStructure return an end within it.
THEOREM PayloadIsUntouched == Spec => PayloadUntouched
<1> DEFINE Kept == \A f \in Files, k \in 1..Payload :
                     k \in DOMAIN blocks'[f] /\ blocks'[f][k] = blocks[f][k]
<1>1. ASSUME IInv, [Next]_vars PROVE [BySigner => Kept]_vars
  <2>1. ASSUME UNCHANGED blocks PROVE Kept
    BY <1>1, <2>1, DiskImageAssumption DEF IInv, TypeOK, FileType, Placed, WellPlaced
  <2>2. ASSUME NEW s \in Signers, WriteAt(s) \/ WriteAtFails(s) \/ Truncate(s)
        PROVE  Kept
    <3>1. PICK new \in Seq(Block) :
            /\ Change(out[s], new, {s})
            /\ \A k \in 1..Payload : k \in DOMAIN new /\ new[k] = blocks[out[s]][k]
      BY <1>1, <2>2, WritingContents
    <3>2. blocks' = [blocks EXCEPT ![out[s]] = new] /\ out[s] \in Files
          /\ blocks \in [Files -> Seq(Block)]
      BY <3>1, <1>1 DEF Change, IInv, TypeOK, OutType, FileType
    <3>3. ASSUME NEW f \in Files, NEW k \in 1..Payload
          PROVE  k \in DOMAIN blocks'[f] /\ blocks'[f][k] = blocks[f][k]
      <4>1. CASE f = out[s]
        BY <4>1, <3>1, <3>2
      <4>2. CASE f # out[s]
        <5>1. blocks'[f] = blocks[f]
          BY <4>2, <3>2
        <5>2. k \in DOMAIN blocks[f]
          BY <1>1, <3>2, DiskImageAssumption DEF IInv, Placed, WellPlaced
        <5>3. QED
          BY <5>1, <5>2
      <4>3. QED
        BY <4>1, <4>2
    <3>4. QED
      BY <3>3
  <2>3. ASSUME NEW s \in Signers, Step(s) PROVE Kept
    <3>1. CASE WriteAt(s) \/ WriteAtFails(s) \/ Truncate(s)
      BY <3>1, <2>2
    <3>2. CASE ~(WriteAt(s) \/ WriteAtFails(s) \/ Truncate(s))
      BY <3>2, <2>1, <2>3 DEF Step, openCodeSource, isDMG, signDMGFile, ParseImage,
         signDMGTailSource, Lstat, OpenFile, VerifySource, Sync, Fail
    <3>3. QED
      BY <3>1, <3>2
  <2>4. OtherPrograms => ~BySigner
    <3>1. writes \in Int
      BY <1>1, DiskImageAssumption DEF IInv, TypeOK, GhostType
    <3>2. OtherPrograms => writes' = writes + 1
      BY DEF OtherPrograms, Overwrite, Grow, Replace
    <3>3. QED
      BY <3>1, <3>2 DEF BySigner
  <2>5. QED
    BY <1>1, <2>3, <2>4 DEF Next
<1>2. QED
  BY <1>1, Invariance, PTL DEF Spec, PayloadUntouched

\* writeDMGTailSource writes into the file it hashed: a file that took its
\* place in the directory, even between Lstat and OpenFile, is not written.
THEOREM OnlyTheImageIsWritten == Spec => OnlyTheImage
<1> DEFINE A == \A s \in Signers : written'[s] # written[s] /\ blocks'[Other] # blocks[Other]
                  => source[s] = Other
<1>1. ASSUME IInv, [Next]_vars PROVE [A]_vars
  <2>1. ASSUME NEW s \in Signers, WriteAt(s) PROVE A
    <3>1. out[s] = source[s] /\ source[s] \in Files
      BY <1>1, <2>1 DEF WriteAt, IInv, OutIsSource, TypeOK, SourceType
    <3>2. \A f \in Files : f # out[s] => blocks'[f] = blocks[f]
      BY <1>1, <2>1 DEF WriteAt, Change, IInv, TypeOK, FileType
    <3>3. \A t \in Signers : written'[t] # written[t] => t = s
      BY <1>1, <2>1 DEF WriteAt, IInv, TypeOK, OutType
    <3>4. QED
      BY <3>1, <3>2, <3>3 DEF Files
  <2>2. ASSUME NEW s \in Signers, Step(s) PROVE A
    <3>1. CASE WriteAt(s)
      BY <3>1, <2>1
    <3>2. CASE ~WriteAt(s)
      BY <3>2, <2>2 DEF Step, openCodeSource, isDMG, signDMGFile, ParseImage, signDMGTailSource,
         Lstat, OpenFile, VerifySource, WriteAtFails, Truncate, Sync, Fail, outVars
    <3>3. QED
      BY <3>1, <3>2
  <2>3. OtherPrograms => A
    BY DEF OtherPrograms, Overwrite, Grow, Replace, outVars
  <2>4. QED
    BY <1>1, <2>2, <2>3 DEF Next
<1>2. QED
  BY <1>1, Invariance, PTL DEF Spec, OnlyTheImage

LEMMA SeenInvariance == Spec => [](IInv /\ SInv)
BY InitInv, NextInv, SInvInit, SInvNext, PTL DEF Spec

\* After writeDMGTailSource succeeds the image is the payload that was hashed, the
\* whole signature over it and its trailer, and nothing else, whatever torn tails it
\* had, unless it was changed after the last check (dmg_source.go:81-107).
THEOREM SuccessIsCompleteHolds == Spec => []SuccessIsComplete
<1>1. IInv /\ SInv => SuccessIsComplete
  BY DEF IInv, SInv, AsPlanned, SuccessIsComplete, CompleteOnSuccess
<1>2. QED
  BY <1>1, SeenInvariance, PTL

\* Without Force a signed image is refused (signature_signing.go:28-40), and one that
\* another process signs after that is not written either.
THEOREM SignedNeedsForceHolds == Spec => SignedNeedsForce
<1> DEFINE A == \A s \in Signers : /\ written[s] = 0 /\ written'[s] = 1
                                   /\ s \notin late \cup early /\ ~job[s].force
                  => ~Signed(out[s])
<1>1. ASSUME IInv, SInv, [Next]_vars PROVE [A]_vars
  <2>1. ASSUME NEW s \in Signers, WriteAt(s), written[s] = 0, s \notin late \cup early, ~job[s].force
        PROVE  ~Signed(out[s])
    <3>1. pc[s] = "write" /\ out[s] = source[s]
      BY <1>1, <2>1 DEF WriteAt, IInv, OutIsSource
    <3>2. QED
      BY <1>1, <2>1, <3>1 DEF SInv, Measured, Forced
  <2>2. ASSUME NEW s \in Signers, NEW t \in Signers, Step(t), written'[s] # written[s] PROVE WriteAt(s)
    BY <1>1, <2>2 DEF Step, openCodeSource, isDMG, signDMGFile, ParseImage, signDMGTailSource, Lstat,
       OpenFile, VerifySource, WriteAt, WriteAtFails, Truncate, Sync, Fail, outVars, IInv, TypeOK, OutType
  <2>3. OtherPrograms => UNCHANGED written
    BY DEF OtherPrograms, Overwrite, Grow, Replace, outVars
  <2>4. written \in [Signers -> Nat]
    BY <1>1 DEF IInv, TypeOK, OutType
  <2>5. Next => A
    BY <2>1, <2>2, <2>3, <2>4 DEF Next
  <2>6. QED
    BY <1>1, <2>5
<1>2. QED
  BY <1>1, SeenInvariance, PTL DEF Spec, SignedNeedsForce
=============================================================================
