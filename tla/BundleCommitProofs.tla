------------------------ MODULE BundleCommitProofs ------------------------
(***************************************************************************)
(* Proofs about BundleCommit for every tree of bundles, every plan of the   *)
(* shape that BundlePlan gives it, and any number of interferences.         *)
(*                                                                          *)
(* The inductive invariant says what the two loops have settled about the   *)
(* writes before the index, and how the step in progress can be at hand;    *)
(* nothing but the plan's order makes a refusal reach every ancestor before *)
(* its executable is looked at.                                             *)
(***************************************************************************)
EXTENDS BundleCommit, SequenceTheorems, TLAPS

Preparing  == {"prepare", "transfer", "verify"}
Committing == {"commit", "original", "access", "check", "rename", "recompress",
               "purge", "record", "directory", "envelope"}
Returned   == {"cleanup", "close", "done"}

IsMain(j) == writes[j].kind = "macho" /\ writes[j].node \in Bundles

\* The preparation loop has passed write j.
Passed(j) == (pc \in Preparing /\ j < i) \/ pc \in Committing

\* Write j is not skipped by the commit loop.
Unblocked(j) == writes[j].bundle \notin blocked

\* Which writes the step in progress can be about.
AtHand ==
  /\ pc \in Committing => ~request.dryRun
  /\ pc \notin Returned => result = "none"
  /\ pc \in {"transfer", "verify"} =>
       /\ i \in DOMAIN writes /\ write.kind = "macho" /\ i \in prepared
       /\ ~request.dryRun /\ ~ChildFailed /\ (isMain => Unblocked(i))
  /\ pc = "original" => i \in DOMAIN writes /\ i \in allocated
  /\ pc \in {"access", "check", "rename", "recompress", "purge", "record"} =>
       /\ i \in DOMAIN writes /\ i \in prepared
       /\ isMain => Unblocked(i)
  /\ pc = "purge" => write.cleanup # "none"
  /\ pc \in {"directory", "envelope"} =>
       i \in DOMAIN writes /\ write.kind = "resource" /\ Unblocked(i)

\* What the preparation loop does with the executables it has passed.
Staged ==
  /\ \A j \in allocated : writes[j].kind = "macho" /\ (pc \in Preparing => j < i)
  /\ \A j \in prepared :
       /\ writes[j].kind = "macho" /\ j \notin allocated
       /\ pc = "prepare" => j < i
       /\ pc \in {"transfer", "verify"} => j <= i
  /\ \A j \in DOMAIN writes :
       Passed(j) /\ writes[j].kind = "macho" /\ ~request.dryRun =>
         j \in allocated \cup prepared \/ (IsMain(j) /\ ~Unblocked(j))

\* A refusal is remembered for the bundle it is in and, once their executables
\* have been passed, for all bundles above.
Remembered ==
  /\ blocked \subseteq failed
  /\ \A b \in blocked : Tainted(b)
  /\ \A b \in failed : Tainted(b) \/ b \in Refused
  /\ \A j \in allocated :
       writes[j].bundle \in failed /\ (writes[j].node \in Helpers => ~Unblocked(j))
  /\ \A j \in DOMAIN writes :
       Passed(j) /\ IsMain(j)
         /\ (Tainted(writes[j].node) \/ Children(writes[j].node) \cap failed # {})
       => ~Unblocked(j)

\* Before the commit loop, and in a dry run, nothing is published.
Unpublished ==
  pc \in Preparing \/ request.dryRun =>
    /\ \A n \in Nodes : target[n] # "new"
    /\ \A b \in Bundles : envelope[b] \in {"old", "absent"}

\* What is published was written, and by the commit loop so far.
PublishedByLoop ==
  \A n \in Nodes :
    target[n] = "new" =>
      \E j \in DOMAIN writes :
        /\ writes[j].kind = "macho" /\ writes[j].node = n
        /\ pc \in Committing =>
             j < i \/ (j = i /\ pc \in {"recompress", "purge", "record"})

\* Everything the commit loop had to do for write j.
Performed(j) ==
  /\ writes[j].kind = "resource" /\ Unblocked(j) => envelope[writes[j].bundle] = "new"
  /\ writes[j].kind = "macho" /\ j \notin allocated /\ (IsMain(j) => Unblocked(j)) =>
       /\ target[writes[j].node] # "old"
       /\ writes[j].cleanup # "none" => sidecars[writes[j].bundle] = {}
       /\ writes[j].cleanup = "all" => envelope[writes[j].bundle] = "absent"

LoopSoFar ==
  /\ pc \in Committing => \A j \in 1..(i - 1) : Performed(j)
  /\ pc \in {"recompress", "purge", "record"} => target[node] # "old"
  /\ pc = "record" => Performed(i)
  /\ result \in {"nil", "allocation"} /\ ~request.dryRun =>
       \A j \in DOMAIN writes : Performed(j)

\* Sources stay held until their staged file was checked against them.
SourcesHeld ==
  /\ pc # "done" /\ ~request.dryRun =>
       \A j \in Envelopes : NestedIn(writes[j].bundle) \ writes[j].seals \subseteq held
  /\ \A j \in prepared : Passed(j) => writes[j].node \notin held
  /\ pc \in {"check", "rename"} =>
       \A h \in {"source", "file"} : <<i, h>> \notin handles
  /\ pc \in {"close", "done"} => handles = {}
  /\ pc = "done" => held = {}

\* The identity checks before a rename still count, or the change is too late.
Checked ==
  /\ pc = "check" => node \notin modified \/ node \in late
  /\ pc = "rename" => Intact(node) \/ node \in late

\* Mixed contents are found out before the loop goes on.
MixedIsRefused ==
  mixed # {} =>
    /\ pc \in Returned \/ (pc = "verify" /\ node \in modified)
    /\ \A n \in Nodes : target[n] # "new"

IInv ==
  /\ request \in Requests /\ TypeOK
  /\ AtHand /\ Staged /\ Remembered
  /\ Unpublished /\ PublishedByLoop /\ LoopSoFar
  /\ SourcesHeld /\ Checked /\ MixedIsRefused
  /\ PublishedSealsHold /\ FailureContained /\ NilMeansSealed
---------------------------------------------------------------------------
(* The tree and the plan *)

\* What is nested in b, and what is below that, is below b.
LEMMA BelowFacts ==
  ASSUME NEW b \in Bundles
  PROVE  /\ NestedIn(b) \subseteq Nodes
         /\ Below[b] \subseteq Nodes
         /\ NestedIn(b) \subseteq Below[b]
         /\ \A c \in Children(b) : c \in Bundles /\ Below[c] \subseteq Below[b]
<1>1. NestedIn(b) \subseteq Nodes
  BY TreeAssumption DEF NestedIn
<1>2. Below[b] \subseteq Nodes
  BY DEF Below
<1>3. NestedIn(b) \subseteq Below[b]
  BY <1>1 DEF Below
<1>4. ASSUME NEW c \in Children(b), NEW n \in Below[c]
      PROVE  n \in Below[b]
  <2>1. c \in NestedIn(b) /\ c \in Bundles
    BY <1>4 DEF Children
  <2>2. SUFFICES ASSUME NEW S \in SUBSET Nodes,
                        NestedIn(b) \subseteq S, ClosedBelow(S)
                 PROVE  n \in S
    BY <1>4, <2>1 DEF Below
  <2>3. NestedIn(c) \subseteq S
    BY <2>1, <2>2 DEF ClosedBelow
  <2>4. QED
    BY <1>4, <2>1, <2>2, <2>3 DEF Below
<1>5. QED
  BY <1>1, <1>2, <1>3, <1>4 DEF Children

\* A node is nested directly in at most one bundle.
LEMMA OneParent ==
  ASSUME NEW b \in Bundles, NEW c \in Bundles, NEW n \in NestedIn(b), n \in NestedIn(c)
  PROVE  b = c
<1>1. n \in Range(Nested[b]) /\ n \in Range(Nested[c])
  BY DEF NestedIn, Range
<1>2. QED
  BY <1>1, TreeAssumption

\* The fields of a write.
LEMMA WriteType ==
  ASSUME request \in Requests, NEW j \in DOMAIN writes
  PROVE  /\ writes[j].kind \in {"macho", "resource"}
         /\ writes[j].bundle \in Bundles /\ writes[j].node \in Nodes
         /\ writes[j].cleanup \in Cleanups /\ writes[j].seals \in SUBSET Nodes
<1>1. writes \in Seq(Write)
  BY CommitAssumption DEF writes
<1>2. writes[j] \in Write
  BY <1>1
<1>3. QED
  BY <1>2 DEF Write

LEMMA Indices ==
  ASSUME request \in Requests
  PROVE  /\ Len(writes) \in Nat /\ DOMAIN writes = 1..Len(writes)
         /\ request.dryRun \in BOOLEAN /\ request.failure \in BOOLEAN
         /\ request.held \subseteq Nodes
<1>1. writes \in Seq(Write)
  BY CommitAssumption DEF writes
<1>2. QED
  BY <1>1, CommitAssumption, LenProperties

LEMMA Unique ==
  ASSUME request \in Requests, NEW j \in DOMAIN writes, NEW k \in DOMAIN writes,
         writes[j].kind = writes[k].kind, writes[j].node = writes[k].node
  PROVE  j = k
<1>1. PlanShape(writes)
  BY CommitAssumption DEF writes
<1>2. QED
  BY <1>1 DEF PlanShape

\* The shape of the write of a main executable, a helper and an envelope.
LEMMA MainShape ==
  ASSUME request \in Requests, NEW j \in DOMAIN writes, IsMain(j)
  PROVE  writes[j].bundle = writes[j].node /\ writes[j].cleanup # "none"
<1>1. PlanShape(writes)
  BY CommitAssumption DEF writes
<1>2. QED
  BY <1>1 DEF PlanShape, IsMain

LEMMA HelperShape ==
  ASSUME request \in Requests, NEW j \in DOMAIN writes, writes[j].node \notin Bundles
  PROVE  /\ writes[j].node \in Helpers /\ writes[j].kind = "macho"
         /\ writes[j].node \in NestedIn(writes[j].bundle)
         /\ writes[j].cleanup = "none"
<1>1. PlanShape(writes)
  BY CommitAssumption DEF writes
<1>2. writes[j].node \in Helpers
  BY WriteType DEF Nodes
<1>3. writes[j].kind # "resource"
  BY <1>1, WriteType DEF PlanShape
<1>4. QED
  BY <1>1, <1>2, <1>3, WriteType DEF PlanShape

LEMMA EnvelopeShape ==
  ASSUME request \in Requests, NEW j \in Envelopes
  PROVE  /\ j + 1 \in DOMAIN writes /\ IsMain(j + 1)
         /\ writes[j].node = writes[j].bundle
         /\ writes[j + 1].node = writes[j].bundle
         /\ writes[j + 1].cleanup = "keep"
<1>1. PlanShape(writes)
  BY CommitAssumption DEF writes
<1>2. j \in DOMAIN writes /\ writes[j].kind = "resource"
  BY DEF Envelopes
<1>3. writes[j].bundle \in Bundles
  BY <1>2, WriteType
<1>4. QED
  BY <1>1, <1>2, <1>3 DEF PlanShape, IsMain

\* What is written below a bundle is written before it, and is nested in it or
\* below a nested bundle that is written as well.
LEMMA PlanOrder ==
  ASSUME request \in Requests, NEW j \in DOMAIN writes, writes[j].node \in Bundles,
         NEW k \in DOMAIN writes, writes[k].node \in Below[writes[j].bundle]
  PROVE  /\ k < j
         /\ \/ writes[k].node \in NestedIn(writes[j].bundle)
            \/ \E c \in Children(writes[j].bundle), l \in DOMAIN writes :
                 /\ writes[l].kind = "macho" /\ writes[l].node = c
                 /\ writes[k].node \in Below[c]
<1>1. PlanShape(writes)
  BY CommitAssumption DEF writes
<1>2. QED
  BY <1>1 DEF PlanShape, Written

\* What an envelope seals as new is written, and the rest is not.
LEMMA SealedIsWritten ==
  ASSUME request \in Requests, ~request.dryRun, NEW j \in Envelopes,
         NEW n \in NestedIn(writes[j].bundle)
  PROVE  /\ n \in writes[j].seals <=>
              \E k \in DOMAIN writes : writes[k].kind = "macho" /\ writes[k].node = n
         /\ n \notin writes[j].seals => n \in request.held
<1>1. SealsMatch(request)
  BY CommitAssumption, Indices DEF writes
<1>2. j \in DOMAIN request.writes /\ request.writes[j].kind = "resource"
  BY DEF Envelopes, writes
<1>3. QED
  BY <1>1, <1>2 DEF SealsMatch, Written, writes

\* Nobody changes the request.
LEMMA RequestKept == [Next]_vars => request' = request
BY DEF Next, Step, Environment, CallFails, vars, SkipResource, Block, Allocate,
       AllocationRefused, AllocateFails, Transfer, VerifySource, EndPrepare,
       BeginCommit, RecordOriginal, CopySourceAccess, CheckTarget, Rename,
       Recompress, Purge, RecordAccess, CreateDirectory, WriteResource, EndCommit,
       CloseReplacements, CloseBundle, Cancel, Substitute, Modify, Fail

---------------------------------------------------------------------------
(* Types *)

LEMMA InitType == Init => TypeOK
<1> SUFFICES ASSUME Init PROVE TypeOK
  OBVIOUS
<1>1. request \in Requests
  BY DEF Init
<1>2. writes \in Seq(Write) /\ Len(writes) \in Nat
  BY <1>1, Indices, CommitAssumption DEF writes
<1>3. sidecars \in [Bundles -> SUBSET Range(Entries)]
  BY CommitAssumption DEF Init
<1>4. envelope \in [Bundles -> {"old", "absent", "partial", "new"}] /\ directory \subseteq Bundles
  BY DEF Init
<1>5. held \subseteq Nodes /\ request.dryRun \in BOOLEAN
  BY <1>1, Indices DEF Init
<1>6. i \in 1..(Len(writes) + 1) /\ interference \in 0..MaxInterference
  BY <1>2, CommitAssumption DEF Init
<1>7. target \in [Nodes -> {"old", "new", "foreign"}]
  BY DEF Init
<1>8. QED
  BY <1>2, <1>3, <1>4, <1>5, <1>6, <1>7 DEF Init, TypeOK, Labels

LEMMA TypeStep == IInv /\ [Next]_vars => TypeOK'
<1> SUFFICES ASSUME IInv, [Next]_vars PROVE TypeOK'
  OBVIOUS
<1> USE DEF write, bundle, node, isMain, Continue, NextWrite, Return,
            stagingVars, diskVars, worldVars
<1>1. request' = request /\ writes' = writes
  BY RequestKept DEF writes
<1>2. TypeOK /\ request \in Requests /\ AtHand
  BY DEF IInv
<1>3. /\ Len(writes) \in Nat /\ DOMAIN writes = 1..Len(writes)
      /\ i \in 1..(Len(writes) + 1)
  BY <1>2, Indices DEF TypeOK
<1>4. i <= Len(writes) => write.bundle \in Bundles /\ write.node \in Nodes /\ i \in DOMAIN writes
  BY <1>2, <1>3, WriteType
<1>5. CASE SkipResource
  BY <1>1, <1>2, <1>3, <1>5 DEF SkipResource, TypeOK, Labels
<1>6. CASE Block
  BY <1>1, <1>2, <1>3, <1>4, <1>6 DEF Block, TypeOK, Labels
<1>7. CASE Allocate
  BY <1>1, <1>2, <1>3, <1>4, <1>7 DEF Allocate, MayStage, TypeOK, Labels
<1>8. CASE AllocationRefused
  BY <1>1, <1>2, <1>3, <1>4, <1>8 DEF AllocationRefused, MayStage, TypeOK, Labels
<1>9. CASE Transfer
  BY <1>1, <1>2, <1>3, <1>9 DEF Transfer, AtHand, TypeOK, Labels
<1>10. CASE VerifySource
  BY <1>1, <1>2, <1>3, <1>10 DEF VerifySource, AtHand, TypeOK, Labels
<1>11. CASE EndPrepare
  BY <1>1, <1>2, <1>3, <1>11 DEF EndPrepare, TypeOK, Labels
<1>12. CASE BeginCommit
  <2>1. i' \in 1..(Len(writes) + 1) /\ pc' \in Labels
    BY <1>3, <1>12 DEF BeginCommit, Labels
  <2>2. QED
    BY <1>1, <1>2, <1>12, <2>1 DEF BeginCommit, TypeOK
<1>13. CASE RecordOriginal
  BY <1>1, <1>2, <1>3, <1>13 DEF RecordOriginal, AtHand, TypeOK, Labels
<1>14. CASE CopySourceAccess
  BY <1>1, <1>2, <1>3, <1>14 DEF CopySourceAccess, AtHand, TypeOK, Labels
<1>15. CASE CheckTarget
  BY <1>1, <1>2, <1>3, <1>15 DEF CheckTarget, TypeOK, Labels
<1>16. CASE Rename
  BY <1>1, <1>2, <1>3, <1>16 DEF Rename, TypeOK, Labels
<1>17. CASE Recompress
  BY <1>1, <1>2, <1>3, <1>17 DEF Recompress, TypeOK, Labels
<1>18. ASSUME NEW k \in 0..Len(Entries), Purge(k) PROVE TypeOK'
  <2>1. sidecars' \in [Bundles -> SUBSET Range(Entries)]
    BY <1>2, <1>18 DEF Purge, TypeOK
  <2>2. envelope' \in [Bundles -> {"old", "absent", "partial", "new"}]
    BY <1>2, <1>18 DEF Purge, TypeOK
  <2>3. QED
    BY <1>1, <1>2, <1>3, <1>18, <2>1, <2>2 DEF Purge, TypeOK, Labels
<1>19. CASE RecordAccess
  BY <1>1, <1>2, <1>3, <1>19 DEF RecordAccess, AtHand, TypeOK, Labels
<1>20. CASE CreateDirectory
  BY <1>1, <1>2, <1>3, <1>4, <1>20 DEF CreateDirectory, AtHand, TypeOK, Labels
<1>21. CASE WriteResource
  <2>1. envelope' \in [Bundles -> {"old", "absent", "partial", "new"}]
    BY <1>2, <1>21 DEF WriteResource, TypeOK
  <2>2. QED
    BY <1>1, <1>2, <1>3, <1>21, <2>1 DEF WriteResource, AtHand, TypeOK, Labels
<1>22. CASE EndCommit
  BY <1>1, <1>2, <1>3, <1>22 DEF EndCommit, TypeOK, Labels
<1>23. CASE CallFails
  BY <1>1, <1>2, <1>3, <1>23 DEF CallFails, AllocateFails, Fail, TypeOK, Labels
<1>24. CASE CloseReplacements
  BY <1>1, <1>2, <1>3, <1>24 DEF CloseReplacements, TypeOK, Labels
<1>25. CASE CloseBundle
  BY <1>1, <1>2, <1>3, <1>25 DEF CloseBundle, TypeOK, Labels
<1>26. CASE Cancel
  BY <1>1, <1>2, <1>3, <1>26 DEF Cancel, TypeOK
<1>27. ASSUME NEW n \in Nodes, Substitute(n) \/ Modify(n) PROVE TypeOK'
  <2>1. interference' \in 0..MaxInterference
    BY <1>2, <1>27, CommitAssumption DEF Substitute, Modify, TypeOK
  <2>2. QED
    BY <1>1, <1>2, <1>27, <2>1 DEF Substitute, Modify, TypeOK
<1>28. CASE UNCHANGED vars
  BY <1>1, <1>2, <1>28 DEF vars, TypeOK
<1>29. QED
  BY <1>5, <1>6, <1>7, <1>8, <1>9, <1>10, <1>11, <1>12, <1>13, <1>14, <1>15, <1>16,
     <1>17, <1>18, <1>19, <1>20, <1>21, <1>22, <1>23, <1>24, <1>25, <1>26, <1>27,
     <1>28 DEF Next, Step, Environment

---------------------------------------------------------------------------
(* The step in progress *)

\* isMain compares the name of the write with the bundle's executable.
LEMMA MainIsBundle ==
  ASSUME request \in Requests, i \in DOMAIN writes
  PROVE  isMain <=> IsMain(i)
BY MainShape, WriteType DEF isMain, IsMain, write, node, bundle

LEMMA AtHandStep == IInv /\ [Next]_vars => AtHand'
<1> SUFFICES ASSUME IInv, [Next]_vars PROVE AtHand'
  OBVIOUS
<1> USE DEF write, bundle, node, isMain, Continue, NextWrite, Return,
            stagingVars, diskVars, worldVars, Unblocked, ChildFailed
<1>1. request' = request /\ writes' = writes
  BY RequestKept DEF writes
<1>2. TypeOK /\ request \in Requests /\ AtHand /\ Staged
  BY DEF IInv
<1>3. /\ Len(writes) \in Nat /\ DOMAIN writes = 1..Len(writes)
      /\ i \in 1..(Len(writes) + 1)
      /\ i <= Len(writes) => i \in DOMAIN writes
  BY <1>2, Indices DEF TypeOK
<1>5. CASE SkipResource
  BY <1>1, <1>2, <1>5 DEF SkipResource, AtHand, Committing, Returned
<1>6. CASE Block
  BY <1>1, <1>2, <1>6 DEF Block, AtHand, Committing, Returned
<1>7. CASE Allocate
  BY <1>1, <1>2, <1>3, <1>7 DEF Allocate, MayStage, AtHand, Committing, Returned
<1>8. CASE AllocationRefused
  BY <1>1, <1>2, <1>8 DEF AllocationRefused, MayStage, AtHand, Committing, Returned
<1>9. CASE Transfer
  BY <1>1, <1>2, <1>9 DEF Transfer, AtHand, Committing, Returned
<1>10. CASE VerifySource
  BY <1>1, <1>2, <1>10 DEF VerifySource, AtHand, Committing, Returned
<1>11. CASE EndPrepare
  BY <1>1, <1>2, <1>11, Indices DEF EndPrepare, AtHand, Committing, Returned
<1>12. CASE BeginCommit
  <2>1. pc = "commit" /\ i \in DOMAIN writes
    BY <1>3, <1>12 DEF BeginCommit
  <2>2. /\ ~request.dryRun /\ result = "none" /\ result' = "none"
        /\ prepared' = prepared /\ blocked' = blocked
    BY <1>2, <1>12, <2>1 DEF BeginCommit, AtHand, Committing, Returned
  <2>3. CASE Skipped
    BY <1>1, <1>12, <2>2, <2>3 DEF BeginCommit, AtHand, Committing, Returned
  <2>4. CASE ~Skipped /\ i \in allocated
    <3>1. pc' = "original" /\ i' = i
      BY <1>2, <1>12, <2>4 DEF BeginCommit, Staged
    <3>2. allocated' = allocated
      BY <1>12 DEF BeginCommit
    <3>3. QED
      BY <1>1, <2>1, <2>2, <2>4, <3>1, <3>2 DEF AtHand, Committing, Returned
  <2>5. CASE ~Skipped /\ i \notin allocated /\ i \in prepared
    <3>1. pc' = "access" /\ i' = i
      BY <1>12, <2>5 DEF BeginCommit
    <3>2. isMain => Unblocked(i)
      BY <2>5 DEF Skipped
    <3>3. QED
      BY <1>1, <2>1, <2>2, <2>5, <3>1, <3>2 DEF AtHand, Committing, Returned
  <2>6. CASE ~Skipped /\ i \notin allocated /\ i \notin prepared
    <3>1. pc' = "directory" /\ i' = i
      BY <1>12, <2>6 DEF BeginCommit
    <3>2. write.kind # "macho"
      <4>1. Passed(i)
        BY <2>1 DEF Passed, Committing
      <4>2. write.kind = "macho" => isMain /\ ~Unblocked(i)
        BY <1>2, <2>1, <2>2, <2>6, <4>1, MainIsBundle DEF Staged
      <4>3. QED
        BY <2>6, <4>2 DEF Skipped
    <3>3. write.kind = "resource" /\ Unblocked(i)
      BY <1>2, <2>1, <2>6, <3>2, WriteType DEF Skipped
    <3>4. QED
      BY <1>1, <2>1, <2>2, <3>1, <3>3 DEF AtHand, Committing, Returned
  <2>7. QED
    BY <2>3, <2>4, <2>5, <2>6
<1>13. CASE RecordOriginal
  BY <1>1, <1>2, <1>13 DEF RecordOriginal, AtHand, Committing, Returned
<1>14. CASE CopySourceAccess
  BY <1>1, <1>2, <1>14 DEF CopySourceAccess, AtHand, Committing, Returned
<1>15. CASE CheckTarget
  BY <1>1, <1>2, <1>15 DEF CheckTarget, AtHand, Committing, Returned
<1>16. CASE Rename
  BY <1>1, <1>2, <1>16 DEF Rename, AtHand, Committing, Returned
<1>17. CASE Recompress
  BY <1>1, <1>2, <1>17 DEF Recompress, AtHand, Committing, Returned
<1>18. ASSUME NEW k \in 0..Len(Entries), Purge(k) PROVE AtHand'
  <2>1. \/ pc' = "record" /\ result' = result
        \/ pc' = "cleanup"
    BY <1>18 DEF Purge
  <2>2. pc = "purge" /\ i' = i /\ prepared' = prepared /\ blocked' = blocked
    BY <1>18 DEF Purge
  <2>3. QED
    BY <1>1, <1>2, <2>1, <2>2 DEF AtHand, Committing, Returned
<1>19. CASE RecordAccess
  BY <1>1, <1>2, <1>19 DEF RecordAccess, AtHand, Committing, Returned
<1>20. CASE CreateDirectory
  BY <1>1, <1>2, <1>20 DEF CreateDirectory, AtHand, Committing, Returned
<1>21. CASE WriteResource
  BY <1>1, <1>2, <1>21 DEF WriteResource, AtHand, Committing, Returned
<1>22. CASE EndCommit
  BY <1>1, <1>2, <1>22 DEF EndCommit, AtHand, Committing, Returned
<1>23. CASE CallFails
  BY <1>1, <1>2, <1>23 DEF CallFails, AllocateFails, Fail, AtHand, Committing, Returned
<1>24. CASE CloseReplacements
  BY <1>1, <1>2, <1>24 DEF CloseReplacements, AtHand, Committing, Returned
<1>25. CASE CloseBundle
  BY <1>1, <1>2, <1>25 DEF CloseBundle, AtHand, Committing, Returned
<1>26. CASE Cancel
  BY <1>1, <1>2, <1>26 DEF Cancel, AtHand
<1>27. ASSUME NEW n \in Nodes, Substitute(n) \/ Modify(n) PROVE AtHand'
  BY <1>1, <1>2, <1>27 DEF Substitute, Modify, AtHand
<1>28. CASE UNCHANGED vars
  BY <1>1, <1>2, <1>28 DEF vars, AtHand
<1>29. QED
  BY <1>5, <1>6, <1>7, <1>8, <1>9, <1>10, <1>11, <1>12, <1>13, <1>14, <1>15, <1>16,
     <1>17, <1>18, <1>19, <1>20, <1>21, <1>22, <1>23, <1>24, <1>25, <1>26, <1>27,
     <1>28 DEF Next, Step, Environment

---------------------------------------------------------------------------
(* What the preparation loop settles *)

\* A step that is not one of five leaves what was decided, and passes no write.
Settled ==
  /\ UNCHANGED <<allocated, failed, blocked>>
  /\ prepared' = prepared \/ (prepared' = {} /\ pc' \in Returned)
  /\ \A j \in DOMAIN writes : Passed(j)' => Passed(j)
  /\ pc' \in Preparing => pc \in Preparing /\ i' = i
  /\ pc' = "prepare" => pc = "prepare"

LEMMA PreparationStep ==
  IInv /\ [Next]_vars =>
    SkipResource \/ Block \/ Allocate \/ AllocationRefused \/ VerifySource \/ Settled
<1> SUFFICES ASSUME IInv, [Next]_vars,
                    ~SkipResource, ~Block, ~Allocate, ~AllocationRefused, ~VerifySource
             PROVE  Settled
  OBVIOUS
<1> USE DEF Continue, NextWrite, Return, stagingVars, Passed, Preparing, Committing,
            Returned, Settled
<1>3. DOMAIN writes = 1..Len(writes) /\ Len(writes) \in Nat /\ i \in Nat
  BY Indices DEF IInv, TypeOK
<1>9. CASE Transfer
  BY <1>9 DEF Transfer
<1>11. CASE EndPrepare
  BY <1>3, <1>11 DEF EndPrepare
<1>12. CASE BeginCommit
  BY <1>12 DEF BeginCommit
<1>13. CASE RecordOriginal \/ RecordAccess
  BY <1>13 DEF RecordOriginal, RecordAccess
<1>14. CASE CopySourceAccess \/ CheckTarget \/ Rename \/ Recompress
  BY <1>14 DEF CopySourceAccess, CheckTarget, Rename, Recompress
<1>18. ASSUME NEW k \in 0..Len(Entries), Purge(k) PROVE Settled
  BY <1>18 DEF Purge
<1>20. CASE CreateDirectory \/ WriteResource \/ EndCommit
  BY <1>20 DEF CreateDirectory, WriteResource, EndCommit
<1>23. CASE CallFails
  BY <1>23 DEF CallFails, AllocateFails, Fail
<1>24. CASE CloseReplacements \/ CloseBundle
  BY <1>24 DEF CloseReplacements, CloseBundle
<1>26. CASE Cancel
  BY <1>26 DEF Cancel
<1>27. ASSUME NEW n \in Nodes, Substitute(n) \/ Modify(n) PROVE Settled
  BY <1>27 DEF Substitute, Modify
<1>28. CASE UNCHANGED vars
  BY <1>28 DEF vars
<1>29. QED
  BY <1>9, <1>11, <1>12, <1>13, <1>14, <1>18, <1>20, <1>23, <1>24, <1>26, <1>27, <1>28
     DEF Next, Step, Environment

LEMMA StagedStep == IInv /\ [Next]_vars => Staged'
<1> SUFFICES ASSUME IInv, [Next]_vars PROVE Staged'
  OBVIOUS
<1> USE DEF write, bundle, node, isMain, Continue, NextWrite, stagingVars, Preparing,
            Passed, Committing, Unblocked
<1>1. request' = request /\ writes' = writes
  BY RequestKept DEF writes
<1>2. request \in Requests /\ AtHand /\ Staged
  BY DEF IInv
<1>3. /\ DOMAIN writes = 1..Len(writes) /\ Len(writes) \in Nat /\ i \in Nat
      /\ allocated \subseteq DOMAIN writes /\ prepared \subseteq DOMAIN writes
      /\ i >= 1
  BY Indices DEF IInv, TypeOK
<1>5. CASE SkipResource
  BY <1>1, <1>2, <1>3, <1>5 DEF SkipResource, Staged, IsMain
<1>6. CASE Block
  <2>1. i \in DOMAIN writes /\ IsMain(i) /\ writes'[i].bundle \in blocked'
    <3>1. i \in DOMAIN writes /\ isMain /\ bundle \in blocked'
      BY <1>3, <1>6 DEF Block
    <3>2. IsMain(i)
      BY <1>2, <3>1, MainIsBundle
    <3>3. i' = i + 1 /\ writes'[i].bundle \in blocked'
      BY <1>1, <1>6, <3>1 DEF Block
    <3>4. QED
      BY <3>1, <3>2, <3>3
  <2>2. \A j \in DOMAIN writes : IsMain(j)' = IsMain(j)
    BY <1>1 DEF IsMain
  <2>3. QED
    BY <1>1, <1>2, <1>3, <1>6, <2>1, <2>2 DEF Block, Staged
<1>7. CASE Allocate
  <2>1. i \notin allocated
    BY <1>2, <1>3, <1>7 DEF Allocate, MayStage, Staged
  <2>2. \A j \in DOMAIN writes : IsMain(j)' = IsMain(j)
    BY <1>1 DEF IsMain
  <2>3. CASE request.dryRun
    BY <1>1, <1>2, <1>3, <1>7, <2>2, <2>3 DEF Allocate, MayStage, Staged
  <2>4. CASE ~request.dryRun
    BY <1>1, <1>2, <1>3, <1>7, <2>1, <2>2, <2>4 DEF Allocate, MayStage, Staged
  <2>5. QED
    BY <2>3, <2>4
<1>8. CASE AllocationRefused
  <2>1. i \notin prepared
    BY <1>2, <1>3, <1>8 DEF AllocationRefused, MayStage, Staged
  <2>2. \A j \in DOMAIN writes : IsMain(j)' = IsMain(j)
    BY <1>1 DEF IsMain
  <2>3. blocked \subseteq blocked'
    BY <1>8 DEF AllocationRefused
  <2>4. /\ allocated' = allocated \cup {i} /\ prepared' = prepared
        /\ pc = "prepare" /\ pc' = "prepare" /\ i' = i + 1 /\ write.kind = "macho"
        /\ i <= Len(writes)
    BY <1>8 DEF AllocationRefused, MayStage
  <2>5. QED
    BY <1>1, <1>2, <1>3, <2>1, <2>2, <2>3, <2>4 DEF Staged
<1>9. CASE VerifySource
  <2>2. \A j \in DOMAIN writes : IsMain(j)' = IsMain(j)
    BY <1>1 DEF IsMain
  <2>3. i \in prepared
    BY <1>2, <1>9 DEF VerifySource, AtHand
  <2>4. QED
    BY <1>1, <1>2, <1>3, <1>9, <2>2, <2>3 DEF VerifySource, Staged
<1>10. CASE Settled
  <2>1. allocated' = allocated /\ prepared' \subseteq prepared /\ blocked' = blocked
    BY <1>10 DEF Settled
  <2>2. \A j \in DOMAIN writes : IsMain(j)' = IsMain(j)
    BY <1>1 DEF IsMain
  <2>3. \A j \in allocated' : writes'[j].kind = "macho" /\ (pc' \in Preparing => j < i')
    BY <1>1, <1>2, <1>10, <2>1 DEF Settled, Staged
  <2>4. \A j \in prepared' :
          /\ writes'[j].kind = "macho" /\ j \notin allocated'
          /\ pc' = "prepare" => j < i'
          /\ pc' \in {"transfer", "verify"} => j <= i'
    <3>1. SUFFICES ASSUME NEW j \in prepared'
                   PROVE  /\ writes'[j].kind = "macho" /\ j \notin allocated'
                          /\ pc' = "prepare" => j < i'
                          /\ pc' \in {"transfer", "verify"} => j <= i'
      OBVIOUS
    <3>2. j \in prepared /\ j \in Nat
      BY <1>3, <2>1, <3>1
    <3>3. writes[j].kind = "macho" /\ j \notin allocated
      BY <1>2, <3>2 DEF Staged
    <3>4. pc' = "prepare" => j < i'
      BY <1>2, <1>10, <3>2 DEF Settled, Staged
    <3>5. pc' \in {"transfer", "verify"} => j <= i'
      BY <1>2, <1>3, <1>10, <3>2 DEF Settled, Staged
    <3>6. QED
      BY <1>1, <2>1, <3>3, <3>4, <3>5
  <2>5. ASSUME NEW j \in DOMAIN writes, Passed(j)', writes[j].kind = "macho",
               ~request.dryRun
        PROVE  j \in allocated' \cup prepared' \/ (IsMain(j) /\ ~Unblocked(j))
    <3>1. Passed(j)
      BY <1>10, <2>5 DEF Settled
    <3>2. prepared' = prepared
      BY <1>10, <2>5 DEF Settled, Returned
    <3>3. QED
      BY <1>2, <2>1, <2>5, <3>1, <3>2 DEF Staged
  <2>6. QED
    BY <1>1, <2>1, <2>2, <2>3, <2>4, <2>5 DEF Staged
<1>11. QED
  BY <1>5, <1>6, <1>7, <1>8, <1>9, <1>10, PreparationStep

\* Nothing below a bundle is written once its executable has been passed, and no
\* later write is of a bundle nested in it.
LEMMA NothingBelowLater ==
  ASSUME request \in Requests, NEW j \in DOMAIN writes, IsMain(j),
         NEW k \in DOMAIN writes, j <= k
  PROVE  /\ writes[k].node \notin Below[writes[j].node]
         /\ writes[k].bundle \notin Children(writes[j].node)
<1>1. j \in Nat /\ k \in Nat /\ ~(k < j)
  BY Indices
<1>2. writes[j].bundle = writes[j].node /\ writes[j].node \in Bundles
  BY MainShape DEF IsMain
<1>3. writes[k].node \notin Below[writes[j].node]
  BY <1>1, <1>2, PlanOrder
<1>4. ASSUME writes[k].bundle \in Children(writes[j].node) PROVE FALSE
  <2>1. /\ writes[k].bundle \in NestedIn(writes[j].node) /\ writes[k].bundle \in Bundles
        /\ Below[writes[k].bundle] \subseteq Below[writes[j].node]
        /\ NestedIn(writes[j].node) \subseteq Below[writes[j].node]
    BY <1>2, <1>4, BelowFacts DEF Children
  <2>2. CASE writes[k].node \in Bundles
    <3>1. writes[k].kind = "macho" => writes[k].bundle = writes[k].node
      BY <2>2, MainShape DEF IsMain
    <3>2. writes[k].kind = "resource" => writes[k].bundle = writes[k].node
      BY EnvelopeShape DEF Envelopes
    <3>3. QED
      BY <1>3, <2>1, <3>1, <3>2, WriteType
  <2>3. CASE writes[k].node \notin Bundles
    <3>1. writes[k].node \in NestedIn(writes[k].bundle)
      BY <2>3, HelperShape
    <3>2. writes[k].node \in Below[writes[k].bundle]
      BY <2>1, <3>1, BelowFacts
    <3>3. QED
      BY <1>3, <2>1, <3>2
  <2>4. QED
    BY <2>2, <2>3
<1>5. QED
  BY <1>3, <1>4

\* A bundle is tainted by a refused write below it, and so is its parent.
LEMMA TaintedMeans ==
  \A b \in Bundles : Tainted(b) <=> \E k \in allocated : writes[k].node \in Below[b]
BY DEF Tainted, Refused

LEMMA TaintedMeansNext ==
  \A b \in Bundles : Tainted(b)' <=> \E k \in allocated' : writes'[k].node \in Below[b]
BY DEF Tainted, Refused

LEMMA TaintRises ==
  ASSUME NEW b \in Bundles, NEW c \in Children(b), Tainted(c) \/ c \in Refused
  PROVE  Tainted(b)
<1>1. c \in Bundles /\ Below[c] \subseteq Below[b] /\ c \in Below[b]
  BY BelowFacts DEF Children
<1>2. QED
  BY <1>1 DEF Tainted

\* When the executable of a tainted bundle is reached, the loop knows of it.
LEMMA TaintReaches ==
  ASSUME IInv, pc \in Preparing, i \in DOMAIN writes, IsMain(i), Tainted(writes[i].node)
  PROVE  Children(writes[i].node) \cap failed # {} \/ writes[i].node \in blocked
<1>1. request \in Requests /\ Remembered /\ allocated \subseteq DOMAIN writes
  BY DEF IInv, TypeOK
<1>2. writes[i].node \in Bundles /\ writes[i].bundle = writes[i].node
  BY <1>1, MainShape DEF IsMain
<1>3. PICK k \in allocated : writes[k].node \in Below[writes[i].node]
  BY <1>2, TaintedMeans
<1>4. k \in DOMAIN writes
  BY <1>1, <1>3
<1>5. CASE writes[k].node \in NestedIn(writes[i].node)
  <2>1. CASE writes[k].node \in Bundles
    <3>1. writes[k].bundle = writes[k].node
      <4>1. writes[k].kind = "macho"
        BY <1>3 DEF IInv, Staged
      <4>2. QED
        BY <1>1, <1>4, <2>1, <4>1, MainShape DEF IsMain
    <3>2. writes[k].node \in failed
      BY <1>1, <1>3, <3>1 DEF Remembered
    <3>3. QED
      BY <1>5, <2>1, <3>2 DEF Children
  <2>2. CASE writes[k].node \notin Bundles
    <3>1. writes[k].node \in Helpers /\ writes[k].node \in NestedIn(writes[k].bundle)
      BY <1>1, <1>4, <2>2, HelperShape
    <3>2. writes[k].bundle = writes[i].node
      BY <1>1, <1>2, <1>4, <1>5, <3>1, OneParent, WriteType
    <3>3. writes[k].bundle \in blocked
      BY <1>1, <1>3, <3>1 DEF Remembered, Unblocked
    <3>4. QED
      BY <3>2, <3>3
  <2>3. QED
    BY <2>1, <2>2
<1>6. CASE writes[k].node \notin NestedIn(writes[i].node)
  <2>1. PICK c \in Children(writes[i].node), l \in DOMAIN writes :
          /\ writes[l].kind = "macho" /\ writes[l].node = c
          /\ writes[k].node \in Below[c]
    BY <1>1, <1>2, <1>3, <1>4, <1>6, PlanOrder
  <2>2. c \in Bundles /\ c \in Below[writes[i].node]
    BY <1>2, BelowFacts DEF Children
  <2>3. IsMain(l) /\ writes[l].bundle = c
    BY <1>1, <2>1, <2>2, MainShape DEF IsMain
  <2>4. Passed(l)
    <3>1. l < i
      BY <1>1, <1>2, <2>1, <2>2, PlanOrder
    <3>2. QED
      BY <3>1 DEF Passed
  <2>5. Tainted(writes[l].node)
    BY <1>3, <2>1, <2>2, TaintedMeans
  <2>6. c \in blocked
    BY <1>1, <2>3, <2>4, <2>5 DEF Remembered, Unblocked
  <2>7. QED
    BY <1>1, <2>1, <2>6 DEF Remembered
<1>7. QED
  BY <1>5, <1>6

LEMMA RememberedStep == IInv /\ [Next]_vars => Remembered'
<1> SUFFICES ASSUME IInv, [Next]_vars PROVE Remembered'
  OBVIOUS
<1> USE DEF write, bundle, node, isMain, NextWrite, stagingVars, Preparing, Passed,
            Committing, Unblocked
<1>1. request' = request /\ writes' = writes /\ \A j \in DOMAIN writes : IsMain(j)' = IsMain(j)
  BY RequestKept DEF writes, IsMain
<1>2. request \in Requests /\ Staged /\ Remembered /\ AtHand
  BY DEF IInv
<1>3. /\ DOMAIN writes = 1..Len(writes) /\ Len(writes) \in Nat /\ i \in Nat /\ i >= 1
      /\ allocated \subseteq DOMAIN writes
      /\ failed \subseteq Bundles /\ blocked \subseteq Bundles
  BY Indices DEF IInv, TypeOK
<1> DEFINE Known(j) == Tainted(writes[j].node) \/ Children(writes[j].node) \cap failed # {}
<1>4. \A j \in DOMAIN writes : Passed(j) /\ IsMain(j) /\ Known(j) => ~Unblocked(j)
  BY <1>2 DEF Remembered
\* Steps that remember nothing new, about a write that is not tainted.
<1>5. ASSUME UNCHANGED <<allocated, failed, blocked>>,
             \A j \in DOMAIN writes : Passed(j)' => Passed(j) \/ ~IsMain(j) \/ ~Known(j)
      PROVE  Remembered'
  <2>1. Refused' = Refused
    BY <1>1, <1>5 DEF Refused
  <2>2. \A b \in Bundles : Tainted(b)' = Tainted(b)
    BY <2>1 DEF Tainted
  <2>3. ASSUME NEW j \in DOMAIN writes, Passed(j)', IsMain(j),
               Refused' \cap Below[writes[j].node] # {}
                 \/ Children(writes[j].node) \cap failed' # {}
        PROVE  writes[j].bundle \in blocked
    <3>1. Known(j)
      BY <1>5, <2>1, <2>3 DEF Tainted
    <3>2. Passed(j)
      BY <1>5, <2>3, <3>1
    <3>3. QED
      BY <1>4, <2>3, <3>1, <3>2
  <2>4. blocked' \subseteq failed'
    BY <1>2, <1>5 DEF Remembered
  <2>5. \A b \in blocked' : Tainted(b)'
    BY <1>2, <1>3, <1>5, <2>2 DEF Remembered
  <2>6. \A b \in failed' : Tainted(b)' \/ b \in Refused'
    BY <1>2, <1>3, <1>5, <2>1, <2>2 DEF Remembered
  <2>7. \A j \in allocated' : writes'[j].bundle \in failed'
                                /\ (writes'[j].node \in Helpers => writes'[j].bundle \in blocked')
    BY <1>1, <1>2, <1>5 DEF Remembered
  <2>8. QED
    BY <1>1, <1>5, <2>3, <2>4, <2>5, <2>6, <2>7 DEF Remembered, Tainted
<1>6. ASSUME i \in DOMAIN writes, pc \in Preparing, ~ChildFailed, isMain => bundle \notin blocked,
             IsMain(i)
      PROVE  ~Known(i)
  <2>1. isMain /\ writes[i].node = bundle
    BY <1>2, <1>6, MainIsBundle
  <2>2. Children(bundle) \cap failed = {}
    BY <1>6, <2>1 DEF ChildFailed
  <2>3. QED
    BY <1>6, <2>1, <2>2, TaintReaches
<1>7. CASE SkipResource
  BY <1>1, <1>3, <1>5, <1>7 DEF SkipResource, IsMain
<1>8. CASE Block
  <2>1. /\ i \in DOMAIN writes /\ isMain /\ bundle \in blocked' /\ bundle \in Bundles
        /\ allocated' = allocated /\ pc' = pc /\ i' = i + 1 /\ pc = "prepare"
        /\ blocked' = blocked \cup {bundle}
    BY <1>2, <1>3, <1>8, WriteType DEF Block
  <2>2. IsMain(i) /\ writes[i].node = bundle
    BY <1>2, <2>1, MainIsBundle
  <2>3. Refused' = Refused /\ \A b \in Bundles : Tainted(b)' = Tainted(b)
    BY <1>1, <2>1 DEF Refused, Tainted
  <2>4. failed \subseteq failed' /\ failed' \subseteq failed \cup {bundle}
    BY <1>8 DEF Block
  <2>5. Tainted(bundle) /\ bundle \in failed'
    <3>1. CASE ChildFailed
      <4>1. PICK c \in Children(bundle) : c \in failed
        BY <3>1 DEF ChildFailed
      <4>2. Tainted(c) \/ c \in Refused
        BY <1>2, <4>1 DEF Remembered
      <4>3. QED
        BY <1>8, <2>1, <3>1, <4>1, <4>2, TaintRises DEF Block
    <3>2. CASE ~ChildFailed
      <4>1. bundle \in blocked
        BY <1>8, <3>2 DEF Block
      <4>2. QED
        BY <1>2, <2>4, <4>1 DEF Remembered
    <3>3. QED
      BY <3>1, <3>2
  <2>6. ASSUME NEW j \in DOMAIN writes, Passed(j)', IsMain(j),
               Refused' \cap Below[writes[j].node] # {}
                 \/ Children(writes[j].node) \cap failed' # {}
        PROVE  writes[j].bundle \in blocked'
    <3>1. CASE j = i
      BY <2>1, <3>1
    <3>2. CASE j # i
      <4>1. Passed(j) /\ j <= i
        BY <1>3, <2>1, <2>6, <3>2
      <4>2. bundle \notin Children(writes[j].node)
        BY <1>2, <2>1, <2>6, <4>1, NothingBelowLater
      <4>3. Known(j)
        BY <2>3, <2>4, <2>6, <4>2 DEF Tainted
      <4>4. QED
        BY <1>4, <2>1, <2>6, <4>1, <4>3
    <3>3. QED
      BY <3>1, <3>2
  <2>7. blocked' \subseteq failed'
    BY <1>2, <2>1, <2>4, <2>5 DEF Remembered
  <2>8. \A b \in blocked' : Tainted(b)'
    BY <1>2, <1>3, <2>1, <2>3, <2>5 DEF Remembered
  <2>9. \A b \in failed' : Tainted(b)' \/ b \in Refused'
    BY <1>2, <1>3, <2>1, <2>3, <2>4, <2>5 DEF Remembered
  <2>10. \A j \in allocated' : writes'[j].bundle \in failed'
                                 /\ (writes'[j].node \in Helpers => writes'[j].bundle \in blocked')
    BY <1>1, <1>2, <2>1, <2>4 DEF Remembered
  <2>11. QED
    BY <1>1, <2>6, <2>7, <2>8, <2>9, <2>10 DEF Remembered, Tainted
<1>9. CASE Allocate
  <2>1. /\ i \in DOMAIN writes /\ pc = "prepare" /\ ~ChildFailed
        /\ isMain => bundle \notin blocked
    BY <1>3, <1>9 DEF Allocate, MayStage
  <2>2. \A j \in DOMAIN writes : Passed(j)' => Passed(j) \/ j = i
    BY <1>3, <1>9 DEF Allocate, MayStage, Continue
  <2>3. QED
    BY <1>5, <1>6, <1>9, <2>1, <2>2 DEF Allocate
<1>10. CASE AllocationRefused
  <2>1. /\ i \in DOMAIN writes /\ write.kind = "macho" /\ ~ChildFailed /\ pc = "prepare"
        /\ isMain => bundle \notin blocked
        /\ allocated' = allocated \cup {i} /\ failed' = failed \cup {bundle}
        /\ blocked' = IF isMain THEN blocked ELSE blocked \cup {bundle}
        /\ pc' = "prepare" /\ i' = i + 1
    BY <1>3, <1>10 DEF AllocationRefused, MayStage
  <2>2. bundle \in Bundles /\ node \in Nodes /\ (isMain <=> IsMain(i))
    BY <1>2, <2>1, WriteType, MainIsBundle
  <2>3. Refused' = Refused \cup {node}
    BY <1>1, <2>1 DEF Refused
  <2>4. \A b \in Bundles : Tainted(b)' <=> Tainted(b) \/ node \in Below[b]
    BY <2>3 DEF Tainted
  <2>5. ~isMain => node \in NestedIn(bundle) /\ node \in Helpers /\ node \in Below[bundle]
    BY <1>2, <2>1, <2>2, HelperShape, BelowFacts DEF IsMain
  <2>6. isMain => node \notin Helpers
    BY <2>2, TreeAssumption
  <2>7. ASSUME NEW j \in DOMAIN writes, Passed(j)', IsMain(j),
               Refused' \cap Below[writes[j].node] # {}
                 \/ Children(writes[j].node) \cap failed' # {}
        PROVE  writes[j].bundle \in blocked'
    <3>1. j <= i
      BY <1>3, <2>1, <2>7
    <3>2. node \notin Below[writes[j].node] /\ bundle \notin Children(writes[j].node)
      BY <1>2, <2>1, <2>7, <3>1, NothingBelowLater
    <3>3. Known(j)
      BY <2>1, <2>3, <2>7, <3>2 DEF Tainted
    <3>4. j # i
      BY <1>6, <2>1, <2>7, <3>3
    <3>5. Passed(j)
      BY <1>3, <2>1, <3>1, <3>4
    <3>6. QED
      BY <1>4, <2>1, <2>7, <3>3, <3>5
  <2>8. blocked' \subseteq failed'
    BY <1>2, <2>1 DEF Remembered
  <2>9. \A b \in blocked' : Tainted(b)'
    BY <1>2, <1>3, <2>1, <2>2, <2>4, <2>5 DEF Remembered
  <2>10. \A b \in failed' : Tainted(b)' \/ b \in Refused'
    <3>1. Refused' \cap Below[bundle] # {} \/ bundle \in Refused'
      BY <2>2, <2>3, <2>5
    <3>2. \A b \in failed : Tainted(b)' \/ b \in Refused'
      BY <1>2, <1>3, <2>3, <2>4 DEF Remembered
    <3>3. QED
      BY <2>1, <3>1, <3>2 DEF Tainted
  <2>11. \A j \in allocated' : writes'[j].bundle \in failed'
                                 /\ (writes'[j].node \in Helpers => writes'[j].bundle \in blocked')
    <3>1. ASSUME NEW j \in allocated
          PROVE  writes[j].bundle \in failed'
                   /\ (writes[j].node \in Helpers => writes[j].bundle \in blocked')
      BY <1>2, <2>1, <3>1 DEF Remembered
    <3>2. bundle \in failed' /\ (node \in Helpers => bundle \in blocked')
      BY <2>1, <2>5, <2>6
    <3>3. QED
      BY <1>1, <2>1, <3>1, <3>2
  <2>12. QED
    BY <1>1, <2>7, <2>8, <2>9, <2>10, <2>11 DEF Remembered, Tainted
<1>11. CASE VerifySource
  <2>1. /\ i \in DOMAIN writes /\ pc = "verify" /\ ~ChildFailed
        /\ isMain => bundle \notin blocked
    BY <1>2, <1>11 DEF VerifySource, AtHand
  <2>2. \A j \in DOMAIN writes : Passed(j)' => Passed(j) \/ j = i
    BY <1>3, <1>11 DEF VerifySource
  <2>3. QED
    BY <1>5, <1>6, <1>11, <2>1, <2>2 DEF VerifySource
<1>12. CASE Settled
  BY <1>5, <1>12 DEF Settled
<1>13. QED
  BY <1>7, <1>8, <1>9, <1>10, <1>11, <1>12, PreparationStep

---------------------------------------------------------------------------
(* What the steps do to names and contents *)

\* A step that publishes, writes and purges nothing.
Quiet ==
  /\ UNCHANGED diskVars
  /\ \A n \in Nodes : target'[n] \in {target[n], "foreign"}

LEMMA DiskStep ==
  IInv /\ [Next]_vars =>
    \/ Quiet \/ CreateDirectory \/ WriteResource \/ Rename
    \/ \E k \in 0..Len(Entries) : Purge(k)
<1> SUFFICES ASSUME IInv, [Next]_vars, ~CreateDirectory, ~WriteResource, ~Rename,
                    ~\E k \in 0..Len(Entries) : Purge(k)
             PROVE  Quiet
  OBVIOUS
<1>1. target \in [Nodes -> {"old", "new", "foreign"}]
  BY DEF IInv, TypeOK
<1>2. ASSUME UNCHANGED <<diskVars, target>> PROVE Quiet
  BY <1>2 DEF Quiet
<1>3. CASE SkipResource \/ Block \/ Allocate \/ AllocationRefused \/ Transfer
             \/ VerifySource \/ EndPrepare
  BY <1>2, <1>3 DEF SkipResource, Block, Allocate, AllocationRefused, Transfer,
                    VerifySource, EndPrepare
<1>4. CASE BeginCommit \/ RecordOriginal \/ CopySourceAccess \/ CheckTarget
             \/ Recompress \/ RecordAccess \/ EndCommit
  BY <1>2, <1>4 DEF BeginCommit, RecordOriginal, CopySourceAccess, CheckTarget,
                    Recompress, RecordAccess, EndCommit
<1>5. CASE CallFails \/ CloseReplacements \/ CloseBundle \/ Cancel \/ UNCHANGED vars
  BY <1>2, <1>5 DEF CallFails, AllocateFails, Fail, CloseReplacements, CloseBundle,
                    Cancel, vars
<1>6. ASSUME NEW n \in Nodes, Substitute(n) \/ Modify(n) PROVE Quiet
  BY <1>1, <1>6 DEF Substitute, Modify, Quiet
<1>7. QED
  BY <1>3, <1>4, <1>5, <1>6 DEF Next, Step, Environment

\* The loops go forward.
LEMMA ForwardStep ==
  IInv /\ [Next]_vars =>
    /\ pc \in Returned => pc' \in Returned
    /\ pc \in Preparing => pc' \in Preparing \/ EndPrepare \/ pc' \in Returned
    /\ pc \in Committing => pc' \in Committing \cup Returned
    /\ pc \in Committing /\ pc' \in Committing =>
         /\ i' = i \/ i' = i + 1
         /\ i' = i + 1 => BeginCommit \/ RecordOriginal \/ RecordAccess \/ WriteResource
         /\ pc \in {"recompress", "purge", "record"} =>
              i' = i + 1 \/ (i' = i /\ pc' \in {"recompress", "purge", "record"})
         /\ i' = i /\ pc' \in {"recompress", "purge", "record"} =>
              Rename \/ pc \in {"recompress", "purge", "record"}
<1> SUFFICES ASSUME IInv, [Next]_vars
             PROVE
    /\ pc \in Returned => pc' \in Returned
    /\ pc \in Preparing => pc' \in Preparing \/ EndPrepare \/ pc' \in Returned
    /\ pc \in Committing => pc' \in Committing \cup Returned
    /\ pc \in Committing /\ pc' \in Committing =>
         /\ i' = i \/ i' = i + 1
         /\ i' = i + 1 => BeginCommit \/ RecordOriginal \/ RecordAccess \/ WriteResource
         /\ pc \in {"recompress", "purge", "record"} =>
              i' = i + 1 \/ (i' = i /\ pc' \in {"recompress", "purge", "record"})
         /\ i' = i /\ pc' \in {"recompress", "purge", "record"} =>
              Rename \/ pc \in {"recompress", "purge", "record"}
  OBVIOUS
<1> USE DEF Continue, NextWrite, Return, Preparing, Committing, Returned
<1>1. i \in Nat /\ i + 1 # i
  <2>1. i \in Nat
    BY Indices DEF IInv, TypeOK
  <2>2. QED
    BY <2>1
<1>3. CASE SkipResource \/ Block \/ Allocate \/ AllocationRefused \/ Transfer
             \/ VerifySource \/ EndPrepare
  BY <1>1, <1>3 DEF SkipResource, Block, Allocate, AllocationRefused, MayStage, Transfer,
                    VerifySource, EndPrepare
<1>4. CASE BeginCommit
  BY <1>1, <1>4 DEF BeginCommit
<1>5. CASE RecordOriginal \/ CopySourceAccess \/ CheckTarget \/ Rename
             \/ Recompress \/ RecordAccess \/ EndCommit
  BY <1>1, <1>5 DEF RecordOriginal, CopySourceAccess, CheckTarget, Rename, Recompress,
                    RecordAccess, EndCommit
<1>6. ASSUME NEW k \in 0..Len(Entries), Purge(k)
      PROVE  pc = "purge" /\ i' = i /\ pc' \in {"record", "cleanup"}
  BY <1>6 DEF Purge
<1>7. CASE CreateDirectory \/ WriteResource
  BY <1>1, <1>7 DEF CreateDirectory, WriteResource
<1>8. CASE CallFails \/ CloseReplacements \/ CloseBundle
  BY <1>1, <1>8 DEF CallFails, AllocateFails, Fail, CloseReplacements, CloseBundle
<1>9. CASE Cancel \/ UNCHANGED vars
  BY <1>1, <1>9 DEF Cancel, vars
<1>10. ASSUME NEW n \in Nodes, Substitute(n) \/ Modify(n) PROVE pc' = pc /\ i' = i
  BY <1>10 DEF Substitute, Modify
<1>11. QED
  BY <1>1, <1>3, <1>4, <1>5, <1>6, <1>7, <1>8, <1>9, <1>10 DEF Next, Step, Environment

\* An executable about to be replaced, and an envelope about to be written, have
\* nothing refused below them.
LEMMA NotTainted ==
  ASSUME IInv
  PROVE  /\ pc \in {"access", "check", "rename", "recompress", "purge", "record"} /\ IsMain(i)
              => ~Tainted(node) /\ Children(node) \cap failed = {}
         /\ pc \in {"directory", "envelope"} => ~Tainted(bundle)
<1>1. request \in Requests /\ AtHand /\ Remembered
  BY DEF IInv
<1>2. pc \in Committing => \A j \in DOMAIN writes : Passed(j)
  BY DEF Passed
<1>3. CASE /\ pc \in {"access", "check", "rename", "recompress", "purge", "record"}
           /\ IsMain(i)
  <2>1. i \in DOMAIN writes /\ (isMain => Unblocked(i)) /\ Passed(i)
    BY <1>1, <1>2, <1>3 DEF AtHand, Committing
  <2>2. Unblocked(i)
    BY <1>1, <1>3, <2>1, MainIsBundle
  <2>3. QED
    BY <1>1, <1>3, <2>1, <2>2 DEF Remembered, node, write
<1>4. CASE pc \in {"directory", "envelope"}
  <2>1. /\ i \in DOMAIN writes /\ i \in Envelopes /\ Unblocked(i)
    BY <1>1, <1>4 DEF AtHand, Envelopes, write
  <2>2. /\ i + 1 \in DOMAIN writes /\ IsMain(i + 1) /\ writes[i + 1].node = bundle
        /\ writes[i + 1].bundle = bundle
    BY <1>1, <2>1, EnvelopeShape, MainShape DEF bundle, write
  <2>3. Passed(i + 1) /\ Unblocked(i + 1)
    BY <1>2, <1>4, <2>1, <2>2 DEF Committing, Unblocked, bundle, write
  <2>4. QED
    BY <1>1, <1>4, <2>2, <2>3 DEF Remembered
<1>5. QED
  BY <1>3, <1>4

LEMMA UnpublishedStep == IInv /\ [Next]_vars => Unpublished'
<1> SUFFICES ASSUME IInv, [Next]_vars, (pc \in Preparing \/ request.dryRun)'
             PROVE  /\ \A n \in Nodes : target'[n] # "new"
                    /\ \A b \in Bundles : envelope'[b] \in {"old", "absent"}
  BY DEF Unpublished
<1>1. request' = request /\ Unpublished /\ AtHand
  BY RequestKept DEF IInv
<1>2. pc \in Preparing \/ request.dryRun
  BY <1>1, ForwardStep DEF TypeOK, IInv, Labels, Preparing, Committing, Returned
<1>3. pc \notin Committing
  BY <1>1, <1>2 DEF AtHand, Preparing, Committing
<1>4. Quiet
  BY <1>3, DiskStep DEF CreateDirectory, WriteResource, Rename, Purge, Committing
<1>5. QED
  BY <1>1, <1>2, <1>4 DEF Unpublished, Quiet, diskVars

LEMMA ContainedStep == IInv /\ [Next]_vars => FailureContained'
<1> SUFFICES ASSUME IInv, [Next]_vars PROVE FailureContained'
  OBVIOUS
<1>1. /\ request \in Requests /\ request' = request /\ writes' = writes
      /\ FailureContained /\ AtHand /\ Staged /\ TypeOK /\ Unpublished
  BY RequestKept DEF IInv, writes
<1>2. CASE AllocationRefused
  <2>1. pc \in Preparing /\ UNCHANGED <<target, envelope>>
    BY <1>2 DEF AllocationRefused, MayStage, Preparing, diskVars
  <2>2. /\ \A n \in Nodes : target'[n] # "new"
        /\ \A b \in Bundles : envelope'[b] \in {"old", "absent"}
    BY <1>1, <2>1 DEF Unpublished
  <2>3. QED
    BY <2>2 DEF FailureContained, Nodes
<1>3. CASE ~AllocationRefused
  <2>1. allocated' = allocated
    BY <1>3, PreparationStep
       DEF SkipResource, Block, Allocate, VerifySource, Settled, stagingVars
  <2>2. Refused' = Refused /\ \A b \in Bundles : Tainted(b)' = Tainted(b)
    BY <1>1, <2>1 DEF Refused, Tainted
  <2>3. ASSUME NEW b \in Bundles, Tainted(b)
        PROVE  target'[b] # "new" /\ envelope'[b] \in {"old", "absent"}
    <3>1. target[b] # "new" /\ envelope[b] \in {"old", "absent"} /\ b \in Nodes
      BY <1>1, <2>3 DEF FailureContained, Nodes
    <3>2. CASE Quiet
      BY <3>1, <3>2 DEF Quiet, diskVars
    <3>3. CASE CreateDirectory
      BY <3>1, <3>3 DEF CreateDirectory
    <3>4. CASE WriteResource
      <4>1. bundle # b
        BY <2>3, <3>4, NotTainted DEF WriteResource
      <4>2. QED
        BY <1>1, <3>1, <3>4, <4>1 DEF WriteResource, TypeOK
    <3>5. CASE Rename
      <4>1. i \in DOMAIN writes /\ write.kind = "macho"
        BY <1>1, <3>5 DEF Rename, AtHand, Staged, write
      <4>2. node # b
        BY <2>3, <3>5, <4>1, NotTainted DEF Rename, IsMain, node, write
      <4>3. QED
        BY <1>1, <3>1, <3>5, <4>2 DEF Rename, TypeOK, diskVars
    <3>6. ASSUME NEW k \in 0..Len(Entries), Purge(k)
          PROVE  target'[b] # "new" /\ envelope'[b] \in {"old", "absent"}
      BY <1>1, <3>1, <3>6 DEF Purge, TypeOK
    <3>7. QED
      BY <3>2, <3>3, <3>4, <3>5, <3>6, DiskStep
  <2>4. ASSUME NEW b \in Bundles, b \in Refused
        PROVE  target'[b] # "new"
    <3>1. target[b] # "new" /\ b \in Nodes
      BY <1>1, <2>4 DEF FailureContained, Nodes
    <3>2. CASE Quiet
      BY <3>1, <3>2 DEF Quiet
    <3>3. CASE CreateDirectory \/ WriteResource
      BY <3>1, <3>3 DEF CreateDirectory, WriteResource
    <3>4. CASE Rename
      <4>1. i \in DOMAIN writes /\ write.kind = "macho" /\ i \notin allocated
        BY <1>1, <3>4 DEF Rename, AtHand, Staged, write
      <4>2. node # b
        <5>1. PICK k \in allocated : writes[k].node = b
          BY <2>4 DEF Refused
        <5>2. k \in DOMAIN writes /\ writes[k].kind = "macho"
          BY <1>1, <5>1 DEF TypeOK, Staged
        <5>3. QED
          BY <1>1, <4>1, <5>1, <5>2, Unique DEF node, write
      <4>3. QED
        BY <1>1, <3>1, <3>4, <4>2 DEF Rename, TypeOK
    <3>5. ASSUME NEW k \in 0..Len(Entries), Purge(k) PROVE target'[b] # "new"
      BY <3>1, <3>5 DEF Purge
    <3>6. QED
      BY <3>2, <3>3, <3>4, <3>5, DiskStep
  <2>5. QED
    BY <2>2, <2>3, <2>4 DEF FailureContained, Tainted
<1>4. QED
  BY <1>2, <1>3

LEMMA PublishedByLoopStep == IInv /\ [Next]_vars => PublishedByLoop'
<1> SUFFICES ASSUME IInv, [Next]_vars, NEW n \in Nodes, target'[n] = "new"
             PROVE  \E j \in DOMAIN writes' :
                      /\ writes'[j].kind = "macho" /\ writes'[j].node = n
                      /\ pc' \in Committing =>
                           j < i' \/ (j = i' /\ pc' \in {"recompress", "purge", "record"})
  BY DEF PublishedByLoop
<1>1. /\ request \in Requests /\ writes' = writes /\ AtHand /\ Staged /\ TypeOK
      /\ Unpublished /\ PublishedByLoop
  BY RequestKept DEF IInv, writes
<1>2. i \in Nat /\ DOMAIN writes = 1..Len(writes) /\ Len(writes) \in Nat
  BY <1>1, Indices DEF TypeOK
<1>3. CASE target[n] = "new"
  <2>1. PICK j \in DOMAIN writes :
          /\ writes[j].kind = "macho" /\ writes[j].node = n
          /\ pc \in Committing =>
               j < i \/ (j = i /\ pc \in {"recompress", "purge", "record"})
    BY <1>1, <1>3 DEF PublishedByLoop
  <2>2. pc \notin Preparing
    BY <1>1, <1>3 DEF Unpublished
  <2>3. pc' \in Committing => pc \in Committing
    BY <1>1, <2>2, ForwardStep DEF TypeOK, Labels, Preparing, Committing, Returned
  <2>4. pc' \in Committing =>
          j < i' \/ (j = i' /\ pc' \in {"recompress", "purge", "record"})
    BY <1>2, <2>1, <2>3, ForwardStep
  <2>5. QED
    BY <1>1, <2>1, <2>4
<1>4. CASE target[n] # "new"
  <2>1. Rename
    <3>1. ~Quiet
      BY <1>4 DEF Quiet
    <3>2. QED
      BY <1>4, <3>1, DiskStep DEF CreateDirectory, WriteResource, Purge
  <2>2. /\ i \in DOMAIN writes /\ write.kind = "macho"
        /\ pc' = "recompress" /\ i' = i
    BY <1>1, <2>1 DEF Rename, AtHand, Staged, write, Continue
  <2>3. node = n
    BY <1>1, <1>4, <2>1 DEF Rename, TypeOK
  <2>4. QED
    BY <1>1, <2>2, <2>3 DEF node, write
<1>5. QED
  BY <1>3, <1>4

---------------------------------------------------------------------------
(* What the commit loop has performed *)

\* A removal purges the envelope of a bundle for which the plan has none.
LEMMA NoEnvelopeForRemoval ==
  ASSUME request \in Requests, NEW j \in Envelopes, NEW k \in DOMAIN writes,
         writes[k].kind = "macho", writes[k].bundle = writes[j].bundle
  PROVE  writes[k].cleanup # "all"
<1>1. CASE writes[k].node \in Bundles
  <2>1. IsMain(k) /\ writes[k].node = writes[k].bundle
    BY <1>1, MainShape DEF IsMain
  <2>2. k = j + 1
    BY <2>1, EnvelopeShape, Unique DEF IsMain
  <2>3. QED
    BY <2>2, EnvelopeShape
<1>2. CASE writes[k].node \notin Bundles
  BY <1>2, HelperShape
<1>3. QED
  BY <1>1, <1>2

\* Only a loop that came to its end returns no error, or only refusals.
LEMMA ResultStep ==
  IInv /\ [Next]_vars /\ result' \in {"nil", "allocation"} /\ ~request.dryRun =>
    EndCommit \/ (pc \in Returned /\ result' = result)
<1> SUFFICES ASSUME IInv, [Next]_vars, result' \in {"nil", "allocation"}, ~request.dryRun
             PROVE  EndCommit \/ (pc \in Returned /\ result' = result)
  OBVIOUS
<1> USE DEF Continue, NextWrite, Return
<1>1. pc \notin Returned => result = "none"
  BY DEF IInv, AtHand
<1>2. ASSUME result' = result PROVE pc \in Returned
  BY <1>1, <1>2
<1>3. CASE SkipResource \/ Block \/ Allocate \/ AllocationRefused \/ Transfer
             \/ VerifySource \/ EndPrepare
  BY <1>2, <1>3 DEF SkipResource, Block, Allocate, AllocationRefused, Transfer,
                    VerifySource, EndPrepare
<1>4. CASE BeginCommit \/ RecordOriginal \/ CopySourceAccess \/ CheckTarget \/ Rename
             \/ Recompress \/ RecordAccess
  BY <1>2, <1>4 DEF BeginCommit, RecordOriginal, CopySourceAccess, CheckTarget, Rename,
                    Recompress, RecordAccess
<1>5. ASSUME NEW k \in 0..Len(Entries), Purge(k) PROVE result' = result
  BY <1>5 DEF Purge
<1>6. CASE CreateDirectory \/ WriteResource
  BY <1>2, <1>6 DEF CreateDirectory, WriteResource
<1>7. CASE CallFails \/ CloseReplacements \/ CloseBundle
  BY <1>7 DEF CallFails, AllocateFails, Fail, CloseReplacements, CloseBundle, Returned
<1>8. CASE Cancel \/ UNCHANGED vars
  BY <1>2, <1>8 DEF Cancel, vars
<1>9. ASSUME NEW n \in Nodes, Substitute(n) \/ Modify(n) PROVE result' = result
  BY <1>9 DEF Substitute, Modify
<1>10. QED
  BY <1>2, <1>3, <1>4, <1>5, <1>6, <1>7, <1>8, <1>9 DEF Next, Step, Environment

\* Later steps of the commit loop undo nothing of an earlier write.
LEMMA PerformedKept ==
  ASSUME IInv, [Next]_vars, pc \notin Preparing, NEW j \in DOMAIN writes, Performed(j),
         Quiet \/ j < i
  PROVE  Performed(j)'
<1> USE DEF write, bundle, node
<1>1. /\ request \in Requests /\ writes' = writes /\ AtHand /\ Staged /\ TypeOK
  BY RequestKept DEF IInv, writes
<1>2. allocated' = allocated /\ blocked' = blocked
  BY PreparationStep DEF Preparing, SkipResource, Block, Allocate, AllocationRefused,
                         MayStage, VerifySource, Settled
<1>3. /\ writes[j].bundle \in Bundles /\ writes[j].node \in Nodes
      /\ j \in Nat /\ i \in Nat
  BY <1>1, WriteType, Indices DEF TypeOK
<1> DEFINE New == envelope[writes[j].bundle] = "new"
           Absent == envelope[writes[j].bundle] = "absent"
           Replaced == target[writes[j].node] # "old"
           Purged == sidecars[writes[j].bundle] = {}
           Due == writes[j].kind = "macho" /\ j \notin allocated /\ (IsMain(j) => Unblocked(j))
<1>4. SUFFICES /\ writes[j].kind = "resource" /\ New => New'
               /\ Due /\ Replaced => Replaced'
               /\ Due /\ writes[j].cleanup # "none" /\ Purged => Purged'
               /\ Due /\ writes[j].cleanup = "all" /\ Absent => Absent'
  BY <1>1, <1>2 DEF Performed, IsMain, Unblocked
<1>5. CASE Quiet
  BY <1>1, <1>3, <1>5 DEF Quiet, diskVars
<1>6. CASE CreateDirectory
  BY <1>1, <1>6 DEF CreateDirectory
<1>7. CASE WriteResource /\ j < i
  <2>1. i \in Envelopes /\ i \in DOMAIN writes
    BY <1>1, <1>7 DEF WriteResource, AtHand, Envelopes
  <2>2. writes[j].kind = "resource" => writes[j].bundle # bundle
    <3>1. writes[i].node = bundle
      BY <1>1, <2>1, EnvelopeShape
    <3>2. writes[j].kind = "resource" => writes[j].node = writes[j].bundle
      BY <1>1, EnvelopeShape DEF Envelopes
    <3>3. QED
      BY <1>1, <1>3, <1>7, <2>1, <3>1, <3>2, Unique DEF Envelopes
  <2>3. writes[j].kind = "macho" /\ writes[j].cleanup = "all" => writes[j].bundle # bundle
    BY <1>1, <2>1, NoEnvelopeForRemoval
  <2>4. QED
    BY <1>1, <1>3, <1>7, <2>2, <2>3 DEF WriteResource, TypeOK
<1>8. CASE Rename /\ j < i
  BY <1>1, <1>3, <1>8 DEF Rename, TypeOK, diskVars
<1>9. ASSUME NEW k \in 0..Len(Entries), Purge(k), j < i
       PROVE  /\ writes[j].kind = "resource" /\ New => New'
              /\ Replaced => Replaced'
              /\ Purged => Purged'
              /\ Absent => Absent'
  <2>1. i \in DOMAIN writes /\ write.kind = "macho" /\ write.cleanup \in {"keep", "all"}
    <3>1. i \in DOMAIN writes /\ i \in prepared /\ write.cleanup # "none"
      BY <1>1, <1>9 DEF Purge, AtHand
    <3>2. QED
      BY <1>1, <3>1, WriteType DEF Staged, Cleanups
  <2>2. writes[j].kind = "resource" /\ writes[j].bundle = bundle => write.cleanup = "keep"
    BY <1>1, <2>1, NoEnvelopeForRemoval DEF Envelopes
  <2>3. writes[j].kind = "resource" /\ New => New'
    BY <1>1, <1>3, <1>9, <2>2 DEF Purge, TypeOK
  <2>4. Purged => Purged'
    BY <1>1, <1>3, <1>9 DEF Purge, TypeOK
  <2>5. Absent => Absent'
    BY <1>1, <1>3, <1>9 DEF Purge, TypeOK
  <2>6. Replaced => Replaced'
    BY <1>1, <1>9 DEF Purge
  <2>7. QED
    BY <2>3, <2>4, <2>5, <2>6
<1>10. QED
  BY <1>5, <1>6, <1>7, <1>8, <1>9, DiskStep

\* The end of the listing is reached: no signature file is left, and after a
\* removal no envelope.
LEMMA PurgeEmpties ==
  ASSUME IInv, NEW k \in 0..Len(Entries), Purge(k), pc' = "record",
         i \in DOMAIN writes, write.cleanup \in {"keep", "all"}
  PROVE  /\ sidecars'[bundle] = {}
         /\ write.cleanup = "all" => envelope'[bundle] = "absent"
<1>1. bundle \in Bundles
  BY WriteType DEF IInv, bundle, write
<1>2. k = Len(Entries)
  BY DEF Purge, Return
<1>3. Range(Entries) = {Entries[e] : e \in 1..k}
  BY <1>2, CommitAssumption, LenProperties DEF Range
<1>4. sidecars \in [Bundles -> SUBSET Range(Entries)]
      /\ envelope \in [Bundles -> {"old", "absent", "partial", "new"}]
  BY DEF IInv, TypeOK
<1>5. sidecars[bundle] \subseteq {Entries[e] : e \in 1..k} \cap Listing(bundle)
  BY <1>1, <1>3, <1>4 DEF Listing
<1>6. sidecars'[bundle] = {}
  BY <1>1, <1>4, <1>5 DEF Purge
<1>7. envelope[bundle] # "absent" =>
        "CodeResources" \in {Entries[e] : e \in 1..k} \cap Listing(bundle)
  BY <1>3, CommitAssumption DEF Listing
<1>8. write.cleanup = "all" => envelope'[bundle] = "absent"
  BY <1>1, <1>4, <1>7 DEF Purge
<1>9. QED
  BY <1>6, <1>8

LEMMA LoopSoFarStep == IInv /\ [Next]_vars => LoopSoFar'
<1> SUFFICES ASSUME IInv, [Next]_vars PROVE LoopSoFar'
  OBVIOUS
<1> USE DEF write, bundle, node, Continue, NextWrite, Return
<1>1. /\ request \in Requests /\ request' = request /\ writes' = writes
      /\ AtHand /\ Staged /\ TypeOK /\ LoopSoFar
  BY RequestKept DEF IInv, writes
<1>2. /\ Len(writes) \in Nat /\ DOMAIN writes = 1..Len(writes)
      /\ i \in Nat /\ i >= 1 /\ i <= Len(writes) + 1
  BY <1>1, Indices DEF TypeOK
<1>3. pc \in Preparing \/ pc \in Committing \/ pc \in Returned
  BY <1>1 DEF TypeOK, Labels, Preparing, Committing, Returned
\* The write at hand, once its last step has been made.
<1>4. ASSUME NEW j \in Nat, j = i, pc \in Committing, i' = i + 1, pc' \in Committing
      PROVE  j \in DOMAIN writes /\ Performed(j)'
  <2>1. allocated' = allocated /\ blocked' = blocked
    BY <1>4, ForwardStep, PreparationStep
       DEF Preparing, Committing, SkipResource, Block, Allocate, AllocationRefused,
           MayStage, VerifySource, Settled
  <2>2. CASE BeginCommit
    <3>1. Skipped /\ i \in DOMAIN writes
      BY <1>2, <1>4, <2>2 DEF BeginCommit
    <3>2. ~Unblocked(i) /\ (write.kind = "resource" \/ IsMain(i))
      BY <1>1, <3>1, WriteType, MainIsBundle DEF Skipped, Unblocked
    <3>3. QED
      BY <1>1, <1>4, <2>1, <3>1, <3>2 DEF Performed, IsMain, Unblocked
  <2>3. CASE RecordOriginal
    <3>1. i \in DOMAIN writes /\ i \in allocated /\ writes[i].kind = "macho"
      BY <1>1, <2>3 DEF RecordOriginal, AtHand, Staged
    <3>2. QED
      BY <1>1, <1>4, <2>1, <3>1 DEF Performed
  <2>4. CASE RecordAccess
    <3>1. i \in DOMAIN writes /\ Performed(i)
      BY <1>1, <2>4 DEF RecordAccess, AtHand, LoopSoFar
    <3>2. UNCHANGED <<diskVars, target>>
      BY <2>4 DEF RecordAccess
    <3>3. QED
      BY <1>1, <1>4, <2>1, <3>1, <3>2 DEF Performed, IsMain, Unblocked, diskVars
  <2>5. CASE WriteResource
    <3>1. i \in DOMAIN writes /\ write.kind = "resource" /\ bundle \in Bundles
      BY <1>1, <2>5, WriteType DEF WriteResource, AtHand
    <3>2. envelope'[bundle] = "new"
      <4>1. pc' # "cleanup"
        BY <1>4 DEF Committing
      <4>2. QED
        BY <1>1, <2>5, <3>1, <4>1 DEF WriteResource, TypeOK
    <3>3. QED
      BY <1>1, <1>4, <3>1, <3>2 DEF Performed
  <2>6. QED
    BY <1>4, <2>2, <2>3, <2>4, <2>5, ForwardStep
<1>5. ASSUME pc' \in Committing, NEW j \in 1..(i' - 1) PROVE j \in DOMAIN writes /\ Performed(j)'
  <2>1. CASE pc \in Preparing
    <3>1. EndPrepare
      BY <1>5, <2>1, ForwardStep DEF Preparing, Committing, Returned
    <3>2. i' = 1
      BY <1>5, <3>1 DEF EndPrepare, Committing
    <3>3. QED
      BY <1>5, <3>2
  <2>2. CASE pc \in Committing
    <3>1. CASE j < i
      <4>1. j \in DOMAIN writes /\ Performed(j)
        BY <1>1, <1>2, <1>5, <2>2, <3>1 DEF LoopSoFar
      <4>2. pc \notin Preparing
        BY <2>2 DEF Preparing, Committing
      <4>3. QED
        BY <3>1, <4>1, <4>2, PerformedKept
    <3>2. CASE ~(j < i)
      <4>1. i' = i + 1 /\ j = i
        BY <1>2, <1>5, <2>2, <3>2, ForwardStep
      <4>2. QED
        BY <1>2, <1>4, <1>5, <2>2, <4>1
    <3>3. QED
      BY <3>1, <3>2
  <2>3. QED
    BY <1>3, <1>5, <2>1, <2>2, ForwardStep DEF Committing, Returned
<1>6. ASSUME pc' \in {"recompress", "purge", "record"} PROVE target'[node'] # "old"
  <2>1. pc' \in Committing /\ pc \notin Returned /\ pc \notin Preparing
    BY <1>6, ForwardStep DEF Preparing, Committing, Returned, EndPrepare
  <2>2. pc \in Committing
    BY <1>3, <2>1
  <2>3. CASE Rename
    <3>1. i \in DOMAIN writes /\ node \in Nodes /\ node' = node
      BY <1>1, <2>3, WriteType DEF Rename, AtHand
    <3>2. QED
      BY <1>1, <2>3, <3>1 DEF Rename, TypeOK
  <2>4. CASE ~Rename
    <3>1. i' # i + 1
      BY <1>6, <2>4, ForwardStep, <2>1, <2>2
         DEF BeginCommit, RecordOriginal, RecordAccess, WriteResource
    <3>2. i' = i /\ pc \in {"recompress", "purge", "record"}
      BY <1>6, <2>1, <2>2, <2>4, <3>1, ForwardStep
    <3>3. i \in DOMAIN writes /\ node \in Nodes /\ node' = node /\ target[node] # "old"
      BY <1>1, <3>2, WriteType DEF AtHand, LoopSoFar
    <3>4. target'[node] # "old"
      BY <2>4, <3>3, DiskStep DEF Quiet, CreateDirectory, WriteResource, Purge
    <3>5. QED
      BY <3>3, <3>4
  <2>5. QED
    BY <2>3, <2>4
<1>7. ASSUME pc' = "record" PROVE i' = i /\ i \in DOMAIN writes /\ Performed(i)'
  <2>1. pc' \in Committing /\ pc \in Committing
    BY <1>3, <1>7, ForwardStep DEF Preparing, Committing, Returned, EndPrepare
  <2>2. i' = i /\ (Rename \/ pc \in {"recompress", "purge", "record"})
    BY <1>7, <2>1, ForwardStep DEF BeginCommit, RecordOriginal, RecordAccess, WriteResource
  <2>3. pc \in {"recompress", "purge", "record"}
    BY <1>7, <2>2 DEF Rename
  <2>4. /\ i \in DOMAIN writes /\ i \in prepared /\ write.kind = "macho"
        /\ target[node] # "old" /\ node \in Nodes
    BY <1>1, <2>3, WriteType DEF AtHand, Staged, LoopSoFar
  <2>5. target'[node] # "old"
    BY <1>1, <1>6, <1>7, <2>2
  <2>6. CASE pc = "record"
    <3>1. Quiet
      BY <2>6, DiskStep DEF CreateDirectory, WriteResource, Rename, Purge
    <3>2. Performed(i) /\ pc \notin Preparing
      BY <1>1, <2>6 DEF LoopSoFar, Preparing
    <3>3. QED
      BY <2>2, <2>4, <3>1, <3>2, PerformedKept
  <2>7. CASE pc = "recompress"
    <3>1. Recompress
      BY <1>7, <2>7 DEF Next, Step, Environment, CallFails, vars, SkipResource, Block,
         Allocate, MayStage, AllocationRefused, AllocateFails, Transfer, VerifySource,
         EndPrepare, BeginCommit, RecordOriginal, CopySourceAccess, CheckTarget, Rename,
         Purge, RecordAccess, CreateDirectory, WriteResource, EndCommit,
         CloseReplacements, CloseBundle, Cancel, Substitute, Modify, Fail
    <3>2. write.cleanup = "none"
      BY <1>7, <3>1 DEF Recompress
    <3>3. QED
      BY <1>1, <2>2, <2>4, <2>5, <3>2 DEF Performed
  <2>8. CASE pc = "purge"
    <3>1. PICK k \in 0..Len(Entries) : Purge(k)
      BY <1>7, <2>8 DEF Next, Step, Environment, CallFails, vars, SkipResource, Block,
         Allocate, MayStage, AllocationRefused, AllocateFails, Transfer, VerifySource,
         EndPrepare, BeginCommit, RecordOriginal, CopySourceAccess, CheckTarget, Rename,
         Recompress, RecordAccess, CreateDirectory, WriteResource, EndCommit,
         CloseReplacements, CloseBundle, Cancel, Substitute, Modify, Fail
    <3>2. write.cleanup \in {"keep", "all"}
      BY <1>1, <2>4, <2>8, WriteType DEF AtHand, Cleanups
    <3>3. /\ sidecars'[bundle] = {}
          /\ write.cleanup = "all" => envelope'[bundle] = "absent"
      BY <1>7, <2>4, <3>1, <3>2, PurgeEmpties
    <3>4. QED
      BY <1>1, <2>2, <2>4, <2>5, <3>3 DEF Performed
  <2>9. QED
    BY <2>3, <2>6, <2>7, <2>8
<1>8. ASSUME result' \in {"nil", "allocation"}, ~request.dryRun, NEW j \in DOMAIN writes
      PROVE  Performed(j)'
  <2>1. CASE EndCommit
    <3>1. pc \in Committing /\ j < i
      BY <1>2, <2>1 DEF EndCommit, Committing
    <3>2. Performed(j) /\ pc \notin Preparing
      BY <1>1, <1>2, <3>1 DEF LoopSoFar, Preparing, Committing
    <3>3. QED
      BY <3>1, <3>2, PerformedKept
  <2>2. CASE pc \in Returned /\ result' = result
    <3>1. Performed(j) /\ pc \notin Preparing
      BY <1>1, <1>8, <2>2 DEF LoopSoFar, Preparing, Returned
    <3>2. Quiet
      BY <2>2, DiskStep DEF CreateDirectory, WriteResource, Rename, Purge, Returned
    <3>3. QED
      BY <3>1, <3>2, PerformedKept
  <2>3. QED
    BY <1>8, <2>1, <2>2, ResultStep
<1>9. QED
  BY <1>1, <1>5, <1>6, <1>7, <1>8 DEF LoopSoFar

---------------------------------------------------------------------------
(* Seals *)

\* When a bundle's executable is renamed, all that its envelope seals is in place.
LEMMA SealsAtRename ==
  ASSUME IInv, Rename, NEW j \in Envelopes, writes[j].bundle = node
  PROVE  /\ envelope[node] = "new"
         /\ \A n \in NestedIn(node) \cap writes[j].seals :
              n # node /\ target[n] # "old" /\ (n \in Bundles => sidecars[n] = {})
         /\ \A n \in NestedIn(node) \ writes[j].seals : n # node /\ target[n] # "new"
<1>1. /\ request \in Requests /\ AtHand /\ Staged /\ Remembered /\ LoopSoFar
      /\ PublishedByLoop
  BY DEF IInv
<1>2. /\ i \in DOMAIN writes /\ writes[i].kind = "macho" /\ i \notin allocated
      /\ ~request.dryRun /\ pc \in Committing
  BY <1>1 DEF Rename, AtHand, Staged, Committing
<1>3. /\ j \in DOMAIN writes /\ writes[j].kind = "resource" /\ writes[j].node = node
      /\ node \in Bundles /\ writes[i].node = node
  BY <1>1, EnvelopeShape, WriteType DEF Envelopes, node, write
<1>4. IsMain(i) /\ i = j + 1
  <2>1. IsMain(i)
    BY <1>2, <1>3 DEF IsMain
  <2>2. QED
    BY <1>1, <1>2, <1>3, <2>1, EnvelopeShape, Unique DEF IsMain
<1>5. ~Tainted(node) /\ Children(node) \cap failed = {}
  BY <1>4, NotTainted DEF Rename
<1>6. \A k \in DOMAIN writes : k < i => Performed(k)
  BY <1>1, <1>2, Indices DEF LoopSoFar
<1>7. envelope[node] = "new"
  <2>1. Unblocked(j)
    <3>1. isMain => Unblocked(i)
      BY <1>1 DEF Rename, AtHand
    <3>2. Unblocked(i)
      BY <1>1, <1>2, <1>4, <3>1, MainIsBundle
    <3>3. QED
      BY <1>1, <1>2, <1>3, <1>4, <3>2, MainShape DEF Unblocked
  <2>2. Performed(j)
    BY <1>1, <1>3, <1>4, <1>6, Indices
  <2>3. QED
    BY <1>3, <2>1, <2>2 DEF Performed
<1>8. ASSUME NEW n \in NestedIn(node) \cap writes[j].seals
      PROVE  n # node /\ target[n] # "old" /\ (n \in Bundles => sidecars[n] = {})
  <2>1. PICK k \in DOMAIN writes : writes[k].kind = "macho" /\ writes[k].node = n
    BY <1>1, <1>2, SealedIsWritten
  <2>2. n \in Below[node]
    BY <1>3, BelowFacts
  <2>3. k < i
    <3>1. k < j
      BY <1>1, <1>3, <2>1, <2>2, PlanOrder
    <3>2. QED
      BY <1>1, <1>3, <1>4, <3>1, Indices
  <2>4. k \notin allocated
    BY <1>3, <1>5, <2>1, <2>2, TaintedMeans
  <2>5. IsMain(k) => Unblocked(k)
    <3>1. ASSUME IsMain(k) PROVE n \notin blocked /\ writes[k].bundle = n
      <4>1. n \in Children(node) /\ writes[k].bundle = n
        BY <1>1, <2>1, <3>1, MainShape DEF Children, IsMain
      <4>2. QED
        BY <1>1, <1>5, <4>1 DEF Remembered
    <3>2. QED
      BY <3>1 DEF Unblocked
  <2>6. target[n] # "old" /\ (writes[k].cleanup # "none" => sidecars[writes[k].bundle] = {})
    BY <1>6, <2>1, <2>3, <2>4, <2>5 DEF Performed
  <2>7. n \in Bundles => writes[k].cleanup # "none" /\ writes[k].bundle = n
    BY <1>1, <2>1, MainShape DEF IsMain
  <2>8. n # node
    <3>1. k # i
      BY <1>1, <1>2, <2>3, Indices
    <3>2. QED
      BY <1>1, <1>2, <1>3, <2>1, <3>1, Unique
  <2>9. QED
    BY <2>6, <2>7, <2>8
<1>9. ASSUME NEW n \in NestedIn(node) \ writes[j].seals
      PROVE  n # node /\ target[n] # "new"
  <2>1. ~\E k \in DOMAIN writes : writes[k].kind = "macho" /\ writes[k].node = n
    BY <1>1, <1>2, SealedIsWritten
  <2>2. n \in Nodes
    BY <1>3, BelowFacts
  <2>3. QED
    BY <1>1, <1>2, <1>3, <2>1, <2>2 DEF PublishedByLoop
<1>10. QED
  BY <1>7, <1>8, <1>9

LEMMA SealsStep == IInv /\ [Next]_vars => PublishedSealsHold'
<1> SUFFICES ASSUME IInv, [Next]_vars PROVE PublishedSealsHold'
  OBVIOUS
<1>1. /\ request \in Requests /\ request' = request /\ writes' = writes
      /\ AtHand /\ Staged /\ TypeOK /\ PublishedByLoop /\ PublishedSealsHold
      /\ Envelopes' = Envelopes
  BY RequestKept DEF IInv, writes, Envelopes
<1>2. SUFFICES ASSUME NEW j \in Envelopes, NEW b \in Bundles, b = writes[j].bundle,
                      target'[b] = "new"
               PROVE  /\ envelope'[b] = "new"
                      /\ \A n \in NestedIn(b) \cap writes[j].seals : target'[n] # "old"
                      /\ \A n \in NestedIn(b) \ writes[j].seals : target'[n] # "new"
                      /\ \A c \in Children(b) \cap writes[j].seals : sidecars'[c] = {}
  BY <1>1, WriteType DEF PublishedSealsHold, Envelopes
<1>3. j \in DOMAIN writes /\ writes[j].kind = "resource" /\ writes[j].node = b
  BY <1>1, <1>2, EnvelopeShape DEF Envelopes
<1>4. NestedIn(b) \subseteq Nodes /\ b \in Nodes /\ Children(b) = NestedIn(b) \cap Bundles
  BY BelowFacts DEF Children, Nodes
<1>5. ~request.dryRun
  <2>1. Unpublished'
    BY UnpublishedStep
  <2>2. QED
    BY <1>1, <1>2, <1>4, <2>1 DEF Unpublished
<1>6. CASE Rename /\ node = b
  <2>1. /\ envelope[b] = "new"
        /\ \A n \in NestedIn(b) \cap writes[j].seals :
             n # b /\ target[n] # "old" /\ (n \in Bundles => sidecars[n] = {})
        /\ \A n \in NestedIn(b) \ writes[j].seals : n # b /\ target[n] # "new"
    BY <1>2, <1>6, SealsAtRename
  <2>2. /\ envelope' = envelope /\ sidecars' = sidecars
        /\ \A n \in Nodes : n # b => target'[n] = target[n]
    BY <1>1, <1>6 DEF Rename, TypeOK, diskVars
  <2>3. QED
    BY <1>4, <2>1, <2>2
<1>7. CASE ~(Rename /\ node = b)
  <2>1. target[b] = "new"
    BY <1>1, <1>2, <1>4, <1>7, DiskStep
       DEF Quiet, CreateDirectory, WriteResource, Rename, Purge, TypeOK
  <2>2. /\ envelope[b] = "new"
        /\ \A n \in NestedIn(b) \cap writes[j].seals : target[n] # "old"
        /\ \A n \in NestedIn(b) \ writes[j].seals : target[n] # "new"
        /\ \A c \in Children(b) \cap writes[j].seals : sidecars[c] = {}
    BY <1>1, <1>2, <2>1 DEF PublishedSealsHold
  <2>3. CASE Quiet
    BY <1>4, <2>2, <2>3 DEF Quiet, diskVars
  <2>4. CASE CreateDirectory
    BY <2>2, <2>4 DEF CreateDirectory
  <2>5. CASE WriteResource
    <3>1. i \in Envelopes /\ i \in DOMAIN writes
      BY <1>1, <2>5 DEF WriteResource, AtHand, Envelopes, write
    <3>2. bundle # b
      <4>1. SUFFICES ASSUME bundle = b PROVE FALSE
        OBVIOUS
      <4>2. writes[i].kind = "resource" /\ writes[i].node = b
        BY <1>1, <3>1, <4>1, EnvelopeShape DEF Envelopes, bundle, write
      <4>3. i = j
        BY <1>1, <1>3, <3>1, <4>2, Unique
      <4>4. PICK m \in DOMAIN writes :
              writes[m].kind = "macho" /\ writes[m].node = b /\ m < i
        BY <1>1, <1>4, <2>1, <2>5 DEF PublishedByLoop, WriteResource, Committing
      <4>5. m = j + 1
        BY <1>1, <1>2, <4>4, EnvelopeShape, Unique DEF IsMain
      <4>6. QED
        BY <1>1, <1>3, <4>3, <4>4, <4>5, Indices
    <3>3. QED
      BY <1>1, <2>2, <2>5, <3>2 DEF WriteResource, TypeOK
  <2>6. CASE Rename
    <3>1. i \in DOMAIN writes /\ writes[i].kind = "macho" /\ writes[i].node = node
      BY <1>1, <2>6 DEF Rename, AtHand, Staged, node, write
    <3>2. node \notin NestedIn(b) \ writes[j].seals
      BY <1>1, <1>2, <1>5, <3>1, SealedIsWritten
    <3>3. QED
      BY <1>1, <1>4, <2>2, <2>6, <3>2 DEF Rename, TypeOK, diskVars
  <2>7. ASSUME NEW k \in 0..Len(Entries), Purge(k)
        PROVE  /\ envelope'[b] = "new" /\ target' = target
               /\ \A c \in Bundles : sidecars[c] = {} => sidecars'[c] = {}
    <3>1. i \in DOMAIN writes /\ write.kind = "macho" /\ write.cleanup \in {"keep", "all"}
      <4>1. i \in DOMAIN writes /\ i \in prepared /\ write.cleanup # "none"
        BY <1>1, <2>7 DEF Purge, AtHand
      <4>2. QED
        BY <1>1, <4>1, WriteType DEF Staged, Cleanups, write
    <3>2. bundle = b => write.cleanup = "keep"
      BY <1>1, <1>2, <3>1, NoEnvelopeForRemoval DEF bundle, write
    <3>3. envelope'[b] = "new"
      BY <1>1, <2>2, <2>7, <3>2 DEF Purge, TypeOK
    <3>4. \A c \in Bundles : sidecars[c] = {} => sidecars'[c] = {}
      BY <1>1, <2>7 DEF Purge, TypeOK
    <3>5. QED
      BY <2>7, <3>3, <3>4 DEF Purge
  <2>8. QED
    BY <1>4, <2>2, <2>3, <2>4, <2>5, <2>6, <2>7, DiskStep
<1>8. QED
  BY <1>6, <1>7

---------------------------------------------------------------------------
(* Sources and descriptors *)

LEMMA SourcesHeldStep == IInv /\ [Next]_vars => SourcesHeld'
<1> SUFFICES ASSUME IInv, [Next]_vars PROVE SourcesHeld'
  OBVIOUS
<1> USE DEF write, bundle, node, Continue, NextWrite, Return, stagingVars
<1>1. /\ request \in Requests /\ request' = request /\ writes' = writes
      /\ AtHand /\ Staged /\ TypeOK /\ SourcesHeld /\ Envelopes' = Envelopes
  BY RequestKept DEF IInv, writes, Envelopes
<1>2. /\ Len(writes) \in Nat /\ DOMAIN writes = 1..Len(writes) /\ i \in Nat
      /\ prepared \subseteq DOMAIN writes
  BY <1>1, Indices DEF TypeOK
<1>3. ASSUME NEW j \in Envelopes PROVE writes[j].bundle \in Bundles
  BY <1>1, <1>3, WriteType DEF Envelopes
\* A step that changes neither the descriptors nor what is staged.
<1>4. ASSUME held' = held, handles' = handles, prepared' \subseteq prepared,
             \A j \in DOMAIN writes : j \in prepared /\ Passed(j)' => Passed(j),
             pc' \in {"check", "rename"} => pc \in {"check", "rename"} /\ i' = i,
             pc' \in {"close", "done"} \/ pc = "done" => pc' = pc
      PROVE  SourcesHeld'
  BY <1>1, <1>2, <1>4 DEF SourcesHeld
<1>5. CASE SkipResource
  <2>1. i \notin prepared
    BY <1>1, <1>2, <1>5 DEF SkipResource, Staged
  <2>2. QED
    BY <1>2, <1>4, <1>5, <2>1 DEF SkipResource, Passed, Preparing, Committing
<1>6. CASE Block \/ AllocationRefused
  <2>1. i \notin prepared
    BY <1>1, <1>2, <1>6 DEF Block, AllocationRefused, MayStage, Staged
  <2>2. QED
    BY <1>2, <1>4, <1>6, <2>1 DEF Block, AllocationRefused, MayStage, Passed, Preparing, Committing
<1>7. CASE Allocate
  <2>1. i \notin prepared /\ pc = "prepare"
    BY <1>1, <1>2, <1>7 DEF Allocate, MayStage, Staged
  <2>2. held' = held /\ pc' \in {"prepare", "transfer"}
    BY <1>7 DEF Allocate
  <2>3. \A j \in prepared' : Passed(j)' => j \in prepared /\ Passed(j)
    BY <1>2, <1>7, <2>1 DEF Allocate, Passed, Preparing, Committing
  <2>4. QED
    BY <1>1, <2>1, <2>2, <2>3 DEF SourcesHeld
<1>8. CASE VerifySource
  <2>1. /\ held' = held \ {node} /\ prepared' = prepared /\ i' = i + 1
        /\ pc = "verify" /\ pc' = "prepare"
    BY <1>8 DEF VerifySource
  <2>2. i \in DOMAIN writes /\ write.kind = "macho" /\ ~request.dryRun
    BY <1>1, <2>1 DEF AtHand
  <2>3. \A j \in Envelopes : node \notin NestedIn(writes[j].bundle) \ writes[j].seals
    BY <1>1, <2>2, SealedIsWritten
  <2>4. \A j \in Envelopes : NestedIn(writes[j].bundle) \ writes[j].seals \subseteq held'
    BY <1>1, <2>1, <2>2, <2>3 DEF SourcesHeld
  <2>5. \A j \in prepared' : Passed(j)' => writes[j].node \notin held'
    BY <1>1, <1>2, <2>1 DEF SourcesHeld, Passed, Preparing, Committing
  <2>6. QED
    BY <1>1, <2>1, <2>4, <2>5 DEF SourcesHeld
<1>9. CASE Transfer
  BY <1>4, <1>9 DEF Transfer, Passed, Preparing, Committing
<1>10. CASE EndPrepare
  BY <1>2, <1>4, <1>10 DEF EndPrepare, Passed, Preparing, Committing
<1>11. CASE BeginCommit
  <2>1. /\ held' = held /\ handles' = handles /\ prepared' = prepared
        /\ pc = "commit" /\ pc' \in {"commit", "original", "access", "directory"}
    BY <1>11 DEF BeginCommit
  <2>2. QED
    BY <1>4, <2>1 DEF Passed, Preparing, Committing
<1>12. CASE RecordOriginal \/ CheckTarget \/ Rename \/ Recompress
  BY <1>4, <1>12 DEF RecordOriginal, CheckTarget, Rename, Recompress,
                     Passed, Preparing, Committing
<1>13. CASE CopySourceAccess
  <2>1. /\ held' = held /\ prepared' = prepared /\ pc = "access" /\ pc' = "check"
        /\ i' = i
        /\ handles' = (handles \ {<<i, "source">>, <<i, "file">>}) \cup {<<i, "reader">>}
    BY <1>13 DEF CopySourceAccess
  <2>2. \A h \in {"source", "file"} : <<i', h>> \notin handles'
    BY <2>1
  <2>3. \A j \in prepared : writes[j].node \notin held
    BY <1>1, <2>1 DEF SourcesHeld, Passed, Committing
  <2>4. QED
    BY <1>1, <2>1, <2>2, <2>3 DEF SourcesHeld
<1>14. ASSUME NEW k \in 0..Len(Entries), Purge(k) PROVE SourcesHeld'
  <2>1. /\ held' = held /\ handles' = handles /\ prepared' = prepared
        /\ pc = "purge" /\ pc' \in {"record", "cleanup"}
    BY <1>14 DEF Purge
  <2>2. QED
    BY <1>4, <2>1 DEF Passed, Preparing, Committing
<1>15. CASE RecordAccess
  BY <1>1, <1>15 DEF RecordAccess, SourcesHeld, Passed, Preparing, Committing
<1>16. CASE CreateDirectory \/ WriteResource \/ EndCommit
  BY <1>4, <1>16 DEF CreateDirectory, WriteResource, EndCommit, Passed, Preparing, Committing
<1>17. CASE CallFails
  BY <1>4, <1>17 DEF CallFails, AllocateFails, Fail, Passed, Preparing, Committing
<1>18. CASE CloseReplacements
  <2>1. /\ held' = held /\ handles' = {} /\ prepared' \subseteq prepared
        /\ pc = "cleanup" /\ pc' = "close"
    BY <1>18 DEF CloseReplacements
  <2>2. QED
    BY <1>1, <2>1 DEF SourcesHeld, Passed, Preparing, Committing
<1>19. CASE CloseBundle
  <2>1. held' = {} /\ handles' = handles /\ pc = "close" /\ pc' = "done"
    BY <1>19 DEF CloseBundle
  <2>2. QED
    BY <1>1, <2>1 DEF SourcesHeld
<1>20. CASE Cancel \/ UNCHANGED vars
  BY <1>4, <1>20 DEF Cancel, vars, Passed
<1>21. ASSUME NEW n \in Nodes, Substitute(n) \/ Modify(n) PROVE SourcesHeld'
  BY <1>4, <1>21 DEF Substitute, Modify, Passed
<1>22. QED
  BY <1>5, <1>6, <1>7, <1>8, <1>9, <1>10, <1>11, <1>12, <1>13, <1>14, <1>15, <1>16,
     <1>17, <1>18, <1>19, <1>20, <1>21 DEF Next, Step, Environment

LEMMA CheckedStep == IInv /\ [Next]_vars => Checked'
<1> SUFFICES ASSUME IInv, [Next]_vars PROVE Checked'
  OBVIOUS
<1> USE DEF write, bundle, node, Continue, NextWrite, Return
<1>1. request' = request /\ writes' = writes /\ AtHand /\ Checked /\ TypeOK
      /\ request \in Requests
  BY RequestKept DEF IInv, writes
<1>2. CASE CopySourceAccess
  BY <1>1, <1>2 DEF CopySourceAccess, Checked, Intact, worldVars
<1>3. CASE CheckTarget
  BY <1>1, <1>3 DEF CheckTarget, Checked, Intact, worldVars
<1>4. ASSUME NEW n \in Nodes, Substitute(n) \/ Modify(n) PROVE Checked'
  <2>1. pc \in {"check", "rename"} =>
          node \in Nodes /\ (Current(n) <=> node = n)
    BY <1>1, Indices, WriteType DEF AtHand, Current
  <2>2. pc' = pc /\ node' = node /\ late \subseteq late'
    BY <1>1, <1>4 DEF Substitute, Modify
  <2>3. CASE Substitute(n)
    BY <1>1, <2>1, <2>2, <2>3 DEF Substitute, Checked, Intact, TypeOK
  <2>4. CASE Modify(n)
    BY <1>1, <2>1, <2>2, <2>4 DEF Modify, Checked, Intact, TypeOK
  <2>5. QED
    BY <1>4, <2>3, <2>4
<1>5. CASE Cancel \/ UNCHANGED vars
  BY <1>1, <1>5 DEF Cancel, vars, worldVars, Checked, Intact
<1>6. CASE SkipResource \/ Block \/ Allocate \/ AllocationRefused \/ Transfer
             \/ VerifySource \/ EndPrepare
  BY <1>6 DEF SkipResource, Block, Allocate, AllocationRefused, Transfer,
              VerifySource, EndPrepare, Checked
<1>7. CASE BeginCommit
  <2>1. pc' \in {"commit", "original", "access", "directory"}
    BY <1>7 DEF BeginCommit
  <2>2. QED
    BY <2>1 DEF Checked
<1>8. CASE RecordOriginal \/ Rename \/ Recompress \/ RecordAccess \/ EndCommit
             \/ CreateDirectory \/ WriteResource
  BY <1>8 DEF RecordOriginal, Rename, Recompress, RecordAccess, EndCommit,
              CreateDirectory, WriteResource, Checked
<1>9. ASSUME NEW k \in 0..Len(Entries), Purge(k) PROVE pc' \in {"record", "cleanup"}
  BY <1>9 DEF Purge
<1>10. CASE CallFails \/ CloseReplacements \/ CloseBundle
  BY <1>10 DEF CallFails, AllocateFails, Fail, CloseReplacements, CloseBundle, Checked
<1>11. QED
  BY <1>2, <1>3, <1>4, <1>5, <1>6, <1>7, <1>8, <1>9, <1>10
     DEF Next, Step, Environment, Checked

LEMMA MixedStep == IInv /\ [Next]_vars => MixedIsRefused'
<1> SUFFICES ASSUME IInv, [Next]_vars PROVE MixedIsRefused'
  OBVIOUS
<1> USE DEF write, bundle, node, Continue, NextWrite, Return, stagingVars
<1>1. request' = request /\ writes' = writes /\ MixedIsRefused /\ Unpublished /\ TypeOK
  BY RequestKept DEF IInv, writes
<1>2. CASE Transfer
  <2>1. \A n \in Nodes : target'[n] # "new"
    BY <1>1, <1>2 DEF Transfer, Unpublished, Preparing
  <2>2. mixed = {}
    BY <1>1, <1>2 DEF Transfer, MixedIsRefused, Returned
  <2>3. QED
    BY <1>1, <1>2, <2>1, <2>2 DEF Transfer, MixedIsRefused, worldVars
\* Once mixed, the loop only returns.
<1>3. ASSUME mixed' = mixed, modified \subseteq modified', Quiet,
             mixed # {} => pc' \in Returned \/ (pc' = pc /\ node' = node)
      PROVE  MixedIsRefused'
  BY <1>1, <1>3 DEF MixedIsRefused, Quiet, Returned
<1>4. CASE ~Transfer /\ mixed = {}
  <2>1. mixed' = mixed
    <3>1. CASE SkipResource \/ Block \/ Allocate \/ AllocationRefused
                 \/ VerifySource \/ EndPrepare
      BY <3>1 DEF SkipResource, Block, Allocate, AllocationRefused, VerifySource, EndPrepare
    <3>2. CASE BeginCommit \/ RecordOriginal \/ CopySourceAccess \/ CheckTarget \/ Rename
                 \/ Recompress \/ RecordAccess \/ EndCommit
      BY <3>2 DEF BeginCommit, RecordOriginal, CopySourceAccess, CheckTarget, Rename,
                  Recompress, RecordAccess, EndCommit
    <3>3. CASE CreateDirectory \/ WriteResource \/ \E k \in 0..Len(Entries) : Purge(k)
      BY <3>3 DEF CreateDirectory, WriteResource, Purge
    <3>4. CASE CallFails \/ CloseReplacements \/ CloseBundle \/ Cancel \/ UNCHANGED vars
      BY <3>4 DEF CallFails, AllocateFails, Fail, CloseReplacements, CloseBundle, Cancel,
                  vars
    <3>5. CASE \E n \in Nodes : Substitute(n) \/ Modify(n)
      BY <3>5 DEF Substitute, Modify
    <3>6. QED
      BY <1>4, <3>1, <3>2, <3>3, <3>4, <3>5 DEF Next, Step, Environment
  <2>2. QED
    BY <1>4, <2>1 DEF MixedIsRefused
<1>5. CASE mixed # {}
  <2>1. pc \in Returned \/ (pc = "verify" /\ ~Intact(node))
    BY <1>1, <1>5 DEF MixedIsRefused, Intact
  <2>2. CallFails \/ CloseReplacements \/ CloseBundle \/ Cancel \/ UNCHANGED vars
          \/ \E n \in Nodes : Substitute(n) \/ Modify(n)
    BY <2>1 DEF Next, Step, Environment, SkipResource, Block, Allocate, MayStage,
      AllocationRefused, Transfer, VerifySource, EndPrepare, BeginCommit, RecordOriginal,
      CopySourceAccess, CheckTarget, Rename, Recompress, RecordAccess, EndCommit,
      CreateDirectory, WriteResource, Purge, Returned
  <2>3. mixed' = mixed /\ modified \subseteq modified'
    BY <2>2 DEF CallFails, AllocateFails, Fail, CloseReplacements, CloseBundle, Cancel,
                vars, Substitute, Modify, worldVars
  <2>4. pc' \in Returned \/ (pc' = pc /\ node' = node)
    BY <1>1, <2>2 DEF CallFails, AllocateFails, Fail, CloseReplacements, CloseBundle,
                      Cancel, vars, Substitute, Modify, Returned
  <2>5. Quiet
    BY <2>1, DiskStep DEF CreateDirectory, WriteResource, Rename, Purge, Returned
  <2>6. QED
    BY <1>3, <2>3, <2>4, <2>5
<1>6. QED
  BY <1>2, <1>4, <1>5

LEMMA NilStep == IInv /\ [Next]_vars => NilMeansSealed'
<1> SUFFICES ASSUME IInv, [Next]_vars, pc' = "done", result' = "nil",
                    NEW j \in Envelopes', target'[writes'[j].bundle] = "new",
                    NEW n \in NestedIn(writes'[j].bundle) \ writes'[j].seals
             PROVE  target'[n] = "old" /\ n \notin modified'
  BY DEF NilMeansSealed, Intact
<1>1. /\ request' = request /\ writes' = writes /\ Envelopes' = Envelopes /\ AtHand
      /\ request \in Requests /\ NilMeansSealed /\ SourcesHeld /\ Unpublished
  BY RequestKept DEF IInv, writes, Envelopes
<1>2. CloseBundle \/ (pc = "done" /\ UNCHANGED vars)
  BY DEF Next, Step, Environment, CallFails, AllocateFails, Fail, vars, SkipResource,
    Block, Allocate, MayStage, AllocationRefused, Transfer, VerifySource, EndPrepare,
    BeginCommit, RecordOriginal, CopySourceAccess, CheckTarget, Rename, Recompress,
    RecordAccess, EndCommit, CreateDirectory, WriteResource, Purge, CloseReplacements,
    Cancel, Substitute, Modify, Continue, NextWrite, Return
<1>3. CASE CloseBundle
  <2>1. writes[j].bundle \in Nodes /\ target[writes[j].bundle] = "new"
    <3>1. j \in Envelopes /\ j \in DOMAIN writes
      BY <1>1 DEF Envelopes
    <3>2. writes[j].bundle \in Bundles
      BY <1>1, <3>1, WriteType
    <3>3. QED
      BY <1>1, <1>3, <3>2 DEF CloseBundle, Nodes
  <2>2. ~request.dryRun
    BY <1>1, <2>1 DEF Unpublished
  <2>3. n \in held
    BY <1>1, <1>3, <2>2 DEF CloseBundle, SourcesHeld
  <2>4. Intact(n)
    BY <1>3, <2>3 DEF CloseBundle
  <2>5. QED
    BY <1>3, <2>4 DEF CloseBundle, Intact, worldVars
<1>4. CASE pc = "done" /\ UNCHANGED vars
  BY <1>1, <1>4 DEF vars, worldVars, NilMeansSealed, Intact
<1>5. QED
  BY <1>2, <1>3, <1>4

---------------------------------------------------------------------------
(* Theorems *)

LEMMA InitInvariant == Init => IInv
<1> SUFFICES ASSUME Init PROVE IInv
  OBVIOUS
<1>1. /\ request \in Requests /\ pc = "prepare" /\ i = 1 /\ result = "none"
      /\ allocated = {} /\ failed = {} /\ blocked = {} /\ prepared = {} /\ mixed = {}
      /\ \A n \in Nodes : target[n] = "old"
      /\ \A b \in Bundles : envelope[b] \in {"old", "absent"}
      /\ held = request.held
  BY DEF Init
<1>2. TypeOK
  BY InitType
<1>3. Refused = {} /\ \A b : ~Tainted(b)
  BY <1>1 DEF Refused, Tainted
<1>4. \A j \in DOMAIN writes : ~Passed(j)
  BY <1>1, Indices DEF Passed, Preparing, Committing
<1>5. AtHand /\ Staged
  BY <1>1, <1>4 DEF AtHand, Staged, Committing, Returned
<1>6. Remembered
  BY <1>1, <1>4 DEF Remembered
<1>7. Unpublished /\ PublishedByLoop /\ MixedIsRefused /\ Checked
  BY <1>1 DEF Unpublished, PublishedByLoop, MixedIsRefused, Checked
<1>8. LoopSoFar
  BY <1>1 DEF LoopSoFar, Committing
<1>9. SourcesHeld
  BY <1>1, SealedIsWritten DEF SourcesHeld
<1>10. FailureContained
  BY <1>1, <1>3 DEF FailureContained, Nodes
<1>11. PublishedSealsHold /\ NilMeansSealed
  <2>1. \A j \in Envelopes : target[writes[j].bundle] # "new"
    BY <1>1, WriteType DEF Envelopes, Nodes
  <2>2. QED
    BY <1>1, <2>1 DEF PublishedSealsHold, NilMeansSealed
<1>12. QED
  BY <1>1, <1>2, <1>5, <1>6, <1>7, <1>8, <1>9, <1>10, <1>11 DEF IInv

\* The two loops of applyBundleWrites keep the inductive invariant, whatever
\* fails and whoever interferes (bundle_writer.go:62-135).
THEOREM InductiveInvariant == Spec => []IInv
<1>1. IInv /\ [Next]_vars => IInv'
  <2>1. IInv /\ [Next]_vars => request' \in Requests
    BY RequestKept DEF IInv
  <2>2. QED
    BY <2>1, TypeStep, AtHandStep, StagedStep, RememberedStep, UnpublishedStep,
       PublishedByLoopStep, LoopSoFarStep, SourcesHeldStep, CheckedStep, MixedStep,
       SealsStep, ContainedStep, NilStep DEF IInv
<1>2. QED
  BY <1>1, InitInvariant, PTL DEF Spec

\* At every instant, so also after a crash, a published executable has its complete
\* envelope and the nested code this envelope seals, for every tree and plan; mixed
\* contents are never published (bundle_writer.go:97-130, 396-470).
THEOREM PublishedHoldsAlways == Spec => []PublishedHolds
<1>1. IInv => PublishedHolds
  <2>1. SUFFICES ASSUME IInv PROVE MixedNeverPublished
    BY DEF IInv, PublishedHolds
  <2>2. request \in Requests /\ mixed \subseteq DOMAIN writes /\ MixedIsRefused
    BY <2>1 DEF IInv, TypeOK
  <2>3. QED
    BY <2>2, WriteType DEF MixedIsRefused, MixedNeverPublished
<1>2. QED
  BY <1>1, InductiveInvariant, PTL

\* A refusal anywhere below a bundle keeps its executable and envelope as they were,
\* at any depth, and every descriptor is closed in time (bundle_writer.go:97-114).
THEOREM FailureIsContainedAlways == Spec => []FailureIsContained
<1>1. IInv => FailureIsContained
  <2>1. SUFFICES ASSUME IInv PROVE HandlesClosed
    BY DEF IInv, FailureIsContained
  <2>2. pc = "rename" => i \in prepared /\ Passed(i)
    BY <2>1 DEF IInv, AtHand, Passed, Committing
  <2>3. QED
    BY <2>1, <2>2 DEF IInv, SourcesHeld, HandlesClosed, node, write
<1>2. QED
  BY <1>1, InductiveInvariant, PTL

\* When applyBundleWrites returns nil or only refusals, exactly the writes outside
\* the ancestors of a refused executable have been performed, and what was sealed as
\* found is so when the operation returns nil (bundle_writer.go:62-135, bundle.go:169).
THEOREM ResultIsTrueAlways == Spec => []ResultIsTrue
<1>1. IInv => ResultIsTrue
  <2>1. SUFFICES ASSUME IInv, result \in {"nil", "allocation"}, ~request.dryRun,
                        NEW j \in DOMAIN writes, NEW b, b = writes[j].bundle,
                        NEW n, n = writes[j].node
                 PROVE  /\ writes[j].kind = "resource" /\ ~Tainted(b) =>
                              envelope[b] = "new"
                        /\ writes[j].kind = "macho" /\ n \notin Refused
                              /\ (n \in Bundles => ~Tainted(b)) =>
                              /\ target[n] # "old"
                              /\ writes[j].cleanup # "none" => sidecars[b] = {}
                              /\ writes[j].cleanup = "all" => envelope[b] = "absent"
    BY DEF IInv, ResultIsTrue, Outcome
  <2>2. Performed(j)
    BY <2>1 DEF IInv, LoopSoFar
  <2>3. ~Tainted(b) => Unblocked(j)
    BY <2>1 DEF IInv, Remembered, Unblocked
  <2>4. n \notin Refused => j \notin allocated
    BY <2>1 DEF Refused
  <2>5. QED
    BY <2>1, <2>2, <2>3, <2>4 DEF Performed, IsMain
<1>2. QED
  BY <1>1, InductiveInvariant, PTL

\* A rename discards no file that another process put in place, or wrote into,
\* before the last check of that executable (bundle_writer.go:438-458).
THEOREM NoLostUpdateHolds == Spec => NoLostUpdate
<1>1. IInv /\ [Next]_vars =>
        \A n \in Nodes : target[n] # "new" /\ target'[n] = "new" => Intact(n) \/ n \in late
  <2>1. SUFFICES ASSUME IInv, [Next]_vars, NEW n \in Nodes, target[n] # "new",
                        target'[n] = "new"
                 PROVE  Intact(n) \/ n \in late
    OBVIOUS
  <2>2. Rename
    BY <2>1, DiskStep DEF Quiet, CreateDirectory, WriteResource, Purge
  <2>3. node = n
    BY <2>1, <2>2 DEF Rename, IInv, TypeOK
  <2>4. QED
    BY <2>1, <2>2, <2>3 DEF IInv, Checked, Rename
<1>2. QED
  BY <1>1, InductiveInvariant, PTL DEF Spec, NoLostUpdate

\* A dry run changes no name and no content, and signature files go only after their
\* executable was replaced (bundle_writer.go:105-107, 463-470).
THEOREM CommitOrderHolds == Spec => CommitOrder
<1>1. IInv /\ [Next]_vars =>
        (request.dryRun => /\ UNCHANGED diskVars
                           /\ \A n \in Nodes : target'[n] \in {target[n], "foreign"})
  <2>1. SUFFICES ASSUME IInv, [Next]_vars, request.dryRun PROVE Quiet
    BY DEF Quiet
  <2>2. pc \notin Committing
    BY <2>1 DEF IInv, AtHand
  <2>3. QED
    BY <2>1, <2>2, DiskStep DEF CreateDirectory, WriteResource, Rename, Purge, Committing
<1>2. IInv /\ [Next]_vars =>
        \A b \in Bundles :
          /\ sidecars'[b] # sidecars[b] => target[b] # "old"
          /\ envelope'[b] = "absent" /\ envelope[b] # "absent" => target[b] # "old"
          /\ sidecars[b] \cap Irregular \subseteq sidecars'[b]
  <2>1. SUFFICES ASSUME IInv, [Next]_vars, NEW b \in Bundles
                 PROVE  /\ sidecars'[b] # sidecars[b] => target[b] # "old"
                        /\ envelope'[b] = "absent" /\ envelope[b] # "absent"
                             => target[b] # "old"
                        /\ sidecars[b] \cap Irregular \subseteq sidecars'[b]
    OBVIOUS
  <2>2. TypeOK
    BY <2>1 DEF IInv
  <2>3. CASE Quiet \/ CreateDirectory \/ Rename
    BY <2>3 DEF Quiet, CreateDirectory, Rename, diskVars
  <2>4. CASE WriteResource
    BY <2>2, <2>4 DEF WriteResource, TypeOK
  <2>5. ASSUME NEW k \in 0..Len(Entries), Purge(k)
        PROVE  /\ sidecars'[b] # sidecars[b] => target[b] # "old"
               /\ envelope'[b] = "absent" /\ envelope[b] # "absent" => target[b] # "old"
               /\ sidecars[b] \cap Irregular \subseteq sidecars'[b]
    <3>1. /\ i \in DOMAIN writes /\ write.cleanup # "none" /\ target[node] # "old"
          /\ request \in Requests /\ write.kind = "macho"
      BY <2>1, <2>5 DEF Purge, IInv, AtHand, LoopSoFar, Staged, write
    <3>2. node = bundle
      BY <3>1, HelperShape, MainShape DEF IsMain, node, bundle, write
    <3>3. sidecars'[b] # sidecars[b] => b = bundle
      BY <2>2, <2>5 DEF Purge, TypeOK
    <3>4. envelope'[b] = "absent" /\ envelope[b] # "absent" => b = bundle
      BY <2>2, <2>5 DEF Purge, TypeOK
    <3>5. sidecars[b] \cap Irregular \subseteq sidecars'[b]
      BY <2>2, <2>5 DEF Purge, TypeOK
    <3>6. QED
      BY <3>1, <3>2, <3>3, <3>4, <3>5
  <2>6. QED
    BY <2>1, <2>3, <2>4, <2>5, DiskStep
<1>3. QED
  BY <1>1, <1>2, InductiveInvariant, PTL
     DEF Spec, CommitOrder, DryRunPreserves, CleanupFollowsCommit
=============================================================================
