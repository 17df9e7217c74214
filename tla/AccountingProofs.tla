------------------------- MODULE AccountingProofs -------------------------
(***************************************************************************)
(* Proofs about the two components that account for what they use against   *)
(* a limit that many share, for any numbers and sizes of the users: the     *)
(* memory and the temporary files of WorkingStorage, and the entries, the   *)
(* nested code and the bytes that BundleScan counts.                         *)
(*                                                                          *)
(* WorkingStorage: the inductive invariant IInv adds to the properties what *)
(* their preservation needs: which channels can still be open, and that a   *)
(* thread inside stage code works on a stage.  BInv adds what is reserved   *)
(* and what is counted.                                                      *)
(***************************************************************************)
EXTENDS WorkingStorage, BundleScan, FiniteSetTheorems, SequenceTheorems, TLAPS

\* Only the newest channel can be open, and only while the storage is.
ChannelsInOrder ==
  /\ closedChannel <= changed
  /\ ~closed => closedChannel < changed
  /\ \A w \in Workers : channel[w] <= changed

\* A thread inside the code of a stage has one.
StageInUse ==
  \A t \in Threads :
    pc[t] \in {"stage", "write", "remove", "account"} => use[t] \in Stages

\* Close sets s.closed in its first critical section.
ClosingIsClosed == \A c \in Closers : pc[c] # "start" => closed

IInv ==
  /\ TypeOK /\ StageInUse /\ ClosingIsClosed
  /\ ChannelsInOrder /\ NoLostWakeup /\ NoPanic
  /\ SpillDisjoint

PcType ==
  /\ pc \in [Threads -> Labels]
  /\ use \in [Threads -> Stages \cup {None}]
  /\ canceled \in BOOLEAN

---------------------------------------------------------------------------
(* Types *)

LEMMA InitType == Init => TypeOK /\ StageInUse
<1> SUFFICES ASSUME Init PROVE TypeOK /\ StageInUse
  OBVIOUS
<1>1. PcType /\ StageInUse
  BY DEF Init, PcType, StageInUse, Threads, Labels
<1>2. BufferType /\ MemoryType /\ TempType
  BY StorageAssumption DEF Init, BufferType, MemoryType, TempType
<1>3. SignalType
  BY DEF Init, SignalType
<1>6. SpillType
  BY StorageAssumption DEF Init, SpillType
<1>7. CloseType
  <2>1. closed \in BOOLEAN
    BY DEF Init
  <2>2. todo \in [Closers -> SUBSET Stages]
    BY DEF Init
  <2>3. QED
    BY <2>1, <2>2 DEF Init, CloseType
<1>4. StageType
  BY StorageAssumption DEF Init, StageType, NewStage
<1>5. QED
  BY <1>1, <1>2, <1>3, <1>4, <1>6, <1>7 DEF TypeOK, PcType


\* The parts of the type invariant that a step does not touch.
LEMMA TypeFrame ==
  /\ BufferType /\ UNCHANGED bufferVars => BufferType'
  /\ SignalType /\ UNCHANGED signalVars => SignalType'
  /\ CloseType /\ UNCHANGED closeVars => CloseType'
  /\ MemoryType /\ UNCHANGED memoryVars => MemoryType'
  /\ SpillType /\ UNCHANGED spillVars => SpillType'
  /\ TempType /\ UNCHANGED tempVars => TempType'
  /\ StageType /\ UNCHANGED stageVars => StageType'
<1>1. BufferType /\ UNCHANGED bufferVars => BufferType'
  BY DEF BufferType, bufferVars
<1>2. SignalType /\ UNCHANGED signalVars => SignalType'
  BY DEF SignalType, signalVars
<1>3. CloseType /\ UNCHANGED closeVars => CloseType'
  BY DEF CloseType, closeVars
<1>4. MemoryType /\ UNCHANGED memoryVars => MemoryType'
  BY DEF MemoryType, memoryVars
<1>5. SpillType /\ UNCHANGED spillVars => SpillType'
  BY DEF SpillType, spillVars
<1>6. TempType /\ UNCHANGED tempVars => TempType'
  BY DEF TempType, tempVars
<1>7. StageType /\ UNCHANGED stageVars => StageType'
  BY DEF StageType, stageVars, Threads
<1>8. QED
  BY <1>1, <1>2, <1>3, <1>4, <1>5, <1>6, <1>7

\* Every step keeps the types and the stage of a thread inside stage code.
LEMMA TypeStep ==
  ASSUME TypeOK, StageInUse, [Next]_vars
  PROVE  TypeOK' /\ StageInUse'
<1> USE StorageAssumption DEF TypeOK
<1>1. ASSUME NEW w \in Workers, release(w)
      PROVE TypeOK' /\ StageInUse'
  <2>1. PcType' /\ StageInUse'
    BY <1>1 DEF release, closeChanged, Threads, Labels, StageInUse, Goto, PcType
  <2>2. BufferType'
    BY <1>1 DEF release, closeChanged, BufferType, bufferVars
  <2>3. SignalType'
    <3>1. panicked' \in BOOLEAN
      BY <1>1, Zenon DEF release, closeChanged, SignalType, signalVars
    <3>2. changed' \in Nat /\ closedChannel' \in Nat
      BY <1>1 DEF release, closeChanged, SignalType, signalVars
    <3>3. QED
      BY <3>1, <3>2 DEF SignalType
  <2>4. MemoryType'
    BY <1>1 DEF release, closeChanged, MemoryType, memoryVars, BufferType
  <2>5. QED
    BY <1>1, <2>1, <2>2, <2>3, <2>4, TypeFrame DEF release, closeChanged, PcType
<1>2. ASSUME NEW w \in Workers, NEW size \in BufferSizes, transferBuffer(w, size)
      PROVE TypeOK' /\ StageInUse'
  <2>1. PcType' /\ StageInUse'
    BY <1>2 DEF transferBuffer, Begin, Threads, Labels, StageInUse, Goto, PcType
  <2>2. BufferType'
    BY <1>2 DEF transferBuffer, Begin, BufferType, bufferVars
  <2>3. QED
    BY <1>2, <2>1, <2>2, TypeFrame DEF transferBuffer, Begin, PcType
<1>3. ASSUME NEW w \in Workers, CheckContext(w)
      PROVE TypeOK' /\ StageInUse'
  <2>1. PcType' /\ StageInUse'
    BY <1>3 DEF CheckContext, Threads, Labels, StageInUse, Goto, PcType
  <2>2. BufferType'
    BY <1>3 DEF CheckContext, BufferType, bufferVars
  <2>3. QED
    BY <1>3, <2>1, <2>2, TypeFrame DEF CheckContext, PcType
<1>4. ASSUME NEW w \in Workers, TryReserve(w)
      PROVE TypeOK' /\ StageInUse'
  <2>1. PcType' /\ StageInUse'
    BY <1>4 DEF TryReserve, reserve, Threads, Labels, StageInUse, Goto, PcType
  <2>2. BufferType'
    BY <1>4 DEF TryReserve, BufferType, bufferVars, SignalType
  <2>3. MemoryType'
    BY <1>4 DEF TryReserve, reserve, MemoryType, memoryVars, BufferType
  <2>4. QED
    BY <1>4, <2>1, <2>2, <2>3, TypeFrame DEF TryReserve, reserve, PcType
<1>5. ASSUME NEW w \in Workers, Wake(w)
      PROVE TypeOK' /\ StageInUse'
  <2>1. PcType' /\ StageInUse'
    BY <1>5 DEF Wake, Threads, Labels, StageInUse, Goto, PcType
  <2>2. BufferType'
    BY <1>5 DEF Wake, BufferType, bufferVars
  <2>3. QED
    BY <1>5, <2>1, <2>2, TypeFrame DEF Wake, PcType
<1>6. ASSUME NEW w \in Workers, NEW size \in SectionSizes, BeginSection(w, size)
      PROVE TypeOK' /\ StageInUse'
  <2>1. PcType' /\ StageInUse'
    BY <1>6 DEF BeginSection, Begin, Threads, Labels, StageInUse, Goto, PcType
  <2>2. BufferType'
    BY <1>6 DEF BeginSection, Begin, BufferType, bufferVars
  <2>3. QED
    BY <1>6, <2>1, <2>2, TypeFrame DEF BeginSection, Begin, PcType
<1>7. ASSUME NEW w \in Workers, newWorkingSection(w)
      PROVE TypeOK' /\ StageInUse'
  <2>1. PcType' /\ StageInUse'
    BY <1>7 DEF newWorkingSection, reserve, Spill, SpillOverflow, Threads, Labels, StageInUse, Goto, PcType
  <2>2. BufferType'
    BY <1>7 DEF newWorkingSection, reserve, Spill, SpillOverflow, BufferType, bufferVars
  <2>3. MemoryType'
    BY <1>7 DEF newWorkingSection, reserve, Spill, SpillOverflow, MemoryType, memoryVars, BufferType
  <2>4. SpillType'
    <3>1. want[w] \in Nat
      BY DEF BufferType
    <3>2. CASE UNCHANGED spillVars
      BY <3>2, TypeFrame
    <3>3. ASSUME NEW x \in Section, sections' = Append(sections, x)
          PROVE sections' \in Seq(Section)
      BY <3>3 DEF SpillType
    <3>4. CASE ~closed /\ FitsMemory(want[w])
      BY <1>7, <3>1, <3>3, <3>4 DEF newWorkingSection, SpillType, spillVars, Section
    <3>5. CASE ~closed /\ ~FitsMemory(want[w]) /\ ~SpillOverflow(want[w])
      BY <1>7, <3>1, <3>2, <3>3, <3>5
         DEF newWorkingSection, SpillType, spillVars, Section, Spill, SpillOverflow
    <3>6. QED
      BY <1>7, <3>2, <3>4, <3>5 DEF newWorkingSection
  <2>5. TempType'
    BY <1>7 DEF newWorkingSection, reserve, Spill, SpillOverflow, TempType, tempVars, BufferType
  <2>6. QED
    BY <1>7, <2>1, <2>2, <2>3, <2>4, <2>5, TypeFrame DEF newWorkingSection, reserve, Spill, SpillOverflow, PcType
<1>8. ASSUME NEW w \in Workers, NEW st \in Stages, BeginStage(w, st)
      PROVE TypeOK' /\ StageInUse'
  <2>1. PcType' /\ StageInUse'
    BY <1>8 DEF BeginStage, Begin, Threads, Labels, StageInUse, Goto, PcType
  <2>2. BufferType'
    BY <1>8 DEF BeginStage, Begin, BufferType, bufferVars
  <2>3. QED
    BY <1>8, <2>1, <2>2, TypeFrame DEF BeginStage, Begin, PcType
<1>9. ASSUME NEW w \in Workers, newCompressionStage(w)
      PROVE TypeOK' /\ StageInUse'
  <2>1. PcType' /\ StageInUse'
    BY <1>9 DEF newCompressionStage, Threads, Labels, StageInUse, Goto, PcType
  <2>2. TempType'
    BY <1>9 DEF newCompressionStage, TempType, tempVars
  <2>3. StageType'
    <3>1. use[w] \in Stages
      BY <1>9 DEF newCompressionStage, StageInUse, Threads
    <3>2. CASE UNCHANGED stageVars
      BY <3>2, TypeFrame
    <3>3. CASE /\ registered' = registered \cup {use[w]}
               /\ stage' = [stage EXCEPT ![use[w]].exists = TRUE]
      BY <3>1, <3>3 DEF StageType, Threads
    <3>4. QED
      BY <1>9, <3>2, <3>3 DEF newCompressionStage
  <2>4. QED
    BY <1>9, <2>1, <2>2, <2>3, TypeFrame DEF newCompressionStage, PcType
<1>10. ASSUME NEW w \in Workers, BeginWriteAt(w)
      PROVE TypeOK' /\ StageInUse'
  <2>1. PcType' /\ StageInUse'
    BY <1>10 DEF BeginWriteAt, Begin, LockStage, Threads, Labels, StageInUse, Goto, PcType
  <2>2. BufferType'
    BY <1>10 DEF BeginWriteAt, Begin, LockStage, BufferType, bufferVars
  <2>3. StageType'
    BY <1>10 DEF BeginWriteAt, Begin, LockStage, StageType, Threads, stageVars
  <2>4. QED
    BY <1>10, <2>1, <2>2, <2>3, TypeFrame DEF BeginWriteAt, Begin, LockStage, PcType
<1>11. ASSUME NEW w \in Workers, NEW end \in WriteEnds, NEW reached \in 0..end, WriteAt(w, end, reached)
      PROVE TypeOK' /\ StageInUse'
  <2>1. PcType' /\ StageInUse'
    BY <1>11 DEF WriteAt, Threads, Labels, StageInUse, Goto, PcType
  <2>2. TempType'
    BY <1>11 DEF WriteAt, TempType, tempVars, StageType, StageInUse, Threads
  <2>3. StageType'
    BY <1>11 DEF WriteAt, StageType, Threads, stageVars, StageInUse
  <2>4. QED
    BY <1>11, <2>1, <2>2, <2>3, TypeFrame DEF WriteAt, PcType
<1>12. ASSUME NEW t \in Threads, RemoveStage(t)
      PROVE TypeOK' /\ StageInUse'
  <2>1. PcType' /\ StageInUse'
    BY <1>12 DEF RemoveStage, Threads, Labels, StageInUse, Goto, PcType
  <2>2. StageType'
    <3>1. use[t] \in Stages
      BY <1>12 DEF RemoveStage, StageInUse, Threads
    <3>2. CASE UNCHANGED stage
      BY <1>12, <3>2, TypeFrame DEF RemoveStage, stageVars
    <3>3. CASE stage' = [stage EXCEPT ![use[t]].exists = FALSE]
      BY <1>12, <3>1, <3>3 DEF RemoveStage, StageType, Threads
    <3>4. QED
      BY <1>12, <3>2, <3>3 DEF RemoveStage
  <2>3. QED
    BY <1>12, <2>1, <2>2, TypeFrame DEF RemoveStage, PcType
<1>13. ASSUME NEW t \in Threads, NEW next \in {"idle", "stages"}, AccountStage(t, next)
      PROVE TypeOK' /\ StageInUse'
  <2>1. PcType' /\ StageInUse'
    BY <1>13 DEF AccountStage, Threads, Labels, StageInUse, Goto, PcType
  <2>2. TempType'
    BY <1>13 DEF AccountStage, TempType, tempVars, StageType, StageInUse, Threads
  <2>3. StageType'
    BY <1>13 DEF AccountStage, StageType, Threads, stageVars, StageInUse
  <2>4. QED
    BY <1>13, <2>1, <2>2, <2>3, TypeFrame DEF AccountStage, PcType
<1>14. ASSUME NEW w \in Workers, WorkerCloseStage(w)
      PROVE TypeOK' /\ StageInUse'
  <2>1. PcType' /\ StageInUse'
    BY <1>14 DEF WorkerCloseStage, BeginCloseStage, Threads, Labels, StageInUse, Goto, PcType
  <2>2. StageType'
    BY <1>14 DEF WorkerCloseStage, BeginCloseStage, StageType, Threads, stageVars
  <2>3. QED
    BY <1>14, <2>1, <2>2, TypeFrame DEF WorkerCloseStage, BeginCloseStage, PcType
<1>15. ASSUME NEW c \in Closers, Close(c)
      PROVE TypeOK' /\ StageInUse'
  <2>1. PcType' /\ StageInUse'
    BY <1>15 DEF Close, closeChanged, Threads, Labels, StageInUse, Goto, PcType
  <2>2. SignalType'
    BY <1>15 DEF Close, closeChanged, SignalType, signalVars
  <2>3. CloseType'
    BY <1>15 DEF Close, closeChanged, CloseType, closeVars, StageType
  <2>4. QED
    BY <1>15, <2>1, <2>2, <2>3, TypeFrame DEF Close, closeChanged, PcType
<1>16. ASSUME NEW c \in Closers, CloseNextStage(c)
      PROVE TypeOK' /\ StageInUse'
  <2>0. PICK st \in todo[c] :
          /\ BeginCloseStage(c, st, "stages")
          /\ use' = IF stage[st].closed THEN use ELSE [use EXCEPT ![c] = st]
          /\ todo' = [todo EXCEPT ![c] = @ \ {st}]
    BY <1>16 DEF CloseNextStage
  <2>1. st \in Stages
    BY DEF CloseType
  <2>2. PcType' /\ StageInUse'
    BY <1>16, <2>0, <2>1 DEF CloseNextStage, BeginCloseStage, Threads, Labels,
       StageInUse, Goto, PcType
  <2>3. CloseType'
    BY <1>16, <2>0 DEF CloseNextStage, CloseType
  <2>4. StageType'
    BY <1>16, <2>0, <2>1 DEF CloseNextStage, BeginCloseStage, StageType, Threads
  <2>5. QED
    BY <1>16, <2>2, <2>3, <2>4, TypeFrame DEF CloseNextStage, PcType
<1>17. ASSUME NEW c \in Closers, RemoveSpill(c)
      PROVE TypeOK' /\ StageInUse'
  <2>1. PcType' /\ StageInUse'
    BY <1>17 DEF RemoveSpill, Threads, Labels, StageInUse, Goto, PcType
  <2>2. SpillType'
    BY <1>17 DEF RemoveSpill, SpillType, Section, spillVars
  <2>3. QED
    BY <1>17, <2>1, <2>2, TypeFrame DEF RemoveSpill, PcType
<1>18. ASSUME NEW c \in Closers, AccountSpill(c)
      PROVE TypeOK' /\ StageInUse'
  <2>1. PcType' /\ StageInUse'
    BY <1>18 DEF AccountSpill, Threads, Labels, StageInUse, Goto, PcType
  <2>2. TempType'
    BY <1>18 DEF AccountSpill, TempType, tempVars
  <2>3. QED
    BY <1>18, <2>1, <2>2, TypeFrame DEF AccountSpill, PcType
<1>19. ASSUME NEW c \in Closers, Observe(c)
      PROVE TypeOK' /\ StageInUse'
  <2>1. PcType' /\ StageInUse'
    BY <1>19 DEF Observe, Threads, Labels, StageInUse, Goto, PcType
  <2>2. CloseType'
    BY <1>19 DEF Observe, CloseType, closeVars, MemoryType, SpillType, TempType
  <2>3. MemoryType'
    BY <1>19 DEF Observe, MemoryType, memoryVars
  <2>4. QED
    BY <1>19, <2>1, <2>2, <2>3, TypeFrame DEF Observe, PcType
<1>20. CASE Cancel
  <2>1. PcType' /\ StageInUse'
    BY <1>20 DEF Cancel, PcType, Threads, Labels, StageInUse
  <2>2. QED
    BY <1>20, <2>1, TypeFrame DEF Cancel, PcType
<1>21. CASE UNCHANGED vars
  <2>1. PcType' /\ StageInUse'
    BY <1>21 DEF vars, PcType, Threads, Labels, StageInUse
  <2>2. QED
    BY <1>21, <2>1, TypeFrame DEF vars, PcType
<1>22. QED
  BY <1>1, <1>2, <1>3, <1>4, <1>5, <1>6, <1>7, <1>8, <1>9, <1>10, <1>11, <1>12, <1>13, <1>14, <1>15, <1>16, <1>17, <1>18, <1>19, <1>20, <1>21
     DEF Next, WorkerStep, WorkerStart, CloserStep, Threads

---------------------------------------------------------------------------
(* Which steps touch what *)

\* The channel numbers, s.closed and the channels that workers captured.
LEMMA SignalFrame ==
  ASSUME [Next]_vars
  PROVE  \/ UNCHANGED <<signalVars, closed, channel>>
         \/ \E w \in Workers : release(w) \/ TryReserve(w)
         \/ \E c \in Closers : Close(c)
<1> USE DEF bufferVars, closeVars
<1>1. ASSUME NEW w \in Workers, WorkerStep(w)
      PROVE  UNCHANGED <<signalVars, closed, channel>> \/ release(w) \/ TryReserve(w)
  BY <1>1 DEF WorkerStep, CheckContext, Wake, newWorkingSection,
     newCompressionStage, WriteAt, RemoveStage, AccountStage
<1>2. ASSUME NEW w \in Workers, WorkerStart(w)
      PROVE  UNCHANGED <<signalVars, closed, channel>>
  BY <1>2 DEF WorkerStart, transferBuffer, BeginSection, BeginStage,
     BeginWriteAt, WorkerCloseStage
<1>3. ASSUME NEW c \in Closers, CloserStep(c)
      PROVE  UNCHANGED <<signalVars, closed, channel>>
  BY <1>3 DEF CloserStep, CloseNextStage, RemoveStage, AccountStage,
     RemoveSpill, AccountSpill, Observe
<1>4. CASE Cancel
  BY <1>4 DEF Cancel
<1>5. CASE UNCHANGED vars
  BY <1>5 DEF vars
<1>6. QED
  BY <1>1, <1>2, <1>3, <1>4, <1>5 DEF Next

\* The sections and the spill file.
LEMMA SpillFrame ==
  ASSUME [Next]_vars
  PROVE  \/ UNCHANGED spillVars
         \/ \E w \in Workers : newWorkingSection(w)
         \/ \E c \in Closers : RemoveSpill(c)
<1>1. ASSUME NEW w \in Workers, WorkerStep(w)
      PROVE  UNCHANGED spillVars \/ newWorkingSection(w)
  BY <1>1 DEF WorkerStep, CheckContext, Wake, release, TryReserve,
     newCompressionStage, WriteAt, RemoveStage, AccountStage
<1>2. ASSUME NEW w \in Workers, WorkerStart(w)
      PROVE  UNCHANGED spillVars
  BY <1>2 DEF WorkerStart, transferBuffer, BeginSection, BeginStage,
     BeginWriteAt, WorkerCloseStage
<1>3. ASSUME NEW c \in Closers, CloserStep(c) \/ Close(c)
      PROVE  UNCHANGED spillVars \/ RemoveSpill(c)
  BY <1>3 DEF CloserStep, CloseNextStage, RemoveStage, AccountStage,
     AccountSpill, Observe, Close
<1>4. CASE Cancel
  BY <1>4 DEF Cancel
<1>5. CASE UNCHANGED vars
  BY <1>5 DEF vars
<1>6. QED
  BY <1>1, <1>2, <1>3, <1>4, <1>5 DEF Next

\* Only release, or the report of a closed storage, frees memory.
LEMMA MemoryFrame ==
  ASSUME TypeOK, [Next]_vars
  PROVE  \/ memoryBytes' >= memoryBytes
         \/ \E w \in Workers : release(w)
         \/ \E c \in Closers : Observe(c)
<1> USE DEF TypeOK, MemoryType
<1>0. UNCHANGED memoryVars => memoryBytes' >= memoryBytes
  BY DEF memoryVars
<1>1. ASSUME NEW w \in Workers, WorkerStep(w)
      PROVE  memoryBytes' >= memoryBytes \/ release(w)
  <2>1. want[w] \in Nat
    BY DEF BufferType
  <2>2. CASE TryReserve(w)
    BY <1>0, <2>1, <2>2 DEF TryReserve, reserve
  <2>3. CASE newWorkingSection(w)
    BY <1>0, <2>1, <2>3 DEF newWorkingSection, reserve
  <2>4. QED
    BY <1>0, <1>1, <2>2, <2>3 DEF WorkerStep, CheckContext, Wake, newCompressionStage,
       WriteAt, RemoveStage, AccountStage
<1>2. ASSUME NEW w \in Workers, WorkerStart(w)
      PROVE  memoryBytes' >= memoryBytes
  BY <1>0, <1>2 DEF WorkerStart, transferBuffer, BeginSection, BeginStage,
     BeginWriteAt, WorkerCloseStage
<1>3. ASSUME NEW c \in Closers, CloserStep(c) \/ Close(c)
      PROVE  memoryBytes' >= memoryBytes \/ Observe(c)
  BY <1>0, <1>3 DEF CloserStep, CloseNextStage, RemoveStage, AccountStage,
     RemoveSpill, AccountSpill, Close
<1>4. CASE Cancel
  BY <1>0, <1>4 DEF Cancel
<1>5. CASE UNCHANGED vars
  BY <1>0, <1>5 DEF vars
<1>6. QED
  BY <1>1, <1>2, <1>3, <1>4, <1>5 DEF Next

---------------------------------------------------------------------------
(* Channels *)

\* release and Close close the newest channel, and only an open one.
LEMMA SignalStep ==
  ASSUME TypeOK, ChannelsInOrder, NoPanic, [Next]_vars
  PROVE  ChannelsInOrder' /\ NoPanic' /\ closedChannel' >= closedChannel
<1> USE DEF TypeOK, SignalType, CloseType, BufferType, ChannelsInOrder, NoPanic
<1>1. CASE UNCHANGED <<signalVars, closed, channel>>
  BY <1>1 DEF signalVars
<1>2. ASSUME NEW w \in Workers, release(w)
      PROVE  ChannelsInOrder' /\ NoPanic' /\ closedChannel' >= closedChannel
  BY <1>2 DEF release, closeChanged, signalVars, closeVars
<1>3. ASSUME NEW w \in Workers, TryReserve(w)
      PROVE  ChannelsInOrder' /\ NoPanic' /\ closedChannel' >= closedChannel
  <2>1. UNCHANGED <<signalVars, closed>>
    BY <1>3 DEF TryReserve, closeVars
  <2>2. channel' = channel \/ channel' = [channel EXCEPT ![w] = changed]
    BY <1>3 DEF TryReserve
  <2>3. ASSUME NEW x \in Workers PROVE channel'[x] <= changed
    <3>1. channel'[x] = channel[x] \/ channel'[x] = changed
      BY <2>2, Zenon
    <3>2. QED
      BY <3>1
  <2>4. QED
    BY <2>1, <2>3 DEF signalVars
<1>4. ASSUME NEW c \in Closers, Close(c)
      PROVE  ChannelsInOrder' /\ NoPanic' /\ closedChannel' >= closedChannel
  BY <1>4 DEF Close, closeChanged, bufferVars
<1>5. QED
  BY <1>1, <1>2, <1>3, <1>4, SignalFrame

---------------------------------------------------------------------------
(* Waiters *)

\* Who is asleep after a step went to sleep in it, or slept before it with the
\* same request on the same channel.
LEMMA WaiterFrame ==
  ASSUME TypeOK, [Next]_vars, NEW w \in Workers, pc'[w] = "waiting"
  PROVE  \/ TryReserve(w) /\ ~closed /\ ~Fits(want[w]) /\ UNCHANGED memoryVars
         \/ pc[w] = "waiting" /\ want'[w] = want[w] /\ channel'[w] = channel[w]
<1> DEFINE Same == want'[w] = want[w] /\ channel'[w] = channel[w]
<1> USE DEF TypeOK, BufferType, Threads
<1> USE DEF bufferVars, Goto, Begin
<1>1. ASSUME NEW x \in Workers, WorkerStart(x)
      PROVE  pc[w] = "waiting" /\ Same
  BY <1>1 DEF WorkerStart, transferBuffer, BeginSection, BeginStage,
     BeginWriteAt, WorkerCloseStage, BeginCloseStage
<1>2. ASSUME NEW x \in Workers, TryReserve(x), x # w
      PROVE  pc[w] = "waiting" /\ Same
  BY <1>2 DEF TryReserve
<1>3. ASSUME TryReserve(w)
      PROVE  ~closed /\ ~Fits(want[w]) /\ UNCHANGED memoryVars
  BY <1>3 DEF TryReserve
<1>4. ASSUME NEW x \in Workers, WorkerStep(x), ~TryReserve(x)
      PROVE  pc[w] = "waiting" /\ Same
  BY <1>4 DEF WorkerStep, CheckContext, Wake, release, newWorkingSection,
     newCompressionStage, WriteAt, RemoveStage, AccountStage
<1>5. ASSUME NEW c \in Closers, CloserStep(c) \/ Close(c)
      PROVE  pc[w] = "waiting" /\ Same
  BY <1>5 DEF CloserStep, CloseNextStage, BeginCloseStage, RemoveStage,
     AccountStage, RemoveSpill, AccountSpill, Observe, Close
<1>6. CASE Cancel
  BY <1>6 DEF Cancel
<1>7. CASE UNCHANGED vars
  BY <1>7 DEF vars
<1>8. QED
  BY <1>1, <1>2, <1>3, <1>4, <1>5, <1>6, <1>7 DEF Next, WorkerStep

\* s.closed is never reset.
LEMMA ClosedStays == ASSUME [Next]_vars, closed PROVE closed'
<1>1. ASSUME NEW w \in Workers, release(w) \/ TryReserve(w) PROVE closed'
  BY <1>1 DEF release, TryReserve, closeVars
<1>2. ASSUME NEW c \in Closers, Close(c) PROVE closed'
  BY <1>2 DEF Close
<1>3. QED
  BY <1>1, <1>2, SignalFrame

LEMMA ClosingStep ==
  ASSUME TypeOK, ClosingIsClosed, [Next]_vars
  PROVE  ClosingIsClosed'
<1> SUFFICES ASSUME NEW c \in Closers, pc'[c] # "start" PROVE closed'
  BY DEF ClosingIsClosed
<1> USE DEF TypeOK, Goto, Begin, Threads
<1>1. CASE pc[c] # "start"
  BY <1>1, ClosedStays DEF ClosingIsClosed
<1>2. CASE pc[c] = "start"
  <2>1. ASSUME NEW w \in Workers, WorkerStart(w) PROVE FALSE
    BY <1>2, <2>1, StorageAssumption DEF WorkerStart, transferBuffer,
       BeginSection, BeginStage, BeginWriteAt, WorkerCloseStage, BeginCloseStage
  <2>2. ASSUME NEW w \in Workers, WorkerStep(w) PROVE FALSE
    BY <1>2, <2>2, StorageAssumption DEF WorkerStep, CheckContext, TryReserve,
       Wake, release, newWorkingSection, newCompressionStage, WriteAt,
       RemoveStage, AccountStage
  <2>3. ASSUME NEW d \in Closers, CloserStep(d) PROVE FALSE
    BY <1>2, <2>3 DEF CloserStep, CloseNextStage, BeginCloseStage, RemoveStage,
       AccountStage, RemoveSpill, AccountSpill, Observe
  <2>4. ASSUME NEW d \in Closers, Close(d) PROVE closed'
    BY <2>4 DEF Close
  <2>5. CASE Cancel
    BY <1>2, <2>5 DEF Cancel
  <2>6. CASE UNCHANGED vars
    BY <1>2, <2>6 DEF vars
  <2>7. QED
    BY <2>1, <2>2, <2>3, <2>4, <2>5, <2>6 DEF Next
<1>3. QED
  BY <1>1, <1>2

\* A sleeper whose channel stays open keeps its reason to sleep: memory is
\* freed only by release, which closes the channel it sleeps on.
LEMMA WakeupStep ==
  ASSUME TypeOK, StageInUse, ClosingIsClosed, ChannelsInOrder, NoPanic,
         NoLostWakeup, [Next]_vars
  PROVE  NoLostWakeup'
<1> SUFFICES ASSUME NEW w \in Workers, Waiting(w)', ~closed'
             PROVE  ~Fits(want[w])'
  BY DEF NoLostWakeup
<1>1. pc'[w] = "waiting" /\ channel'[w] > closedChannel' /\ ~closed
  BY ClosedStays DEF Waiting
<1>2. CASE TryReserve(w) /\ ~closed /\ ~Fits(want[w]) /\ UNCHANGED memoryVars
  <2>1. want'[w] = want[w]
    BY <1>1, <1>2 DEF TryReserve, Goto, TypeOK, BufferType, Threads
  <2>2. QED
    BY <1>2, <2>1 DEF Fits, memoryVars
<1>3. CASE pc[w] = "waiting" /\ want'[w] = want[w] /\ channel'[w] = channel[w]
  <2>0. TypeOK'
    BY TypeStep
  <2>1. /\ channel[w] \in Nat /\ changed \in Nat /\ want[w] \in Nat
        /\ closedChannel \in Nat /\ closedChannel' \in Nat
        /\ memoryBytes \in Int /\ memoryBytes' \in Int
    BY <2>0 DEF TypeOK, SignalType, BufferType, MemoryType
  <2>2. ~Fits(want[w])
    BY <1>1, <1>3, <2>1, SignalStep DEF NoLostWakeup, Waiting
  <2>3. CASE memoryBytes' >= memoryBytes
    BY <1>3, <2>1, <2>2, <2>3, StorageAssumption DEF Fits
  <2>4. ASSUME NEW x \in Workers, release(x) PROVE FALSE
    BY <1>1, <1>3, <2>1, <2>4 DEF release, closeChanged, ChannelsInOrder
  <2>5. ASSUME NEW c \in Closers, Observe(c) PROVE FALSE
    BY <1>1, <2>5 DEF Observe, ClosingIsClosed
  <2>6. QED
    BY <2>3, <2>4, <2>5, MemoryFrame
<1>4. QED
  BY <1>1, <1>2, <1>3, WaiterFrame

---------------------------------------------------------------------------
(* Sections *)

\* A new spill section starts where all earlier ones end.
LEMMA SpillStep ==
  ASSUME TypeOK, SpillDisjoint, [Next]_vars
  PROVE  SpillDisjoint'
<1>1. CASE UNCHANGED spillVars
  BY <1>1 DEF SpillDisjoint, spillVars
<1>2. ASSUME NEW c \in Closers, RemoveSpill(c) PROVE SpillDisjoint'
  BY <1>2 DEF RemoveSpill, SpillDisjoint, TypeOK, SpillType
<1>3. ASSUME NEW w \in Workers, newWorkingSection(w) PROVE SpillDisjoint'
  <2> DEFINE size == want[w]
  <2>0. size \in Nat /\ sections \in Seq(Section) /\ spillBytes \in Nat
    BY StorageAssumption DEF TypeOK, BufferType, SpillType
  <2> HIDE DEF size
  <2>1. CASE UNCHANGED <<sections, spillBytes>> /\ file' = "open"
    BY <2>1 DEF SpillDisjoint
  <2>2. CASE /\ sections' = Append(sections, [place |-> "memory", base |-> 0,
                                              size |-> size])
             /\ UNCHANGED <<file, spillBytes>>
    BY <2>0, <2>2 DEF SpillDisjoint, Section
  <2>3. CASE /\ sections' = Append(sections, [place |-> "spill",
                                      base |-> spillBytes, size |-> size])
             /\ spillBytes' = spillBytes + size /\ file' = "open"
    <3> DEFINE new == Len(sections) + 1
    <3>1. /\ DOMAIN sections' = 1..new
          /\ sections'[new] = [place |-> "spill", base |-> spillBytes, size |-> size]
          /\ \A i \in DOMAIN sections : sections'[i] = sections[i]
          /\ DOMAIN sections = 1..Len(sections) /\ Len(sections) \in Nat
      BY <2>0, <2>3
    <3>2. ASSUME NEW i \in DOMAIN sections
          PROVE  sections[i].base \in Nat /\ sections[i].size \in Nat
      <4>1. sections[i] \in Section
        BY <2>0
      <4>2. QED
        BY <4>1 DEF Section
    <3> HIDE DEF new
    <3>3. ASSUME NEW i \in DOMAIN sections, sections'[i].place = "spill"
          PROVE  sections'[i].base + sections'[i].size <= spillBytes
      BY <3>1, <3>3 DEF SpillDisjoint
    <3>4. ASSUME NEW i \in DOMAIN sections', sections'[i].place = "spill"
          PROVE  /\ sections'[i].base + sections'[i].size <= spillBytes'
                 /\ \A j \in DOMAIN sections' :
                      j < i /\ sections'[j].place = "spill" =>
                        sections'[j].base + sections'[j].size <= sections'[i].base
      <4>1. CASE i = new
        BY <2>0, <2>3, <3>1, <3>3, <4>1 DEF new
      <4>2. CASE i \in DOMAIN sections
        BY <2>0, <2>3, <3>1, <3>2, <3>3, <3>4, <4>2 DEF SpillDisjoint, new
      <4>3. QED
        BY <3>1, <4>1, <4>2 DEF new
    <3>5. QED
      BY <2>3, <3>4 DEF SpillDisjoint
  <2>4. QED
    BY <1>1, <1>3, <2>1, <2>2, <2>3 DEF newWorkingSection, Spill, size, spillVars
<1>4. QED
  BY <1>1, <1>2, <1>3, SpillFrame

---------------------------------------------------------------------------
(* The theorems *)

LEMMA InductiveInvariant == Spec => []IInv
<1>1. Init => IInv
  <2> SUFFICES ASSUME Init PROVE IInv
    OBVIOUS
  <2>1. ClosingIsClosed
    BY StorageAssumption DEF Init, ClosingIsClosed, Threads
  <2>2. ChannelsInOrder /\ NoPanic
    BY DEF Init, ChannelsInOrder, NoPanic
  <2>3. NoLostWakeup
    BY DEF Init, NoLostWakeup, Waiting, Threads
  <2>4. SpillDisjoint
    BY DEF Init, SpillDisjoint
  <2>5. QED
    BY <2>1, <2>2, <2>3, <2>4, InitType DEF IInv
<1>2. IInv /\ [Next]_vars => IInv'
  BY TypeStep, ClosingStep, SignalStep, WakeupStep, SpillStep DEF IInv
<1>3. QED
  BY <1>1, <1>2, PTL DEF Spec

\* Every variable of working_storage.go and compression.go keeps its type; the
\* spill extent and the extent of every stage stay in int64.
THEOREM TypeCorrect == Spec => []TypeOK
  BY InductiveInvariant, PTL DEF IInv

\* transferBuffer loses no wakeup, for any number of workers and any sizes.
THEOREM NoWakeupIsLost == Spec => []NoLostWakeup
  BY InductiveInvariant, PTL DEF IInv

\* release and Close never close a closed channel, however they interleave.
THEOREM NoDoubleClose == Spec => []NoPanic
  BY InductiveInvariant, PTL DEF IInv

\* Sections in the shared spill file never overlap.
THEOREM SpillSectionsDisjoint == Spec => []SpillDisjoint
  BY InductiveInvariant, PTL DEF IInv

---------------------------------------------------------------------------
(* The budget, the scratch files and the report *)

\* A buffer is never larger than transferBufferSize, and in-memory sections leave
\* room for one.
WantIsBuffer ==
  \A w \in Workers : pc[w] \in {"loop", "try", "waiting", "holding"} => want[w] <= TransferBufferSize

SectionsLeaveRoom == ~closed => SectionBytes("memory") <= MemoryBytes - TransferBufferSize

Busy(c) == pc[c] \notin {"start", "done"}

\* Only the first Close gets past its first critical section, and nobody is in
\* Close once it has reported.
OneCloser ==
  /\ \A c \in Closers : pc[c] \in {"start", "stages", "remove", "account", "spill", "report", "done"}
  /\ \A w \in Workers : pc[w] \notin {"start", "stages", "spill", "report", "done"}
  /\ \A c, d \in Closers : Busy(c) /\ Busy(d) => c = d
  /\ observed # <<>> => closed /\ Len(observed) = 1 /\ registered = {} /\ \A c \in Closers : ~Busy(c)

\* A stage exists, then is closed by one thread, which removes its file.
Born(st) == stage[st].exists \/ stage[st].closed
Ending   == {"remove", "account"}

StageLife ==
  \A st \in Stages :
    /\ ~Born(st) => stage[st] = NewStage /\ st \notin registered
    /\ Born(st) /\ ~stage[st].closed => st \in registered
    /\ st \in registered /\ stage[st].closed =>
         \E t \in Threads : pc[t] \in Ending /\ use[t] = st

StageUse ==
  \A t \in Threads :
    /\ pc[t] = "stage" => ~Born(use[t]) /\ \A u \in Threads \ {t} : use[u] # use[t]
    /\ use[t] # None /\ pc[t] # "stage" => Born(use[t])
    /\ pc[t] \in {"write", "remove", "account"} => stage[use[t]].lock = t
    /\ pc[t] \in Ending => stage[use[t]].closed /\ use[t] \in registered
    /\ pc[t] = "remove" => stage[use[t]].exists

\* Close ends every stage that it found registered before it reports.
Drained ==
  \A c \in Closers :
    /\ \A st \in todo[c] : Born(st)
    /\ Busy(c) => \A st \in registered : st \in todo[c] \/ (pc[c] \in Ending /\ use[c] = st)
    /\ pc[c] \in {"spill", "report"} => todo[c] = {}

SpillFile ==
  /\ ~closed => file \in {"none", "open"}
  /\ file = "none" => spillBytes = 0
  /\ \A c \in Closers :
       /\ pc[c] \in {"stages", "remove", "account"} => file \in {"none", "open"}
       /\ pc[c] = "spill" => file = "removed"
       /\ pc[c] = "report" => file # "open"

\* What the counters count: files that exist or whose removal is not yet accounted for.
Counted      == StagesOnDisk \cup {st \in Stages : \E t \in Threads : pc[t] = "account" /\ use[t] = st}
SpillCounted == SpillOnDisk \/ \E c \in Closers : pc[c] = "spill"

Counters ==
  /\ temporaryFiles = Cardinality(Counted) + (IF SpillCounted THEN 1 ELSE 0)
  /\ temporaryBytes = SumOver(Extents, Counted) + (IF SpillCounted THEN spillBytes ELSE 0)
  /\ temporaryBytes <= MaxInt64

BInv ==
  /\ WantIsBuffer /\ MemoryAccounting /\ SectionsLeaveRoom
  /\ OneCloser /\ StageLife /\ StageUse /\ Drained
  /\ SpillFile /\ Counters /\ ObservedIsFinal

---------------------------------------------------------------------------
(* Sums over finite sets.  The induction is stated for a set of good subsets *)
(* instead of a predicate.                                                   *)

Some(s) == CHOOSE x \in s : TRUE

\* g sums f over every subset of S.
Sums(g, f, S) ==
  g = [s \in SUBSET S |-> IF s = {} THEN 0 ELSE f[Some(s)] + g[s \ {Some(s)}]]

\* If a set has every finite set whose strict subsets it has, it has them all.
LEMMA SubsetInduction ==
  ASSUME NEW S, IsFiniteSet(S), NEW G,
         \A T \in SUBSET S : (\A U \in SUBSET T : U # T => U \in G) => T \in G
  PROVE  \A T \in SUBSET S : T \in G
<1> DEFINE R == StrictSubsetOrdering(S)
           Missing == {T \in SUBSET S : T \notin G}
<1>1. IsWellFoundedOn(R, SUBSET S)
  BY FS_StrictSubsetOrderingWellFounded, FS_FiniteSubsetsOfFinite
<1>2. SUFFICES ASSUME Missing # {} PROVE FALSE
  OBVIOUS
<1>3. PICK T \in Missing : \A U \in Missing : <<U, T>> \notin R
  <2> HIDE DEF R, Missing
  <2>1. Missing \subseteq SUBSET S
    BY DEF Missing
  <2>2. QED
    BY <1>1, <1>2, <2>1, WFMin
<1>4. ASSUME NEW U \in SUBSET T, U # T PROVE U \in G
  BY <1>3, <1>4 DEF StrictSubsetOrdering
<1>5. QED
  BY <1>3, <1>4

LEMMA SumOverIsSum ==
  ASSUME NEW S, NEW f, NEW h, Sums(h, f, S)
  PROVE  \E g : Sums(g, f, S) /\ SumOver(f, S) = g[S]
BY DEF SumOver, MapThenSumSet, MapThenFoldSet, Sums, Some

\* Two such functions agree where both are defined.
LEMMA SumsAgree ==
  ASSUME NEW S, NEW T, IsFiniteSet(T), NEW f, NEW g, NEW h, Sums(g, f, S), Sums(h, f, T),
         T \subseteq S
  PROVE  g[T] = h[T]
<1> DEFINE G == {U \in SUBSET T : g[U] = h[U]}
<1>1. ASSUME NEW U \in SUBSET T, \A V \in SUBSET U : V # U => V \in G
      PROVE  U \in G
  <2>1. U \in SUBSET S /\ U \in SUBSET T
    OBVIOUS
  <2>2. CASE U = {}
    BY <2>1, <2>2 DEF Sums
  <2>3. CASE U # {}
    <3>1. Some(U) \in U
      BY <2>3 DEF Some
    <3>2. U \ {Some(U)} \in G
      BY <1>1, <3>1
    <3>3. g[U] = f[Some(U)] + g[U \ {Some(U)}] /\ h[U] = f[Some(U)] + h[U \ {Some(U)}]
      BY <2>1, <2>3 DEF Sums
    <3>4. QED
      BY <3>2, <3>3
  <2>4. QED
    BY <2>2, <2>3
<1> HIDE DEF G
<1>2. T \in G
  BY <1>1, SubsetInduction
<1>3. QED
  BY <1>2 DEF G

\* Such a function exists for every finite set.
LEMMA SumsExist ==
  ASSUME NEW S, IsFiniteSet(S), NEW f
  PROVE  \E g : Sums(g, f, S)
<1> DEFINE G == {T \in SUBSET S : \E g : Sums(g, f, T)}
<1>1. ASSUME NEW T \in SUBSET S, \A U \in SUBSET T : U # T => U \in G
      PROVE  T \in G
  <2> DEFINE h == [U \in SUBSET T |-> CHOOSE g : Sums(g, f, U)]
             v == [U \in SUBSET T |-> h[U][U]]
             e == [U \in SUBSET T |-> IF U = {} THEN 0 ELSE f[Some(U)] + v[U \ {Some(U)}]]
  <2>1. ASSUME NEW U \in SUBSET T, U # T PROVE Sums(h[U], f, U)
    BY <1>1, <2>1 DEF G
  <2>2. ASSUME NEW U \in SUBSET T, U # T PROVE e[U] = v[U]
    <3>1. Sums(h[U], f, U) /\ U \in SUBSET U
      BY <2>1, <2>2
    <3>2. h[U][U] = IF U = {} THEN 0 ELSE f[Some(U)] + h[U][U \ {Some(U)}]
      BY <3>1 DEF Sums
    <3>3. CASE U = {}
      BY <3>2, <3>3
    <3>4. CASE U # {}
      <4> DEFINE V == U \ {Some(U)}
      <4>1. Some(U) \in U
        BY <3>4 DEF Some
      <4>2. V \in SUBSET T /\ V \subseteq U /\ V # T
        BY <4>1
      <4>3. IsFiniteSet(V)
        BY <4>2, FS_Subset
      <4>4. Sums(h[V], f, V)
        BY <2>1, <4>2
      <4> HIDE DEF V, h
      <4>5. h[U][V] = h[V][V]
        BY <3>1, <4>2, <4>3, <4>4, SumsAgree
      <4>6. e[U] = f[Some(U)] + v[V]
        BY <3>4 DEF V
      <4>7. QED
        BY <3>2, <3>4, <4>2, <4>5, <4>6 DEF V
    <3>5. QED
      BY <3>3, <3>4
  <2>3. ASSUME NEW U \in SUBSET T, U # {} PROVE U \ {Some(U)} \in SUBSET T /\ U \ {Some(U)} # T
    BY <2>3 DEF Some
  <2> HIDE DEF v, h
  <2>4. e = [U \in SUBSET T |-> IF U = {} THEN 0 ELSE f[Some(U)] + e[U \ {Some(U)}]]
    <3> DEFINE d == [U \in SUBSET T |-> IF U = {} THEN 0 ELSE f[Some(U)] + e[U \ {Some(U)}]]
    <3>1. ASSUME NEW U \in SUBSET T PROVE e[U] = d[U]
      <4>1. CASE U = {}
        BY <4>1
      <4>2. CASE U # {}
        <5>1. e[U \ {Some(U)}] = v[U \ {Some(U)}]
          BY <2>2, <2>3, <4>2
        <5>2. QED
          BY <4>2, <5>1
      <4>3. QED
        BY <4>1, <4>2
    <3>2. QED
      BY <3>1
  <2> HIDE DEF e
  <2>5. QED
    BY <2>4 DEF G, Sums
<1> HIDE DEF G
<1>2. S \in G
  BY <1>1, SubsetInduction
<1>3. QED
  BY <1>2 DEF G

LEMMA SumOverEmpty == \A f : SumOver(f, {}) = 0
<1> TAKE f
<1>1. PICK h : Sums(h, f, {})
  BY SumsExist, FS_EmptySet
<1>2. PICK g : Sums(g, f, {}) /\ SumOver(f, {}) = g[{}]
  BY <1>1, SumOverIsSum
<1>3. QED
  BY <1>2 DEF Sums

\* The recursion of MapThenSumSet, on the element that it chooses.
LEMMA SumOverSome ==
  ASSUME NEW S, IsFiniteSet(S), S # {}, NEW f
  PROVE  /\ Some(S) \in S
         /\ SumOver(f, S) = f[Some(S)] + SumOver(f, S \ {Some(S)})
<1> DEFINE T == S \ {Some(S)}
<1>1. Some(S) \in S
  BY DEF Some
<1>2. T \subseteq S /\ IsFiniteSet(T)
  BY FS_Subset
<1> HIDE DEF T
<1>3. PICK g : Sums(g, f, S) /\ SumOver(f, S) = g[S]
  BY SumsExist, SumOverIsSum
<1>4. PICK h : Sums(h, f, T) /\ SumOver(f, T) = h[T]
  BY <1>2, SumsExist, SumOverIsSum
<1>5. g[T] = h[T]
  BY <1>2, <1>3, <1>4, SumsAgree
<1>6. g[S] = f[Some(S)] + g[T]
  BY <1>3 DEF Sums, T
<1>7. QED
  BY <1>1, <1>3, <1>4, <1>5, <1>6 DEF T

LEMMA SumOverInt ==
  ASSUME NEW S, IsFiniteSet(S), NEW f, \A x \in S : f[x] \in Int
  PROVE  SumOver(f, S) \in Int
<1> DEFINE G == {T \in SUBSET S : SumOver(f, T) \in Int}
<1>1. ASSUME NEW T \in SUBSET S, \A U \in SUBSET T : U # T => U \in G
      PROVE  T \in G
  <2>1. CASE T = {}
    BY <2>1, SumOverEmpty
  <2>2. CASE T # {}
    <3>1. Some(T) \in T /\ SumOver(f, T) = f[Some(T)] + SumOver(f, T \ {Some(T)})
      BY <2>2, FS_Subset, SumOverSome
    <3>2. SumOver(f, T \ {Some(T)}) \in Int /\ f[Some(T)] \in Int
      BY <1>1, <3>1
    <3>3. QED
      BY <3>1, <3>2
  <2>3. QED
    BY <2>1, <2>2
<1> HIDE DEF G
<1>2. S \in G
  BY <1>1, SubsetInduction
<1>3. QED
  BY <1>2 DEF G

\* Any element may be taken out first.
LEMMA SumOverRemove ==
  ASSUME NEW S, IsFiniteSet(S), NEW f, \A x \in S : f[x] \in Int, NEW e \in S
  PROVE  SumOver(f, S) = f[e] + SumOver(f, S \ {e})
<1> DEFINE G == {T \in SUBSET S : \A x \in T : SumOver(f, T) = f[x] + SumOver(f, T \ {x})}
<1>1. ASSUME NEW T \in SUBSET S, \A U \in SUBSET T : U # T => U \in G, NEW x \in T
      PROVE  SumOver(f, T) = f[x] + SumOver(f, T \ {x})
  <2> DEFINE c == Some(T)
             R == T \ {c, x}
  <2>1. c \in T /\ SumOver(f, T) = f[c] + SumOver(f, T \ {c})
    BY FS_Subset, SumOverSome
  <2>2. CASE c = x
    BY <2>1, <2>2
  <2>3. CASE c # x
    <3>1. T \ {c} \in G /\ T \ {x} \in G
      BY <1>1, <2>1
    <3>2. (T \ {c}) \ {x} = R /\ (T \ {x}) \ {c} = R
      OBVIOUS
    <3>3. SumOver(f, T \ {c}) = f[x] + SumOver(f, R)
      BY <2>3, <3>1, <3>2
    <3>4. SumOver(f, T \ {x}) = f[c] + SumOver(f, R)
      BY <2>1, <2>3, <3>1, <3>2
    <3>5. SumOver(f, R) \in Int /\ f[c] \in Int /\ f[x] \in Int
      BY <2>1, FS_Subset, SumOverInt
    <3>6. QED
      BY <2>1, <3>3, <3>4, <3>5
  <2>4. QED
    BY <2>2, <2>3
<1>2. ASSUME NEW T \in SUBSET S, \A U \in SUBSET T : U # T => U \in G PROVE T \in G
  BY <1>1, <1>2
<1> HIDE DEF G
<1>3. S \in G
  BY <1>2, SubsetInduction
<1>4. QED
  BY <1>3 DEF G

LEMMA SumOverAdd ==
  ASSUME NEW S, IsFiniteSet(S), NEW f, NEW e, e \notin S, \A x \in S \cup {e} : f[x] \in Int
  PROVE  SumOver(f, S \cup {e}) = f[e] + SumOver(f, S)
<1>1. IsFiniteSet(S \cup {e}) /\ (S \cup {e}) \ {e} = S
  BY FS_AddElement
<1>2. QED
  BY <1>1, SumOverRemove

\* The sum depends on the values on S only.
LEMMA SumOverSame ==
  ASSUME NEW S, IsFiniteSet(S), NEW f, NEW g, \A x \in S : f[x] = g[x]
  PROVE  SumOver(f, S) = SumOver(g, S)
<1> DEFINE G == {T \in SUBSET S : SumOver(f, T) = SumOver(g, T)}
<1>1. ASSUME NEW T \in SUBSET S, \A U \in SUBSET T : U # T => U \in G
      PROVE  T \in G
  <2>1. CASE T = {}
    BY <2>1, SumOverEmpty
  <2>2. CASE T # {}
    <3>1. /\ Some(T) \in T
          /\ SumOver(f, T) = f[Some(T)] + SumOver(f, T \ {Some(T)})
          /\ SumOver(g, T) = g[Some(T)] + SumOver(g, T \ {Some(T)})
      BY <2>2, FS_Subset, SumOverSome
    <3>2. T \ {Some(T)} \in G /\ f[Some(T)] = g[Some(T)]
      BY <1>1, <3>1
    <3>3. QED
      BY <3>1, <3>2
  <2>3. QED
    BY <2>1, <2>2
<1> HIDE DEF G
<1>2. S \in G
  BY <1>1, SubsetInduction
<1>3. QED
  BY <1>2 DEF G

LEMMA SumOverNat ==
  ASSUME NEW S, IsFiniteSet(S), NEW f, \A x \in S : f[x] \in Nat
  PROVE  SumOver(f, S) \in Nat
<1> DEFINE G == {T \in SUBSET S : SumOver(f, T) \in Nat}
<1>1. ASSUME NEW T \in SUBSET S, \A U \in SUBSET T : U # T => U \in G
      PROVE  T \in G
  <2>1. CASE T = {}
    BY <2>1, SumOverEmpty
  <2>2. CASE T # {}
    <3>1. Some(T) \in T /\ SumOver(f, T) = f[Some(T)] + SumOver(f, T \ {Some(T)})
      BY <2>2, FS_Subset, SumOverSome
    <3>2. SumOver(f, T \ {Some(T)}) \in Nat /\ f[Some(T)] \in Nat
      BY <1>1, <3>1
    <3>3. QED
      BY <3>1, <3>2
  <2>3. QED
    BY <2>1, <2>2
<1> HIDE DEF G
<1>2. S \in G
  BY <1>1, SubsetInduction
<1>3. QED
  BY <1>2 DEF G

\* No element is larger than the sum of natural numbers.
LEMMA SumOverBounds ==
  ASSUME NEW S, IsFiniteSet(S), NEW f, \A x \in S : f[x] \in Nat, NEW e \in S
  PROVE  f[e] <= SumOver(f, S)
<1>1. IsFiniteSet(S \ {e}) /\ \A x \in S : f[x] \in Int
  BY FS_RemoveElement
<1>2. SumOver(f, S) = f[e] + SumOver(f, S \ {e})
  BY <1>1, SumOverRemove
<1>3. SumOver(f, S \ {e}) \in Nat
  BY <1>1, SumOverNat
<1>4. QED
  BY <1>2, <1>3

\* Changing one value changes the sum by the difference.
LEMMA SumOverChange ==
  ASSUME NEW S, IsFiniteSet(S), NEW f, NEW g, NEW e \in S,
         \A x \in S : f[x] \in Int, \A x \in S : g[x] \in Int,
         \A x \in S \ {e} : f[x] = g[x]
  PROVE  SumOver(g, S) = SumOver(f, S) + g[e] - f[e]
<1>1. IsFiniteSet(S \ {e})
  BY FS_RemoveElement
<1>2. SumOver(f, S \ {e}) = SumOver(g, S \ {e})
  BY <1>1, SumOverSame
<1>3. SumOver(f, S \ {e}) \in Int
  BY <1>1, SumOverInt
<1>4. SumOver(f, S) = f[e] + SumOver(f, S \ {e}) /\ SumOver(g, S) = g[e] + SumOver(g, S \ {e})
  BY SumOverRemove
<1>5. QED
  BY <1>2, <1>3, <1>4

---------------------------------------------------------------------------
(* The budget *)

Buffering == {"loop", "try", "waiting", "holding"}

\* A buffer is asked for only at the start of transferBuffer.
LEMMA BufferFrame ==
  ASSUME TypeOK, [Next]_vars, NEW w \in Workers, pc'[w] \in Buffering
  PROVE  \/ pc[w] \in Buffering /\ want'[w] = want[w]
         \/ \E size \in BufferSizes : transferBuffer(w, size)
<1> DEFINE Same == pc[w] \in Buffering /\ want'[w] = want[w]
<1> USE DEF TypeOK, BufferType, Threads, Buffering
<1> USE DEF bufferVars, Goto, Begin
<1>1. ASSUME NEW x \in Workers, NEW size \in BufferSizes, transferBuffer(x, size), x # w
      PROVE  Same
  BY <1>1 DEF transferBuffer
<1>2. ASSUME NEW x \in Workers, BeginWriteAt(x) \/ WorkerCloseStage(x)
              \/ (\E size \in SectionSizes : BeginSection(x, size)) \/ \E st \in Stages : BeginStage(x, st)
      PROVE  Same
  BY <1>2 DEF BeginSection, BeginStage, BeginWriteAt, WorkerCloseStage, BeginCloseStage
<1>3. ASSUME NEW x \in Workers, TryReserve(x) PROVE Same
  BY <1>3 DEF TryReserve
<1>4. ASSUME NEW x \in Workers, WorkerStep(x), ~TryReserve(x)
      PROVE  Same
  BY <1>4 DEF WorkerStep, CheckContext, Wake, release, newWorkingSection,
     newCompressionStage, WriteAt, RemoveStage, AccountStage
<1>5. ASSUME NEW c \in Closers, CloserStep(c) \/ Close(c) PROVE Same
  BY <1>5 DEF CloserStep, CloseNextStage, BeginCloseStage, RemoveStage,
     AccountStage, RemoveSpill, AccountSpill, Observe, Close
<1>6. CASE Cancel
  BY <1>6 DEF Cancel
<1>7. CASE UNCHANGED vars
  BY <1>7 DEF vars
<1>8. QED
  BY <1>1, <1>2, <1>3, <1>4, <1>5, <1>6, <1>7 DEF Next, WorkerStart

LEMMA WantStep ==
  ASSUME TypeOK, WantIsBuffer, [Next]_vars
  PROVE  WantIsBuffer'
<1> SUFFICES ASSUME NEW w \in Workers, pc'[w] \in Buffering
             PROVE  want'[w] <= TransferBufferSize
  BY DEF WantIsBuffer, Buffering
<1>1. CASE pc[w] \in Buffering /\ want'[w] = want[w]
  BY <1>1 DEF WantIsBuffer, Buffering
<1>2. ASSUME NEW size \in BufferSizes, transferBuffer(w, size)
      PROVE  want'[w] <= TransferBufferSize
  <2>1. want'[w] = IF size < TransferBufferSize THEN size ELSE TransferBufferSize
    BY <1>2 DEF transferBuffer, TypeOK, BufferType
  <2>2. QED
    BY <2>1, StorageAssumption
<1>3. QED
  BY <1>1, <1>2, BufferFrame

\* Who holds a buffer changes only by release and the critical section of transferBuffer.
LEMMA HoldersFrame ==
  ASSUME TypeOK, [Next]_vars
  PROVE  \/ Holders' = Holders /\ \A w \in Holders : want'[w] = want[w]
         \/ \E w \in Workers : release(w) \/ TryReserve(w)
<1> DEFINE Same == \A w \in Workers : /\ pc'[w] = "holding" <=> pc[w] = "holding"
                                      /\ pc[w] = "holding" => want'[w] = want[w]
<1> USE DEF TypeOK, BufferType, Threads
<1> USE DEF bufferVars, Goto, Begin
<1>0. Same => Holders' = Holders /\ \A w \in Holders : want'[w] = want[w]
  BY DEF Holders
<1>1. ASSUME NEW x \in Workers, WorkerStart(x) PROVE Same
  BY <1>1 DEF WorkerStart, transferBuffer, BeginSection, BeginStage, BeginWriteAt,
     WorkerCloseStage, BeginCloseStage
<1>2. ASSUME NEW x \in Workers, WorkerStep(x), ~TryReserve(x), ~release(x) PROVE Same
  BY <1>2 DEF WorkerStep, CheckContext, Wake, newWorkingSection,
     newCompressionStage, WriteAt, RemoveStage, AccountStage
<1>3. ASSUME NEW c \in Closers, CloserStep(c) \/ Close(c) PROVE Same
  BY <1>3, StorageAssumption DEF CloserStep, CloseNextStage, BeginCloseStage, RemoveStage,
     AccountStage, RemoveSpill, AccountSpill, Observe, Close
<1>4. CASE Cancel \/ UNCHANGED vars
  <2>1. UNCHANGED <<pc, want>>
    BY <1>4 DEF Cancel, vars
  <2>2. QED
    BY <1>0, <2>1
<1>6. QED
  BY <1>0, <1>1, <1>2, <1>3, <1>4 DEF Next

\* The counters of memory change only where memory is reserved, released or reported.
LEMMA BudgetFrame ==
  ASSUME [Next]_vars
  PROVE  \/ UNCHANGED memoryVars
         \/ \E w \in Workers : release(w) \/ TryReserve(w) \/ newWorkingSection(w)
         \/ \E c \in Closers : Observe(c)
<1>1. ASSUME NEW w \in Workers, WorkerStep(w)
      PROVE  UNCHANGED memoryVars \/ release(w) \/ TryReserve(w) \/ newWorkingSection(w)
  BY <1>1 DEF WorkerStep, CheckContext, Wake, newCompressionStage, WriteAt, RemoveStage, AccountStage
<1>2. ASSUME NEW w \in Workers, WorkerStart(w) PROVE UNCHANGED memoryVars
  BY <1>2 DEF WorkerStart, transferBuffer, BeginSection, BeginStage, BeginWriteAt, WorkerCloseStage
<1>3. ASSUME NEW c \in Closers, CloserStep(c) \/ Close(c) PROVE UNCHANGED memoryVars \/ Observe(c)
  BY <1>3 DEF CloserStep, CloseNextStage, RemoveStage, AccountStage, RemoveSpill, AccountSpill, Close
<1>4. CASE Cancel
  BY <1>4 DEF Cancel
<1>5. CASE UNCHANGED vars
  BY <1>5 DEF vars
<1>6. QED
  BY <1>1, <1>2, <1>3, <1>4, <1>5 DEF Next

LEMMA HeldIsNat ==
  ASSUME TypeOK
  PROVE  IsFiniteSet(Holders) /\ Holders \subseteq Workers /\ SumOver(want, Holders) \in Nat
<1>1. IsFiniteSet(Holders) /\ Holders \subseteq Workers
  BY StorageAssumption, FS_Subset DEF Holders
<1>2. \A w \in Holders : want[w] \in Nat
  BY <1>1 DEF TypeOK, BufferType
<1>3. QED
  BY <1>1, <1>2, SumOverNat

LEMMA SectionsAreNat ==
  ASSUME TypeOK
  PROVE  SectionBytes("memory") \in Nat
<1> DEFINE f == [i \in DOMAIN sections |-> sections[i].size]
           I == {i \in DOMAIN sections : sections[i].place = "memory"}
<1>1. sections \in Seq(Section)
  BY DEF TypeOK, SpillType
<1>2. Len(sections) \in Nat /\ DOMAIN sections = 1..Len(sections)
  BY <1>1
<1>3. IsFiniteSet(1..Len(sections)) /\ I \subseteq 1..Len(sections)
  BY <1>2, FS_Interval
<1>4. IsFiniteSet(I)
  BY <1>3, FS_Subset
<1>5. \A i \in I : f[i] \in Nat
  <2> SUFFICES ASSUME NEW i \in I PROVE sections[i].size \in Nat
    OBVIOUS
  <2>1. sections[i] \in Section
    BY <1>1, <1>2
  <2>2. QED
    BY <2>1 DEF Section
<1>6. SumOver(f, I) \in Nat
  BY <1>4, <1>5, SumOverNat
<1>7. QED
  BY <1>6 DEF SectionBytes

LEMMA SectionAdded ==
  ASSUME TypeOK, NEW new \in Section, sections' = Append(sections, new)
  PROVE  SectionBytes("memory")' = SectionBytes("memory") + IF new.place = "memory" THEN new.size ELSE 0
<1> DEFINE n == Len(sections) + 1
           f == [i \in DOMAIN sections |-> sections[i].size]
           g == [i \in DOMAIN sections' |-> sections'[i].size]
           I == {i \in DOMAIN sections : sections[i].place = "memory"}
           J == {i \in DOMAIN sections' : sections'[i].place = "memory"}
<1>1. sections \in Seq(Section) /\ sections' \in Seq(Section)
  BY DEF TypeOK, SpillType
<1>2. /\ Len(sections) \in Nat /\ DOMAIN sections = 1..Len(sections) /\ DOMAIN sections' = 1..n
      /\ sections'[n] = new /\ \A i \in 1..Len(sections) : sections'[i] = sections[i]
  BY <1>1
<1>3. IsFiniteSet(1..Len(sections)) /\ I \subseteq 1..Len(sections) /\ n \notin I
  BY <1>2, FS_Interval
<1>4. IsFiniteSet(I)
  BY <1>3, FS_Subset
<1>5. /\ \A i \in I : f[i] = g[i] /\ g[i] \in Nat
      /\ g[n] = new.size /\ g[n] \in Nat
  <2>1. new.size \in Nat /\ n \in 1..n
    BY <1>2 DEF Section
  <2>2. ASSUME NEW i \in I PROVE f[i] = g[i] /\ f[i] \in Nat
    <3>1. sections[i] \in Section /\ i \in 1..Len(sections) /\ i \in 1..n
      BY <1>1, <1>2
    <3>2. sections[i].size \in Nat
      BY <3>1 DEF Section
    <3>3. QED
      BY <1>2, <3>1, <3>2
  <2>3. g[n] = new.size
    BY <1>2, <2>1
  <2> HIDE DEF f, g, I, n
  <2>4. QED
    BY <2>1, <2>2, <2>3
<1>6. J = IF new.place = "memory" THEN I \cup {n} ELSE I
  BY <1>2
<1>7. SumOver(f, I) = SectionBytes("memory") /\ SumOver(g, J) = SectionBytes("memory")'
  BY DEF SectionBytes
<1> HIDE DEF f, g, I, J, n
<1>8. SumOver(f, I) = SumOver(g, I) /\ SumOver(g, I) \in Nat
  BY <1>4, <1>5, SumOverSame, SumOverNat
<1>9. SumOver(g, I \cup {n}) = g[n] + SumOver(g, I)
  <2>1. \A i \in I \cup {n} : g[i] \in Int
    BY <1>5
  <2>2. QED
    BY <1>3, <1>4, <2>1, SumOverAdd
<1>10. QED
  BY <1>5, <1>6, <1>7, <1>8, <1>9

LEMMA MemoryStep ==
  ASSUME TypeOK, ClosingIsClosed, MemoryAccounting, [Next]_vars
  PROVE  MemoryAccounting'
<1> DEFINE Held == SumOver(want, Holders)
           Kept == SectionBytes("memory")
<1>0. /\ memoryBytes \in Int /\ peakMemoryBytes \in Int /\ \A w \in Workers : want[w] \in Nat
      /\ MemoryBytes \in Nat /\ TransferBufferSize \in Nat
  BY StorageAssumption DEF TypeOK, MemoryType, BufferType
<1>1. Kept \in Nat /\ Held \in Nat
  BY HeldIsNat, SectionsAreNat
<1>2. /\ ~closed => memoryBytes = Kept + Held
      /\ memoryBytes >= 0 /\ memoryBytes <= peakMemoryBytes /\ peakMemoryBytes <= MemoryBytes
  BY DEF MemoryAccounting
<1>3. UNCHANGED sections \/ \E w \in Workers : newWorkingSection(w)
  BY SpillFrame DEF spillVars, RemoveSpill
<1>4. UNCHANGED sections => Kept' = Kept
  BY DEF SectionBytes
<1>5. Holders' = Holders /\ (\A w \in Holders : want'[w] = want[w]) => Held' = Held
  BY HeldIsNat, SumOverSame
<1>6. ASSUME NEW w \in Workers, release(w) PROVE MemoryAccounting'
  <2>1. UNCHANGED <<sections, closed>> /\ w \in Holders
    BY <1>6 DEF release, closeVars, spillVars, Holders
  <2>2. CASE closed
    BY <1>2, <1>6, <2>1, <2>2 DEF release, memoryVars, MemoryAccounting
  <2>3. CASE ~closed
    <3>1. memoryBytes' = memoryBytes - want[w] /\ peakMemoryBytes' = peakMemoryBytes
      BY <1>6, <2>3 DEF release
    <3>2. Holders' = Holders \ {w} /\ \A x \in Holders \ {w} : want'[x] = want[x]
      BY <1>6 DEF release, Holders, Goto, TypeOK, BufferType, Threads
    <3>3. Held = want[w] + SumOver(want, Holders \ {w})
      <4>1. \A x \in Holders : want[x] \in Int
        BY <1>0, HeldIsNat
      <4>2. QED
        BY <2>1, <4>1, HeldIsNat, SumOverRemove
    <3>4. Held' = SumOver(want, Holders \ {w}) /\ SumOver(want, Holders \ {w}) \in Nat
      <4>1. IsFiniteSet(Holders \ {w}) /\ \A x \in Holders \ {w} : want[x] \in Nat
        BY <1>0, HeldIsNat, FS_RemoveElement
      <4>2. SumOver(want, Holders \ {w}) = SumOver(want', Holders \ {w})
        BY <3>2, <4>1, SumOverSame
      <4>3. QED
        BY <3>2, <4>1, <4>2, SumOverNat
    <3>5. Kept' = Kept
      BY <1>4, <2>1
    <3> HIDE DEF Held, Kept
    <3>6. memoryBytes' = Kept' + Held' /\ memoryBytes' >= 0 /\ memoryBytes' <= peakMemoryBytes'
      BY <1>0, <1>1, <1>2, <2>3, <3>1, <3>3, <3>4, <3>5
    <3>7. QED
      BY <1>2, <3>1, <3>6 DEF MemoryAccounting, Held, Kept
  <2>4. QED
    BY <2>2, <2>3
<1>7. ASSUME NEW w \in Workers, TryReserve(w) PROVE MemoryAccounting'
  <2>1. UNCHANGED <<sections, closed>> /\ pc[w] = "try"
    BY <1>7 DEF TryReserve, closeVars, spillVars
  <2>2. Kept' = Kept
    BY <1>4, <2>1
  <2>3. CASE UNCHANGED memoryVars /\ pc'[w] # "holding"
    <3>1. Holders' = Holders /\ \A x \in Holders : want'[x] = want[x]
      BY <1>7, <2>1, <2>3 DEF TryReserve, Holders, Goto, TypeOK, BufferType, Threads
    <3>2. Held' = Held
      BY <1>5, <3>1
    <3>3. QED
      BY <1>2, <2>1, <2>2, <2>3, <3>2 DEF MemoryAccounting, memoryVars
  <2>4. CASE ~closed /\ Fits(want[w]) /\ reserve(want[w]) /\ Goto(w, "holding") /\ UNCHANGED want
    <3>1. Holders' = Holders \cup {w} /\ w \notin Holders
      BY <2>1, <2>4 DEF Holders, Goto, TypeOK, Threads
    <3>2. SumOver(want, Holders \cup {w}) = want[w] + Held
      <4>1. \A x \in Holders \cup {w} : want[x] \in Int
        BY <1>0, HeldIsNat
      <4>2. QED
        BY <3>1, <4>1, HeldIsNat, SumOverAdd
    <3>3. Held' = want[w] + Held
      BY <2>4, <3>1, <3>2
    <3>4. /\ memoryBytes' = memoryBytes + want[w] /\ want[w] <= MemoryBytes - memoryBytes
          /\ peakMemoryBytes' = IF memoryBytes + want[w] > peakMemoryBytes
                                THEN memoryBytes + want[w] ELSE peakMemoryBytes
      BY <2>4 DEF Fits, reserve
    <3> HIDE DEF Held, Kept
    <3>5. memoryBytes' = Kept' + Held'
      BY <1>0, <1>1, <1>2, <2>2, <2>4, <3>3, <3>4
    <3>6. memoryBytes' >= 0 /\ memoryBytes' <= peakMemoryBytes' /\ peakMemoryBytes' <= MemoryBytes
      BY <1>0, <1>2, <3>4
    <3>7. QED
      BY <2>1, <3>5, <3>6 DEF MemoryAccounting, Held, Kept
  <2>5. QED
    BY <1>7, <2>3, <2>4 DEF TryReserve, Goto, TypeOK, Threads
<1>8. ASSUME NEW w \in Workers, newWorkingSection(w) PROVE MemoryAccounting'
  <2>1. UNCHANGED closed /\ pc[w] = "section"
    BY <1>8 DEF newWorkingSection, closeVars
  <2>2. Held' = Held
    <3>1. Holders' = Holders /\ \A x \in Holders : want'[x] = want[x]
      BY <1>8, <2>1 DEF newWorkingSection, Holders, Goto, TypeOK, BufferType, Threads
    <3>2. QED
      BY <1>5, <3>1
  <2>3. CASE UNCHANGED <<memoryVars, sections>>
    BY <1>2, <1>4, <2>1, <2>2, <2>3 DEF MemoryAccounting, memoryVars
  <2>4. CASE /\ UNCHANGED memoryVars
             /\ sections' = Append(sections, [place |-> "spill", base |-> spillBytes, size |-> want[w]])
    <3>1. [place |-> "spill", base |-> spillBytes, size |-> want[w]] \in Section
      BY <1>0, StorageAssumption DEF Section, TypeOK, SpillType
    <3>2. Kept' = Kept
      BY <1>1, <2>4, <3>1, SectionAdded
    <3>3. QED
      BY <1>2, <2>1, <2>2, <2>4, <3>2 DEF MemoryAccounting, memoryVars
  <2>5. CASE /\ ~closed /\ FitsMemory(want[w]) /\ reserve(want[w])
             /\ sections' = Append(sections, [place |-> "memory", base |-> 0, size |-> want[w]])
    <3>1. [place |-> "memory", base |-> 0, size |-> want[w]] \in Section
      BY <1>0 DEF Section
    <3>2. Kept' = Kept + want[w]
      BY <2>5, <3>1, SectionAdded
    <3>3. /\ memoryBytes' = memoryBytes + want[w]
          /\ want[w] <= MemoryBytes - memoryBytes - TransferBufferSize
          /\ peakMemoryBytes' = IF memoryBytes + want[w] > peakMemoryBytes
                                THEN memoryBytes + want[w] ELSE peakMemoryBytes
      BY <2>5 DEF FitsMemory, reserve
    <3> HIDE DEF Held, Kept
    <3>4. /\ ~closed => memoryBytes' = Kept' + Held'
          /\ memoryBytes' >= 0 /\ memoryBytes' <= peakMemoryBytes' /\ peakMemoryBytes' <= MemoryBytes
      BY <1>0, <1>1, <1>2, <2>2, <3>2, <3>3
    <3>5. QED
      BY <2>1, <3>4 DEF MemoryAccounting, Held, Kept
  <2>6. QED
    BY <1>8, <2>3, <2>4, <2>5 DEF newWorkingSection, Spill, spillVars
<1>9. ASSUME NEW c \in Closers, Observe(c) PROVE MemoryAccounting'
  <2>1. closed /\ UNCHANGED closed
    BY <1>9 DEF Observe, ClosingIsClosed
  <2>2. memoryBytes' = 0 /\ UNCHANGED peakMemoryBytes
    BY <1>9 DEF Observe
  <2>3. QED
    BY <1>0, <1>2, <2>1, <2>2 DEF MemoryAccounting
<1>10. CASE /\ UNCHANGED memoryVars /\ UNCHANGED sections
            /\ Holders' = Holders /\ \A w \in Holders : want'[w] = want[w]
  <2>1. closed => closed'
    BY ClosedStays
  <2>2. Held' = Held /\ Kept' = Kept
    BY <1>4, <1>5, <1>10
  <2>3. QED
    BY <1>2, <1>10, <2>1, <2>2 DEF MemoryAccounting, memoryVars
<1>11. QED
  BY <1>3, <1>6, <1>7, <1>8, <1>9, <1>10, BudgetFrame, HoldersFrame

LEMMA RoomStep ==
  ASSUME TypeOK, MemoryAccounting, SectionsLeaveRoom, [Next]_vars
  PROVE  SectionsLeaveRoom'
<1>0. /\ memoryBytes \in Int /\ \A w \in Workers : want[w] \in Nat
      /\ MemoryBytes \in Nat /\ TransferBufferSize \in Nat
  BY StorageAssumption DEF TypeOK, MemoryType, BufferType
<1>1. SectionBytes("memory") \in Nat /\ SumOver(want, Holders) \in Nat
  BY HeldIsNat, SectionsAreNat
<1>2. CASE UNCHANGED sections
  <2>1. SectionBytes("memory")' = SectionBytes("memory")
    BY <1>2 DEF SectionBytes
  <2>2. QED
    BY <2>1, ClosedStays DEF SectionsLeaveRoom
<1>3. ASSUME NEW w \in Workers, newWorkingSection(w) PROVE SectionsLeaveRoom'
  <2>1. CASE sections' = Append(sections, [place |-> "spill", base |-> spillBytes, size |-> want[w]])
    <3>1. [place |-> "spill", base |-> spillBytes, size |-> want[w]] \in Section
      BY <1>0, StorageAssumption DEF Section, TypeOK, SpillType
    <3>2. SectionBytes("memory")' = SectionBytes("memory")
      BY <1>1, <2>1, <3>1, SectionAdded
    <3>3. QED
      BY <3>2, ClosedStays DEF SectionsLeaveRoom
  <2>2. CASE /\ ~closed /\ FitsMemory(want[w])
             /\ sections' = Append(sections, [place |-> "memory", base |-> 0, size |-> want[w]])
    <3>1. [place |-> "memory", base |-> 0, size |-> want[w]] \in Section
      BY <1>0 DEF Section
    <3>2. SectionBytes("memory")' = SectionBytes("memory") + want[w]
      BY <2>2, <3>1, SectionAdded
    <3>3. memoryBytes = SectionBytes("memory") + SumOver(want, Holders)
      BY <2>2 DEF MemoryAccounting
    <3>4. want[w] <= MemoryBytes - memoryBytes - TransferBufferSize
      BY <2>2 DEF FitsMemory
    <3>5. SectionBytes("memory")' <= MemoryBytes - TransferBufferSize
      BY <1>0, <1>1, <3>2, <3>3, <3>4
    <3>6. QED
      BY <3>5 DEF SectionsLeaveRoom
  <2>3. QED
    BY <1>2, <1>3, <2>1, <2>2 DEF newWorkingSection, Spill, spillVars
<1>4. QED
  BY <1>2, <1>3, SpillFrame DEF spillVars, RemoveSpill

\* Sections leave room for one buffer, so a sleeper waits for someone's buffer.
LEMMA SleeperAwaitsHolder ==
  ASSUME TypeOK, NoLostWakeup, WantIsBuffer, MemoryAccounting, SectionsLeaveRoom
  PROVE  WaitersAwaitAHolder
<1> SUFFICES ASSUME NEW w \in Workers, Waiting(w), ~closed, Holders = {} PROVE FALSE
  BY DEF WaitersAwaitAHolder
<1>1. memoryBytes = SectionBytes("memory") + 0
  BY SumOverEmpty DEF MemoryAccounting
<1>2. SectionBytes("memory") <= MemoryBytes - TransferBufferSize /\ want[w] <= TransferBufferSize
  BY DEF SectionsLeaveRoom, WantIsBuffer, Waiting
<1>3. want[w] > MemoryBytes - memoryBytes
  BY StorageAssumption DEF NoLostWakeup, Fits, TypeOK, MemoryType, BufferType
<1>4. QED
  BY <1>1, <1>2, <1>3, SectionsAreNat, StorageAssumption DEF TypeOK, BufferType

---------------------------------------------------------------------------
(* Stages *)

StageLabels == {"stage", "write", "remove", "account"}

\* A step outside the code of stages.
StageQuiet ==
  /\ UNCHANGED <<stageVars, use>>
  /\ \A t \in Threads : pc'[t] = pc[t] \/ {pc[t], pc'[t]} \cap StageLabels = {}

StageAction ==
  \/ \E w \in Workers : \/ \E st \in Stages : BeginStage(w, st)
                        \/ newCompressionStage(w) \/ BeginWriteAt(w) \/ WorkerCloseStage(w)
                        \/ \E end \in WriteEnds : \E reached \in 0..end : WriteAt(w, end, reached)
  \/ \E t \in Threads : RemoveStage(t) \/ AccountStage(t, "idle") \/ AccountStage(t, "stages")
  \/ \E c \in Closers : CloseNextStage(c)

LEMMA StageFrame ==
  ASSUME TypeOK, [Next]_vars
  PROVE  StageQuiet \/ StageAction
<1> USE DEF TypeOK, Threads, StageLabels, Goto, Begin
<1>1. ASSUME NEW w \in Workers, \/ \E size \in BufferSizes : transferBuffer(w, size)
                                \/ \E size \in SectionSizes : BeginSection(w, size)
      PROVE  StageQuiet
  BY <1>1 DEF transferBuffer, BeginSection, StageQuiet
<1>2. ASSUME NEW w \in Workers, CheckContext(w) \/ Wake(w) \/ release(w)
      PROVE  StageQuiet
  BY <1>2 DEF CheckContext, Wake, release, StageQuiet
<1>3. ASSUME NEW w \in Workers, TryReserve(w) \/ newWorkingSection(w)
      PROVE  StageQuiet
  BY <1>3 DEF TryReserve, newWorkingSection, StageQuiet
<1>4. ASSUME NEW c \in Closers, Close(c) \/ RemoveSpill(c) \/ AccountSpill(c) \/ Observe(c)
      PROVE  StageQuiet
  BY <1>4 DEF Close, RemoveSpill, AccountSpill, Observe, StageQuiet
<1>5. CASE Cancel \/ UNCHANGED vars
  BY <1>5 DEF Cancel, vars, StageQuiet
<1>6. QED
  BY <1>1, <1>2, <1>3, <1>4, <1>5 DEF Next, WorkerStep, WorkerStart, CloserStep, StageAction

StageInv ==
  /\ TypeOK /\ StageInUse /\ StageLife /\ StageUse
  /\ \A c \in Closers : \A st \in todo[c] : Born(st)

LEMMA StageQuietStep ==
  ASSUME StageInv, TypeOK', StageQuiet
  PROVE  StageLife' /\ StageUse'
<1> USE DEF StageInv, StageQuiet, StageLabels, Born, stageVars
<1>1. StageUse'
  BY DEF StageUse, Ending
<1>2. StageLife'
  BY DEF StageLife, Ending
<1>3. QED
  BY <1>1, <1>2

LEMMA StageBegun ==
  ASSUME StageInv, NEW w \in Workers, NEW st \in Stages, BeginStage(w, st)
  PROVE  StageLife' /\ StageUse'
<1> USE DEF StageInv, TypeOK, Threads, Begin, Goto, Born, stageVars
<1>1. /\ UNCHANGED <<stage, registered>> /\ pc[w] = "idle" /\ pc'[w] \in {"idle", "stage"}
      /\ \A t \in Threads \ {w} : pc'[t] = pc[t] /\ use'[t] = use[t]
  BY DEF BeginStage
<1>2. StageLife'
  BY <1>1 DEF StageLife, Ending
<1>3. CASE canceled
  <2>1. UNCHANGED <<use, pc>>
    BY <1>1, <1>3 DEF BeginStage
  <2>2. QED
    BY <1>1, <1>2, <2>1 DEF StageUse, Ending
<1>4. CASE ~canceled
  <2>1. /\ use'[w] = st /\ pc'[w] = "stage"
        /\ stage[st] = NewStage /\ \A t \in Threads : use[t] # st
    BY <1>4 DEF BeginStage
  <2>2. ~Born(st)
    BY <2>1 DEF NewStage
  <2>3. StageUse'
    BY <1>1, <2>1, <2>2 DEF StageUse, Ending
  <2>4. QED
    BY <1>2, <2>3
<1>5. QED
  BY <1>3, <1>4

LEMMA StageCreated ==
  ASSUME StageInv, NEW w \in Workers, newCompressionStage(w)
  PROVE  StageLife' /\ StageUse'
<1> DEFINE st == use[w]
<1> USE DEF StageInv, TypeOK, Threads, Goto, Born, Ending
<1>1. pc[w] = "stage" /\ pc' = [pc EXCEPT ![w] = "idle"] /\ w \in Threads
  BY DEF newCompressionStage
<1>2. st \in Stages /\ ~Born(st) /\ \A u \in Threads \ {w} : use[u] # st
  BY <1>1 DEF StageUse, StageInUse
<1>3. CASE use' = [use EXCEPT ![w] = None] /\ UNCHANGED stageVars
  <2>1. UNCHANGED <<stage, registered>>
    BY <1>3 DEF stageVars
  <2>2. StageLife'
    BY <1>1, <2>1, <1>3 DEF StageLife
  <2>3. StageUse'
    BY <1>1, <2>1, <1>3, StorageAssumption DEF StageUse, StageInUse
  <2>4. QED
    BY <2>2, <2>3
<1>4. CASE /\ registered' = registered \cup {st} /\ UNCHANGED use
           /\ stage' = [stage EXCEPT ![st].exists = TRUE]
  <2>1. /\ \A s \in Stages \ {st} : stage'[s] = stage[s]
        /\ stage'[st].exists /\ stage'[st].closed = stage[st].closed /\ stage'[st].lock = stage[st].lock
    BY <1>2, <1>4 DEF StageType
  <2>2. StageLife'
    BY <1>1, <1>2, <1>4, <2>1 DEF StageLife
  <2>3. StageUse'
    BY <1>1, <1>2, <1>4, <2>1 DEF StageUse, StageInUse
  <2>4. QED
    BY <2>2, <2>3
<1>5. QED
  BY <1>3, <1>4 DEF newCompressionStage

\* The writes and the locking touch the lock of the stage in use, and only its holder does.
LEMMA StageLocked ==
  ASSUME StageInv, NEW w \in Workers, BeginWriteAt(w)
  PROVE  StageLife' /\ StageUse'
<1> DEFINE st == use[w]
<1> USE DEF StageInv, TypeOK, Threads, Goto, Begin, Born, Ending
<1>1. /\ pc[w] = "idle" /\ pc'[w] = "write" /\ st \in Stages /\ UNCHANGED <<use, registered>>
      /\ \A t \in Threads \ {w} : pc'[t] = pc[t]
      /\ stage[st].lock = None /\ stage' = [stage EXCEPT ![st].lock = w]
  BY DEF BeginWriteAt, LockStage
<1>2. /\ \A s \in Stages \ {st} : stage'[s] = stage[s]
      /\ stage'[st].exists = stage[st].exists /\ stage'[st].closed = stage[st].closed
      /\ stage'[st].lock = w
  BY <1>1 DEF StageType
<1>3. Born(st)
  BY <1>1, StorageAssumption DEF StageUse
<1>4. StageLife'
  BY <1>1, <1>2, <1>3 DEF StageLife
<1>5. \A t \in Threads \ {w} : pc[t] \in {"write", "remove", "account"} => use[t] # st
  BY <1>1, StorageAssumption DEF StageUse
<1>6. StageUse'
  BY <1>1, <1>2, <1>3, <1>5, StorageAssumption DEF StageUse, StageInUse
<1>7. QED
  BY <1>4, <1>6

LEMMA StageWritten ==
  ASSUME StageInv, TypeOK', NEW w \in Workers, NEW end \in WriteEnds, NEW reached \in 0..end,
         WriteAt(w, end, reached)
  PROVE  StageLife' /\ StageUse'
<1> DEFINE st == use[w]
<1> USE DEF StageInv, TypeOK, Threads, Goto, Born, Ending
<1>1. /\ pc[w] = "write" /\ pc'[w] = "idle" /\ UNCHANGED <<use, registered>>
      /\ \A t \in Threads \ {w} : pc'[t] = pc[t]
  BY DEF WriteAt
<1>2. st \in Stages /\ Born(st) /\ stage[st].lock = w
  BY <1>1, StorageAssumption DEF StageInUse, StageUse
<1>3. \E n \in Int : stage' = [stage EXCEPT ![st].lock = None, ![st].extent = n]
                     \/ stage' = [stage EXCEPT ![st].lock = None]
  <2> DEFINE n == stage[st].extent + (IF reached > stage[st].extent THEN reached - stage[st].extent ELSE 0)
  <2>1. stage[st].extent \in Int /\ reached \in Int
    BY <1>2, StorageAssumption DEF StageType
  <2>2. n \in Int
    BY <2>1
  <2>3. \/ stage' = [stage EXCEPT ![st].lock = None, ![st].extent = n]
        \/ stage' = [stage EXCEPT ![st].lock = None]
    BY DEF WriteAt
  <2> HIDE DEF n
  <2>4. QED
    BY <2>2, <2>3
<1>4. /\ \A s \in Stages \ {st} : stage'[s] = stage[s]
      /\ stage'[st].exists = stage[st].exists /\ stage'[st].closed = stage[st].closed
  BY <1>2, <1>3 DEF StageType
<1>5. StageLife'
  BY <1>1, <1>2, <1>4 DEF StageLife
<1>6. \A t \in Threads \ {w} : pc[t] \in {"write", "remove", "account"} => use[t] # st
  BY <1>2 DEF StageUse
<1>7. StageUse'
  BY <1>1, <1>2, <1>4, <1>6 DEF StageUse, StageInUse
<1>8. QED
  BY <1>5, <1>7

LEMMA StageRemoved ==
  ASSUME StageInv, NEW t \in Threads, RemoveStage(t)
  PROVE  StageLife' /\ StageUse'
<1> DEFINE st == use[t]
<1> USE DEF StageInv, TypeOK, Goto, Born, Ending
<1>1. /\ pc[t] = "remove" /\ pc'[t] = "account" /\ UNCHANGED <<use, registered>>
      /\ \A u \in Threads \ {t} : pc'[u] = pc[u]
  BY DEF RemoveStage
<1>0. stage' = [stage EXCEPT ![st].exists = FALSE] \/ UNCHANGED stage
  BY DEF RemoveStage
<1>2. st \in Stages /\ stage[st].closed /\ stage[st].lock = t /\ st \in registered
  BY <1>1 DEF StageInUse, StageUse
<1>3. /\ \A s \in Stages \ {st} : stage'[s] = stage[s]
      /\ stage'[st].lock = stage[st].lock /\ stage'[st].closed = stage[st].closed
  <2>1. CASE UNCHANGED stage
    BY <2>1
  <2>2. CASE stage' = [stage EXCEPT ![st].exists = FALSE]
    BY <1>2, <2>2 DEF StageType
  <2>3. QED
    BY <1>0, <2>1, <2>2
<1>4. StageLife'
  <2>1. \A u \in Threads : pc[u] \in Ending => pc'[u] \in Ending /\ use'[u] = use[u]
    BY <1>1
  <2>2. ASSUME NEW s \in Stages, s # st
        PROVE  /\ ~Born(s)' => stage'[s] = NewStage /\ s \notin registered'
               /\ Born(s)' /\ ~stage'[s].closed => s \in registered'
    BY <1>1, <1>3, <2>2 DEF StageLife
  <2>3. ASSUME NEW s \in Stages, s \in registered', stage'[s].closed
        PROVE  \E u \in Threads : pc'[u] \in Ending /\ use'[u] = s
    <3>1. stage[s].closed /\ s \in registered
      BY <1>1, <1>2, <1>3, <2>3
    <3>2. PICK u \in Threads : pc[u] \in Ending /\ use[u] = s
      BY <3>1 DEF StageLife
    <3>3. QED
      BY <2>1, <3>2
  <2>4. stage'[st].closed
    BY <1>2, <1>3
  <2>5. QED
    BY <2>2, <2>3, <2>4 DEF StageLife
<1>5. \A u \in Threads \ {t} : pc[u] \in {"write", "remove", "account"} => use[u] # st
  BY <1>2 DEF StageUse
<1>6. StageUse'
  <2>1. ASSUME NEW u \in Threads, u # t
        PROVE  /\ pc'[u] = pc[u] /\ use'[u] = use[u] /\ (use[u] # None => Born(use[u])' = Born(use[u]))
               /\ pc[u] \in {"write", "remove", "account"} => stage'[use[u]] = stage[use[u]]
    <3>1. pc[u] \in {"write", "remove", "account"} => use[u] \in Stages \ {st}
      BY <1>5, <2>1 DEF StageInUse
    <3>2. QED
      BY <1>1, <1>2, <1>3, <2>1, <3>1
  <2>2. pc'[t] = "account" /\ use'[t] = st /\ st \in registered' /\ stage'[st].closed /\ stage'[st].lock = t
    BY <1>1, <1>2, <1>3
  <2>3. ASSUME NEW u \in Threads
        PROVE  pc'[u] = "stage" => ~Born(use[u])' /\ \A v \in Threads \ {u} : use'[v] # use'[u]
    <3>1. ASSUME pc'[u] = "stage" PROVE u # t /\ pc[u] = "stage" /\ use[u] # None /\ ~Born(use[u])
      BY <1>1, <3>1, StorageAssumption DEF StageUse, StageInUse
    <3>2. QED
      BY <1>1, <2>1, <3>1 DEF StageUse
  <2>4. ASSUME NEW u \in Threads
        PROVE  /\ use'[u] # None /\ pc'[u] # "stage" => Born(use[u])'
               /\ pc'[u] \in {"write", "remove", "account"} => stage'[use'[u]].lock = u
               /\ pc'[u] \in Ending => stage'[use'[u]].closed /\ use'[u] \in registered'
               /\ pc'[u] = "remove" => stage'[use'[u]].exists
    <3>1. CASE u = t
      BY <2>2, <3>1
    <3>2. CASE u # t
      BY <1>1, <2>1, <3>2 DEF StageUse
    <3>3. QED
      BY <3>1, <3>2
  <2>5. QED
    BY <2>3, <2>4 DEF StageUse
<1>7. QED
  BY <1>4, <1>6

LEMMA StageAccounted ==
  ASSUME StageInv, NEW t \in Threads, NEW next \in {"idle", "stages"}, AccountStage(t, next)
  PROVE  StageLife' /\ StageUse'
<1> DEFINE st == use[t]
<1> USE DEF StageInv, TypeOK, Goto, Born, Ending
<1>1. /\ pc[t] = "account" /\ pc'[t] \in {"idle", "stages"} /\ use'[t] = None
      /\ \A u \in Threads \ {t} : pc'[u] = pc[u] /\ use'[u] = use[u]
      /\ stage' = [stage EXCEPT ![st].lock = None] /\ registered' = registered \ {st}
  BY DEF AccountStage
<1>2. st \in Stages /\ stage[st].closed /\ stage[st].lock = t
  BY <1>1 DEF StageInUse, StageUse
<1>3. /\ \A s \in Stages \ {st} : stage'[s] = stage[s]
      /\ stage'[st].exists = stage[st].exists /\ stage'[st].closed = stage[st].closed
  BY <1>1, <1>2 DEF StageType
<1>4. \A u \in Threads \ {t} : pc[u] \in {"write", "remove", "account"} => use[u] # st
  BY <1>2 DEF StageUse
<1>5. StageLife'
  BY <1>1, <1>2, <1>3, <1>4 DEF StageLife
<1>6. StageUse'
  BY <1>1, <1>2, <1>3, <1>4, StorageAssumption DEF StageUse, StageInUse
<1>7. QED
  BY <1>5, <1>6

\* Both ways into stage.Close: a worker's own stage, and one that Close copied.
LEMMA StageEnded ==
  ASSUME StageInv, NEW t \in Threads, NEW st \in Stages, Born(st),
         pc[t] \notin StageLabels, NEW next, next \notin StageLabels, BeginCloseStage(t, st, next),
         ~stage[st].closed => use' = [use EXCEPT ![t] = st],
         stage[st].closed => use' \in {use, [use EXCEPT ![t] = None]},
         UNCHANGED registered
  PROVE  StageLife' /\ StageUse'
<1> USE DEF StageInv, TypeOK, Goto, Ending, StageLabels
<1>1. CASE stage[st].closed
  <2>1. /\ UNCHANGED stage /\ pc'[t] \notin StageLabels /\ use'[t] \in {use[t], None}
        /\ \A u \in Threads \ {t} : pc'[u] = pc[u] /\ use'[u] = use[u]
    BY <1>1 DEF BeginCloseStage
  <2>2. StageLife'
    BY <2>1 DEF StageLife, Born
  <2>3. StageUse'
    BY <2>1, StorageAssumption DEF StageUse, StageInUse, Born
  <2>4. QED
    BY <2>2, <2>3
<1>2. CASE ~stage[st].closed
  <2>1. /\ stage' = [stage EXCEPT ![st].lock = t, ![st].closed = TRUE] /\ stage[st].lock = None
        /\ pc'[t] = "remove" /\ use'[t] = st
        /\ \A u \in Threads \ {t} : pc'[u] = pc[u] /\ use'[u] = use[u]
    BY <1>2 DEF BeginCloseStage
  <2>2. /\ \A s \in Stages \ {st} : stage'[s] = stage[s]
        /\ stage'[st].exists = stage[st].exists /\ stage'[st].closed /\ stage'[st].lock = t
    BY <2>1 DEF StageType
  <2>3. stage[st].exists /\ st \in registered
    BY <1>2 DEF Born, StageLife
  <2>4. \A u \in Threads \ {t} : pc[u] \in {"write", "remove", "account"} => use[u] # st
    BY <2>1, StorageAssumption DEF StageUse, Threads
  <2>5. StageLife'
    <3>1. \A s \in Stages : Born(s)' = Born(s)
      BY <2>2, <2>3 DEF Born
    <3>2. QED
      <4>1. ASSUME NEW s \in Stages, s \in registered, stage'[s].closed
            PROVE  \E u \in Threads : pc'[u] \in Ending /\ use'[u] = s
        <5>1. CASE s = st
          BY <2>1, <5>1
        <5>2. CASE s # st
          <6>1. PICK u \in Threads : pc[u] \in Ending /\ use[u] = s
            BY <2>2, <4>1, <5>2 DEF StageLife
          <6>2. QED
            BY <2>1, <6>1
        <5>3. QED
          BY <5>1, <5>2
      <4>2. ASSUME NEW s \in Stages
            PROVE  /\ ~Born(s) => stage'[s] = NewStage /\ s \notin registered
                   /\ Born(s) /\ ~stage'[s].closed => s \in registered
        BY <2>2, <2>3 DEF StageLife, Born
      <4>3. QED
        BY <3>1, <4>1, <4>2 DEF StageLife
  <2>6. StageUse'
    <3>1. \A s \in Stages : Born(s)' = Born(s)
      BY <2>2, <2>3 DEF Born
    <3>2. ASSUME NEW u \in Threads, u # t
          PROVE  pc[u] \in {"write", "remove", "account"} => stage'[use[u]] = stage[use[u]]
      BY <2>2, <2>4, <3>2 DEF StageInUse
    <3>3. ASSUME NEW u \in Threads, pc[u] = "stage" PROVE use[u] # st
      BY <2>3, <3>3 DEF StageUse, Born
    <3>4. QED
      <4>1. ASSUME NEW u \in Threads
            PROVE  pc'[u] = "stage" => ~Born(use[u])' /\ \A v \in Threads \ {u} : use'[v] # use'[u]
        <5>1. ASSUME pc'[u] = "stage" PROVE u # t /\ use[u] \in Stages /\ ~Born(use[u])
          BY <2>1, <5>1 DEF StageUse, StageInUse
        <5>2. QED
          BY <2>1, <3>1, <3>3, <5>1 DEF StageUse
      <4>2. ASSUME NEW u \in Threads
            PROVE  /\ use'[u] # None /\ pc'[u] # "stage" => Born(use[u])'
                   /\ pc'[u] \in {"write", "remove", "account"} => stage'[use'[u]].lock = u
                   /\ pc'[u] \in Ending => stage'[use'[u]].closed /\ use'[u] \in registered
                   /\ pc'[u] = "remove" => stage'[use'[u]].exists
        <5>1. CASE u = t
          BY <2>1, <2>2, <2>3, <5>1 DEF Born
        <5>2. CASE u # t
          <6>1. use[u] # None => use[u] \in Stages
            OBVIOUS
          <6>2. pc'[u] = pc[u] /\ use'[u] = use[u]
            BY <2>1, <5>2
          <6>3. use[u] # None => Born(use[u])' = Born(use[u])
            BY <3>1, <6>1, <6>2
          <6>4. pc[u] \in {"write", "remove", "account"} => stage'[use[u]] = stage[use[u]]
            BY <3>2, <5>2
          <6>5. QED
            BY <6>2, <6>3, <6>4 DEF StageUse
        <5>3. QED
          BY <5>1, <5>2
      <4>3. QED
        BY <4>1, <4>2 DEF StageUse
  <2>7. QED
    BY <2>5, <2>6
<1>3. QED
  BY <1>1, <1>2

LEMMA StageStep ==
  ASSUME StageInv, TypeOK', [Next]_vars
  PROVE  StageLife' /\ StageUse'
<1>1. CASE StageQuiet
  BY <1>1, StageQuietStep
<1>2. ASSUME NEW w \in Workers, WorkerCloseStage(w) PROVE StageLife' /\ StageUse'
  <2>1. /\ use[w] \in Stages /\ pc[w] = "idle" /\ w \in Threads
    BY <1>2 DEF WorkerCloseStage, StageInv, TypeOK, Threads
  <2>2. Born(use[w])
    BY <2>1, StorageAssumption DEF StageInv, StageUse
  <2>3. /\ BeginCloseStage(w, use[w], "idle") /\ UNCHANGED registered
        /\ use' = IF stage[use[w]].closed THEN [use EXCEPT ![w] = None] ELSE use
    BY <1>2 DEF WorkerCloseStage
  <2>4. [use EXCEPT ![w] = use[w]] = use
    BY <2>1 DEF StageInv, TypeOK
  <2>5. QED
    BY <2>1, <2>2, <2>3, <2>4, StageEnded DEF StageLabels
<1>3. ASSUME NEW c \in Closers, CloseNextStage(c) PROVE StageLife' /\ StageUse'
  <2>1. PICK st \in todo[c] : /\ BeginCloseStage(c, st, "stages")
                              /\ use' = IF stage[st].closed THEN use ELSE [use EXCEPT ![c] = st]
    BY <1>3 DEF CloseNextStage
  <2>2. st \in Stages /\ Born(st) /\ c \in Threads /\ pc[c] = "stages" /\ UNCHANGED registered
    BY <1>3 DEF StageInv, TypeOK, CloseType, Threads, CloseNextStage
  <2>3. QED
    BY <2>1, <2>2, StageEnded DEF StageLabels
<1>4. QED
  BY <1>1, <1>2, <1>3, StageFrame, StageBegun, StageCreated, StageLocked, StageWritten, StageRemoved,
     StageAccounted DEF StageAction, StageInv

---------------------------------------------------------------------------
(* Close *)

\* A closer moves by its own steps only.
LEMMA CloserFrame ==
  ASSUME TypeOK, [Next]_vars, NEW c \in Closers
  PROVE  \/ pc'[c] = pc[c] /\ todo'[c] = todo[c] /\ use'[c] = use[c]
         \/ Close(c) \/ CloserStep(c)
<1> DEFINE Same == pc'[c] = pc[c] /\ todo'[c] = todo[c] /\ use'[c] = use[c]
<1> USE DEF TypeOK, Threads, CloseType
<1> USE DEF Goto, Begin
<1>1. \A w \in Workers : w # c
  BY StorageAssumption
<1>2. ASSUME NEW w \in Workers, WorkerStart(w) PROVE Same
  BY <1>1, <1>2 DEF WorkerStart, transferBuffer, BeginSection, BeginStage, BeginWriteAt,
     WorkerCloseStage, BeginCloseStage, closeVars
<1>3. ASSUME NEW w \in Workers, WorkerStep(w) PROVE Same
  BY <1>1, <1>3 DEF WorkerStep, CheckContext, TryReserve, Wake, release, newWorkingSection,
     newCompressionStage, WriteAt, RemoveStage, AccountStage, closeVars
<1>4. ASSUME NEW d \in Closers, CloserStep(d) \/ Close(d), d # c PROVE Same
  BY <1>4 DEF CloserStep, CloseNextStage, BeginCloseStage, RemoveStage, AccountStage,
     RemoveSpill, AccountSpill, Observe, Close, closeVars
<1>5. CASE Cancel \/ UNCHANGED vars
  BY <1>5 DEF Cancel, vars, closeVars
<1>6. QED
  BY <1>2, <1>3, <1>4, <1>5 DEF Next

\* What a step of Close does to its position.
LEMMA CloserMoves ==
  ASSUME TypeOK, NEW c \in Closers, CloserStep(c)
  PROVE  \/ pc[c] = "stages" /\ pc'[c] \in {"stages", "remove", "spill", "report"}
         \/ pc[c] = "remove" /\ pc'[c] = "account"
         \/ pc[c] = "account" /\ pc'[c] = "stages"
         \/ pc[c] = "spill" /\ pc'[c] = "report"
         \/ pc[c] = "report" /\ pc'[c] = "done" /\ Observe(c)
BY DEF TypeOK, Threads, Goto, CloserStep, CloseNextStage, BeginCloseStage, RemoveStage, AccountStage,
   RemoveSpill, AccountSpill, Observe

LEMMA WorkerLabelsStep ==
  ASSUME TypeOK, OneCloser, [Next]_vars, NEW w \in Workers
  PROVE  pc'[w] \notin {"start", "stages", "spill", "report", "done"}
<1> DEFINE Same == pc'[w] = pc[w]
           Label == pc'[w] \in {"idle", "loop", "try", "waiting", "holding", "section", "stage",
                                "write", "remove", "account"}
<1> USE DEF TypeOK, Threads
<1> USE DEF Goto, Begin
<1>1. ASSUME NEW x \in Workers, WorkerStart(x) PROVE Same \/ Label
  BY <1>1 DEF WorkerStart, transferBuffer, BeginSection, BeginStage, BeginWriteAt,
     WorkerCloseStage, BeginCloseStage
<1>2. ASSUME NEW x \in Workers, WorkerStep(x) PROVE Same \/ Label
  BY <1>2 DEF WorkerStep, CheckContext, TryReserve, Wake, release, newWorkingSection,
     newCompressionStage, WriteAt, RemoveStage, AccountStage
<1>3. ASSUME NEW c \in Closers, CloserStep(c) \/ Close(c) PROVE Same
  BY <1>3, StorageAssumption DEF CloserStep, CloseNextStage, BeginCloseStage, RemoveStage, AccountStage,
     RemoveSpill, AccountSpill, Observe, Close
<1>4. ASSUME Cancel \/ UNCHANGED vars PROVE Same
  BY <1>4 DEF Cancel, vars
<1>5. QED
  BY <1>1, <1>2, <1>3, <1>4 DEF Next, OneCloser

LEMMA ObservedFrame ==
  ASSUME [Next]_vars
  PROVE  UNCHANGED observed \/ \E c \in Closers : Observe(c)
BY DEF Next, WorkerStep, WorkerStart, CloserStep, transferBuffer, BeginSection, BeginStage, BeginWriteAt,
   WorkerCloseStage, CheckContext, TryReserve, Wake, release, newWorkingSection,
   newCompressionStage, WriteAt, RemoveStage, AccountStage, CloseNextStage,
   RemoveSpill, AccountSpill, Close, Cancel, closeVars, vars

\* Stages are registered only as long as the storage is open.
LEMMA RegisteredFrame ==
  ASSUME [Next]_vars
  PROVE  registered' \subseteq registered \/ ~closed
<1>1. ASSUME NEW w \in Workers, newCompressionStage(w) PROVE registered' \subseteq registered \/ ~closed
  BY <1>1 DEF newCompressionStage, stageVars
<1>2. ASSUME NEW t, AccountStage(t, "idle") \/ AccountStage(t, "stages")
      PROVE  registered' \subseteq registered
  BY <1>2 DEF AccountStage
<1>3. QED
  BY <1>1, <1>2 DEF Next, WorkerStep, WorkerStart, CloserStep, transferBuffer, BeginSection, BeginStage,
     BeginWriteAt, WorkerCloseStage, CheckContext, TryReserve, Wake, release, newWorkingSection,
     WriteAt, RemoveStage, CloseNextStage, RemoveSpill, AccountSpill, Close, Observe,
     Cancel, stageVars, vars

LEMMA OneCloserStep ==
  ASSUME TypeOK, ClosingIsClosed, OneCloser, Drained, [Next]_vars
  PROVE  OneCloser'
<1>1. ASSUME NEW c \in Closers
      PROVE  pc'[c] \in {"start", "stages", "remove", "account", "spill", "report", "done"}
  BY CloserFrame, CloserMoves DEF OneCloser, Close, Goto, TypeOK, Threads
<1>2. ASSUME NEW c \in Closers, Busy(c)'
      PROVE  Busy(c) \/ (Close(c) /\ ~closed)
  <2>1. CASE pc'[c] = pc[c]
    BY <1>2, <2>1 DEF Busy
  <2>2. CASE CloserStep(c)
    BY <2>2, CloserMoves DEF Busy
  <2>3. CASE Close(c)
    BY <1>2, <2>3 DEF Busy, Close, Goto, TypeOK, Threads
  <2>4. QED
    BY <2>1, <2>2, <2>3, CloserFrame
<1>3. \A c, d \in Closers : Busy(c)' /\ Busy(d)' => c = d
  <2>1. \A c \in Closers : Busy(c) => closed
    BY DEF Busy, ClosingIsClosed
  <2>2. ASSUME NEW c \in Closers, NEW d \in Closers, Close(c), Busy(d)', ~closed PROVE c = d
    <3>1. Close(d)
      BY <1>2, <2>1, <2>2
    <3>2. c # d => pc'[d] = pc[d]
      BY <2>2 DEF Close, Goto, TypeOK, Threads
    <3>3. pc[d] = "start"
      BY <3>1 DEF Close
    <3>4. QED
      BY <2>2, <3>2, <3>3 DEF Busy
  <2>3. QED
    BY <1>2, <2>1, <2>2 DEF OneCloser
<1>4. ASSUME NEW c \in Closers, Observe(c)
      PROVE  closed' /\ Len(observed') = 1 /\ registered' = {} /\ \A d \in Closers : ~Busy(d)'
  <2>1. pc[c] = "report" /\ pc'[c] = "done" /\ \A d \in Closers \ {c} : pc'[d] = pc[d]
    BY <1>4 DEF Observe, Goto, TypeOK, Threads
  <2>2. Busy(c) /\ observed = <<>> /\ closed
    BY <2>1 DEF Busy, OneCloser, ClosingIsClosed
  <2>3. Len(observed') = 1
    BY <1>4, <2>2 DEF Observe
  <2>4. registered = {}
    BY <2>1, <2>2 DEF Drained, Ending
  <2>5. \A d \in Closers \ {c} : ~Busy(d)
    BY <2>2 DEF OneCloser
  <2>6. QED
    BY <1>4, <2>1, <2>2, <2>3, <2>4, <2>5 DEF Observe, Busy, stageVars
<1>5. CASE UNCHANGED observed
  <2>1. ASSUME observed' # <<>>
        PROVE  closed' /\ Len(observed') = 1 /\ registered' = {} /\ \A d \in Closers : ~Busy(d)'
    <3>1. closed /\ Len(observed) = 1 /\ registered = {} /\ \A d \in Closers : ~Busy(d)
      BY <1>5, <2>1 DEF OneCloser
    <3>2. closed' /\ registered' = {}
      BY <3>1, ClosedStays, RegisteredFrame
    <3>3. QED
      BY <1>2, <1>5, <3>1, <3>2
  <2>2. QED
    BY <1>1, <1>3, <2>1, WorkerLabelsStep DEF OneCloser
<1>6. QED
  BY <1>1, <1>3, <1>4, <1>5, WorkerLabelsStep, ObservedFrame DEF OneCloser

\* Files are removed by closed stages only, so a stage that was born stays so.
LEMMA BornStays ==
  ASSUME StageInv, [Next]_vars, NEW st \in Stages, Born(st)
  PROVE  Born(st)'
<1> USE DEF StageInv, TypeOK, StageType, Threads, Born
<1>1. CASE StageQuiet
  BY <1>1 DEF StageQuiet, stageVars
<1>2. ASSUME NEW w \in Workers, \/ \E s \in Stages : BeginStage(w, s)
                                \/ newCompressionStage(w) \/ BeginWriteAt(w)
      PROVE  Born(st)'
  BY <1>2 DEF BeginStage, newCompressionStage, BeginWriteAt, LockStage, stageVars
<1>3. ASSUME NEW w \in Workers, NEW end \in WriteEnds, NEW reached \in 0..end, WriteAt(w, end, reached)
      PROVE  Born(st)'
  BY <1>3 DEF WriteAt
<1>4. ASSUME NEW t \in Threads, NEW s \in Stages, NEW next, BeginCloseStage(t, s, next) PROVE Born(st)'
  BY <1>4 DEF BeginCloseStage
<1>5. ASSUME NEW t \in Threads, RemoveStage(t) PROVE Born(st)'
  <2>1. use[t] \in Stages /\ stage[use[t]].closed
    BY <1>5 DEF RemoveStage, StageInUse, StageUse, Ending
  <2>2. QED
    BY <1>5, <2>1 DEF RemoveStage
<1>6. ASSUME NEW t \in Threads, NEW next, AccountStage(t, next) PROVE Born(st)'
  BY <1>6 DEF AccountStage
<1>7. ASSUME NEW w \in Workers, WorkerCloseStage(w) PROVE Born(st)'
  <2>1. use[w] \in Stages /\ BeginCloseStage(w, use[w], "idle")
    BY <1>7 DEF WorkerCloseStage
  <2>2. QED
    BY <1>4, <2>1
<1>8. ASSUME NEW c \in Closers, CloseNextStage(c) PROVE Born(st)'
  <2>1. \E s \in Stages : BeginCloseStage(c, s, "stages")
    BY <1>8 DEF CloseNextStage, CloseType
  <2>2. QED
    BY <1>4, <2>1
<1>9. QED
  BY <1>1, <1>2, <1>3, <1>5, <1>6, <1>7, <1>8, StageFrame DEF StageAction

\* Close passes over a stage only when nobody is still ending it.
LEMMA SkippedIsUnregistered ==
  ASSUME StageInv, NEW st \in Stages, stage[st].closed, stage[st].lock = None
  PROVE  st \notin registered
<1>1. ASSUME NEW t \in Threads, pc[t] \in Ending, use[t] = st PROVE FALSE
  BY <1>1, StorageAssumption DEF StageInv, StageUse, Ending, Threads
<1>2. QED
  BY <1>1 DEF StageInv, StageLife

DrainedAt(c) ==
  /\ Busy(c) => \A st \in registered : st \in todo[c] \/ (pc[c] \in Ending /\ use[c] = st)
  /\ pc[c] \in {"spill", "report"} => todo[c] = {}

LEMMA DrainedStep ==
  ASSUME StageInv, ClosingIsClosed, Drained, [Next]_vars
  PROVE  Drained'
<1> USE DEF StageInv
<1>1. ASSUME NEW c \in Closers
      PROVE  todo'[c] \subseteq Stages /\ todo'[c] \subseteq todo[c] \cup registered
  <2>1. CASE todo'[c] = todo[c]
    BY <2>1 DEF TypeOK, CloseType
  <2>2. CASE Close(c)
    BY <2>2 DEF Close, TypeOK, CloseType, StageType
  <2>3. CASE CloserStep(c)
    BY <2>3 DEF CloserStep, CloseNextStage, RemoveStage, AccountStage, RemoveSpill, AccountSpill,
       Observe, TypeOK, CloseType, closeVars
  <2>4. QED
    BY <2>1, <2>2, <2>3, CloserFrame
<1>2. ASSUME NEW c \in Closers, NEW st \in todo'[c] PROVE Born(st)'
  <2>1. st \in Stages /\ Born(st)
    BY <1>1, <1>2 DEF Drained, StageLife, TypeOK, StageType
  <2>2. QED
    BY <2>1, BornStays
<1>3. ASSUME NEW c \in Closers PROVE DrainedAt(c)'
  <2> USE DEF TypeOK, CloseType, StageType, Threads, Goto, Busy, Ending, DrainedAt
  <2>0. DrainedAt(c) /\ (Busy(c) => closed)
    BY DEF Drained, ClosingIsClosed
  <2>1. CASE pc'[c] = pc[c] /\ todo'[c] = todo[c] /\ use'[c] = use[c]
    BY <2>0, <2>1, RegisteredFrame
  <2>2. CASE Close(c)
    BY <2>2 DEF Close, stageVars
  <2>3. CASE CloseNextStage(c)
    <3>1. PICK st \in todo[c] : /\ BeginCloseStage(c, st, "stages")
                                /\ use' = IF stage[st].closed THEN use ELSE [use EXCEPT ![c] = st]
                                /\ todo' = [todo EXCEPT ![c] = @ \ {st}]
      BY <2>3 DEF CloseNextStage
    <3>2. pc[c] = "stages" /\ registered' = registered /\ st \in Stages /\ stage[st].lock = None
      BY <2>3, <3>1 DEF CloseNextStage, BeginCloseStage
    <3>3. registered \subseteq todo[c]
      BY <2>0, <3>2
    <3>4. CASE stage[st].closed
      <4>1. st \notin registered /\ pc'[c] = "stages"
        BY <3>1, <3>2, <3>4, SkippedIsUnregistered DEF BeginCloseStage
      <4>2. QED
        BY <3>1, <3>2, <3>3, <4>1
    <3>5. CASE ~stage[st].closed
      <4>1. pc'[c] = "remove" /\ use'[c] = st
        BY <3>1, <3>5 DEF BeginCloseStage
      <4>2. QED
        BY <3>1, <3>2, <3>3, <4>1
    <3>6. QED
      BY <3>4, <3>5
  <2>4. CASE RemoveStage(c)
    BY <2>0, <2>4 DEF RemoveStage, closeVars
  <2>5. CASE AccountStage(c, "stages")
    BY <2>0, <2>5 DEF AccountStage, closeVars
  <2>6. CASE RemoveSpill(c)
    BY <2>0, <2>6 DEF RemoveSpill, closeVars, stageVars
  <2>7. CASE AccountSpill(c) \/ Observe(c)
    BY <2>0, <2>7 DEF AccountSpill, Observe, closeVars, stageVars
  <2>8. QED
    BY <2>1, <2>2, <2>3, <2>4, <2>5, <2>6, <2>7, CloserFrame DEF CloserStep
<1>4. QED
  BY <1>2, <1>3 DEF Drained, DrainedAt

\* The spill file as one Close sees it.
FileAt(c) ==
  /\ pc[c] \in {"stages", "remove", "account"} => file \in {"none", "open"}
  /\ pc[c] = "spill" => file = "removed"
  /\ pc[c] = "report" => file # "open"

LEMMA SpillFileStep ==
  ASSUME TypeOK, ClosingIsClosed, OneCloser, SpillFile, [Next]_vars
  PROVE  SpillFile'
<1>1. CASE UNCHANGED spillVars
  <2>1. UNCHANGED <<file, spillBytes>> /\ \A c \in Closers : FileAt(c)
    BY <1>1 DEF spillVars, SpillFile, FileAt
  <2>2. ASSUME NEW c \in Closers, ~RemoveSpill(c) PROVE FileAt(c)'
    <3> USE DEF TypeOK, Threads, Goto, FileAt
    <3>1. CASE pc'[c] = pc[c]
      BY <2>1, <3>1
    <3>2. CASE Close(c)
      BY <2>1, <3>2 DEF Close, SpillFile
    <3>3. CASE CloseNextStage(c)
      BY <2>1, <3>3 DEF CloseNextStage, BeginCloseStage
    <3>4. CASE RemoveStage(c) \/ AccountStage(c, "stages") \/ AccountSpill(c) \/ Observe(c)
      BY <2>1, <3>4 DEF RemoveStage, AccountStage, AccountSpill, Observe
    <3>5. QED
      BY <2>2, <3>1, <3>2, <3>3, <3>4, CloserFrame DEF CloserStep
  <2>3. ASSUME NEW c \in Closers, RemoveSpill(c) PROVE FileAt(c)'
    BY <1>1, <2>3 DEF FileAt, RemoveSpill, Goto, TypeOK, Threads, spillVars, SpillType
  <2>4. ~closed' => ~closed
    BY ClosedStays
  <2>5. QED
    BY <2>1, <2>2, <2>3, <2>4 DEF SpillFile, FileAt
<1>2. ASSUME NEW w \in Workers, newWorkingSection(w), ~UNCHANGED spillVars PROVE SpillFile'
  <2>1. ~closed /\ closed' = closed /\ \A c \in Closers : pc'[c] = pc[c]
    BY <1>2, StorageAssumption DEF newWorkingSection, spillVars, closeVars, Goto, TypeOK, Threads
  <2>2. \A c \in Closers : pc'[c] = "start"
    BY <2>1 DEF ClosingIsClosed
  <2>3. UNCHANGED <<file, spillBytes>> \/ file' = "open"
    BY <1>2 DEF newWorkingSection, Spill, spillVars
  <2>4. QED
    BY <2>1, <2>2, <2>3 DEF SpillFile
<1>3. ASSUME NEW c \in Closers, RemoveSpill(c) PROVE SpillFile'
  <2>1. /\ pc[c] = "stages" /\ closed' = closed /\ spillBytes' = spillBytes
        /\ \A d \in Closers \ {c} : pc'[d] = pc[d]
        /\ \/ file = "none" /\ file' = "none" /\ pc'[c] = "report"
           \/ file' = "removed" /\ pc'[c] = "spill"
           \/ file' = "left" /\ pc'[c] = "report"
    BY <1>3 DEF RemoveSpill, closeVars, Goto, TypeOK, Threads
  <2>2. closed /\ \A d \in Closers \ {c} : pc'[d] \in {"start", "done"}
    BY <2>1 DEF ClosingIsClosed, OneCloser, Busy
  <2>3. QED
    BY <2>1, <2>2 DEF SpillFile
<1>4. QED
  BY <1>1, <1>2, <1>3, SpillFrame

---------------------------------------------------------------------------
(* The counters of scratch files *)

StageFiles == Cardinality(Counted)
StageBytes == SumOver(Extents, Counted)
SpillFiles == IF SpillCounted THEN 1 ELSE 0
SpillSize  == IF SpillCounted THEN spillBytes ELSE 0

SpillQuiet ==
  /\ UNCHANGED <<file, spillBytes>>
  /\ \A c \in Closers : (pc'[c] = "spill") <=> (pc[c] = "spill")

SpillAction ==
  \/ \E w \in Workers : newWorkingSection(w)
  \/ \E c \in Closers : RemoveSpill(c) \/ AccountSpill(c)

\* No step moves both the files of stages and the spill file.
LEMMA CountFrame ==
  ASSUME TypeOK, OneCloser, [Next]_vars
  PROVE  \/ StageQuiet /\ SpillQuiet /\ UNCHANGED tempVars
         \/ StageAction /\ SpillQuiet
         \/ StageQuiet /\ SpillAction
<1> USE DEF TypeOK, Threads, StageLabels, Goto, Begin
<1> DEFINE Quiet == StageQuiet /\ SpillQuiet /\ UNCHANGED tempVars
<1>0. \A w \in Workers : w \notin Closers
  BY StorageAssumption
<1>1. ASSUME NEW w \in Workers, \/ \E size \in BufferSizes : transferBuffer(w, size)
                                \/ \E size \in SectionSizes : BeginSection(w, size)
      PROVE  Quiet
  BY <1>0, <1>1 DEF transferBuffer, BeginSection, StageQuiet, SpillQuiet, spillVars
<1>2. ASSUME NEW w \in Workers, CheckContext(w) \/ Wake(w) \/ release(w) \/ TryReserve(w)
      PROVE  Quiet
  BY <1>0, <1>2 DEF CheckContext, Wake, release, TryReserve, StageQuiet, SpillQuiet, spillVars
<1>3. ASSUME NEW w \in Workers, newWorkingSection(w) PROVE StageQuiet /\ SpillAction
  BY <1>3 DEF newWorkingSection, StageQuiet, SpillAction
<1>4. ASSUME NEW c \in Closers, Close(c) \/ Observe(c) PROVE Quiet
  BY <1>4 DEF Close, Observe, StageQuiet, SpillQuiet, spillVars
<1>5. ASSUME NEW c \in Closers, RemoveSpill(c) \/ AccountSpill(c) PROVE StageQuiet /\ SpillAction
  BY <1>5 DEF RemoveSpill, AccountSpill, StageQuiet, SpillAction
<1>6. ASSUME Cancel \/ UNCHANGED vars PROVE Quiet
  BY <1>6 DEF Cancel, vars, StageQuiet, SpillQuiet, spillVars
<1>7. ASSUME StageAction PROVE SpillQuiet
  <2>1. ASSUME NEW w \in Workers, \/ \E st \in Stages : BeginStage(w, st)
                                  \/ newCompressionStage(w) \/ BeginWriteAt(w) \/ WorkerCloseStage(w)
        PROVE SpillQuiet
    BY <1>0, <2>1 DEF BeginStage, newCompressionStage, BeginWriteAt, WorkerCloseStage, BeginCloseStage,
       SpillQuiet, spillVars
  <2>2. ASSUME NEW w \in Workers, NEW end, NEW reached, WriteAt(w, end, reached) PROVE SpillQuiet
    BY <1>0, <2>2 DEF WriteAt, SpillQuiet, spillVars
  <2>3. ASSUME NEW t \in Threads, RemoveStage(t) \/ AccountStage(t, "idle") \/ AccountStage(t, "stages")
        PROVE SpillQuiet
    BY <2>3 DEF RemoveStage, AccountStage, SpillQuiet, spillVars
  <2>4. ASSUME NEW c \in Closers, CloseNextStage(c) PROVE SpillQuiet
    BY <2>4 DEF CloseNextStage, BeginCloseStage, SpillQuiet, spillVars
  <2>5. QED
    BY <1>7, <2>1, <2>2, <2>3, <2>4 DEF StageAction
<1>8. \/ Quiet \/ StageAction \/ (StageQuiet /\ SpillAction)
  BY <1>1, <1>2, <1>3, <1>4, <1>5, <1>6 DEF Next, WorkerStep, WorkerStart, CloserStep, StageAction
<1>9. QED
  BY <1>7, <1>8

LEMMA CountedTypes ==
  ASSUME TypeOK
  PROVE  /\ Counted \subseteq Stages /\ IsFiniteSet(Counted)
         /\ \A st \in Stages : Extents[st] \in Nat
         /\ StageFiles \in Nat /\ StageBytes \in Nat
         /\ SpillFiles \in {0, 1} /\ SpillSize \in Nat
<1>1. Counted \subseteq Stages
  BY DEF Counted, StagesOnDisk
<1>2. IsFiniteSet(Counted)
  BY <1>1, FS_Subset, StorageAssumption
<1>3. \A st \in Stages : Extents[st] \in Nat
  BY StorageAssumption DEF TypeOK, StageType, Extents
<1>4. StageFiles \in Nat
  BY <1>2, FS_CardinalityType DEF StageFiles
<1>5. StageBytes \in Nat
  BY <1>1, <1>2, <1>3, SumOverNat DEF StageBytes
<1>6. SpillFiles \in {0, 1} /\ SpillSize \in Nat
  BY StorageAssumption DEF SpillFiles, SpillSize, TypeOK, SpillType
<1>7. QED
  BY <1>1, <1>2, <1>3, <1>4, <1>5, <1>6

LEMMA CountedTypesNext ==
  ASSUME TypeOK'
  PROVE  /\ StageFiles' \in Nat /\ StageBytes' \in Nat
         /\ SpillFiles' \in Nat /\ SpillSize' \in Nat
<1>1. Counted' \subseteq Stages /\ IsFiniteSet(Counted')
  <2>1. Counted' \subseteq Stages
    BY DEF Counted, StagesOnDisk
  <2>2. QED
    BY <2>1, FS_Subset, StorageAssumption
<1>2. \A st \in Stages : Extents'[st] \in Nat
  BY StorageAssumption DEF TypeOK, StageType, Extents
<1>3. StageFiles' \in Nat
  BY <1>1, FS_CardinalityType DEF StageFiles
<1>4. StageBytes' \in Nat
  BY <1>1, <1>2, SumOverNat DEF StageBytes
<1>5. SpillFiles' \in Nat /\ SpillSize' \in Nat
  BY StorageAssumption DEF SpillFiles, SpillSize, TypeOK, SpillType
<1>6. QED
  BY <1>3, <1>4, <1>5

\* The counted files and their bytes depend on who is accounting, on the files and extents.
LEMMA CountedSame ==
  ASSUME TypeOK, \A st \in Stages : /\ (st \in Counted') <=> (st \in Counted)
                                    /\ stage'[st].extent = stage[st].extent
  PROVE  StageFiles' = StageFiles /\ StageBytes' = StageBytes
<1>1. Counted' = Counted
  BY DEF Counted, StagesOnDisk
<1>2. Extents' = Extents
  BY DEF Extents
<1>3. QED
  BY <1>1, <1>2 DEF StageFiles, StageBytes

\* The counters follow the files of stages.
StageBalance ==
  /\ temporaryFiles' = temporaryFiles + (StageFiles' - StageFiles)
  /\ temporaryBytes' = temporaryBytes + (StageBytes' - StageBytes)
  /\ temporaryBytes <= MaxInt64 => temporaryBytes' <= MaxInt64

LEMMA BalanceKept ==
  ASSUME TypeOK, UNCHANGED tempVars,
         \A t \in Threads : /\ (pc'[t] = "account") <=> (pc[t] = "account")
                            /\ pc[t] = "account" => use'[t] = use[t],
         \A st \in Stages : /\ stage'[st].exists = stage[st].exists
                            /\ stage'[st].extent = stage[st].extent
  PROVE  StageBalance
<1>1. \A st \in Stages : (st \in Counted') <=> (st \in Counted)
  BY DEF Counted, StagesOnDisk
<1>2. StageFiles' = StageFiles /\ StageBytes' = StageBytes
  BY <1>1, CountedSame
<1>3. StageFiles \in Nat /\ StageBytes \in Nat
  BY CountedTypes
<1>4. QED
  BY <1>2, <1>3 DEF StageBalance, tempVars, TypeOK, TempType

LEMMA QuietBalance ==
  ASSUME TypeOK, StageQuiet, UNCHANGED tempVars
  PROVE  StageBalance
<1>1. \A t \in Threads : /\ (pc'[t] = "account") <=> (pc[t] = "account")
                         /\ pc[t] = "account" => use'[t] = use[t]
  BY DEF StageQuiet, StageLabels
<1>2. \A st \in Stages : /\ stage'[st].exists = stage[st].exists
                         /\ stage'[st].extent = stage[st].extent
  BY DEF StageQuiet, stageVars
<1>3. QED
  BY <1>1, <1>2, BalanceKept

LEMMA BeginBalance ==
  ASSUME TypeOK, NEW w \in Workers,
         BeginWriteAt(w) \/ \E st \in Stages : BeginStage(w, st)
  PROVE  StageBalance
<1> USE DEF Begin, Goto, TypeOK, Threads
<1>1. \A t \in Threads : /\ (pc'[t] = "account") <=> (pc[t] = "account")
                         /\ pc[t] = "account" => use'[t] = use[t]
  BY DEF BeginWriteAt, BeginStage
<1>2. \A st \in Stages : /\ stage'[st].exists = stage[st].exists
                         /\ stage'[st].extent = stage[st].extent
  BY DEF BeginWriteAt, BeginStage, LockStage, StageType, stageVars
<1>3. UNCHANGED tempVars
  BY DEF BeginWriteAt, BeginStage
<1>4. QED
  BY <1>1, <1>2, <1>3, BalanceKept

LEMMA EndBalance ==
  ASSUME TypeOK, NEW t \in Threads, NEW st \in Stages, NEW next, next # "account", pc[t] # "account",
         BeginCloseStage(t, st, next), use' \in {use, [use EXCEPT ![t] = None], [use EXCEPT ![t] = st]},
         UNCHANGED tempVars
  PROVE  StageBalance
<1> USE DEF Goto, TypeOK
<1>1. \A u \in Threads : /\ (pc'[u] = "account") <=> (pc[u] = "account")
                         /\ pc[u] = "account" => use'[u] = use[u]
  BY DEF BeginCloseStage
<1>2. \A s \in Stages : /\ stage'[s].exists = stage[s].exists
                        /\ stage'[s].extent = stage[s].extent
  BY DEF BeginCloseStage, StageType
<1>3. QED
  BY <1>1, <1>2, BalanceKept

LEMMA RemoveBalance ==
  ASSUME StageInv, NEW t \in Threads, RemoveStage(t)
  PROVE  StageBalance
<1> DEFINE st == use[t]
<1> USE DEF StageInv, TypeOK, Goto
<1>1. /\ pc[t] = "remove" /\ pc'[t] = "account" /\ UNCHANGED use
      /\ \A u \in Threads \ {t} : pc'[u] = pc[u]
      /\ stage' = [stage EXCEPT ![st].exists = FALSE] \/ UNCHANGED stage
      /\ UNCHANGED tempVars
  BY DEF RemoveStage
<1>2. st \in Stages /\ stage[st].exists
  BY <1>1 DEF StageInUse, StageUse
<1>3. /\ \A s \in Stages \ {st} : stage'[s] = stage[s]
      /\ stage'[st].extent = stage[st].extent
  <2>1. CASE UNCHANGED stage
    BY <2>1
  <2>2. CASE stage' = [stage EXCEPT ![st].exists = FALSE]
    BY <1>2, <2>2 DEF StageType
  <2>3. QED
    BY <1>1, <2>1, <2>2
<1>4. st \in Counted /\ st \in Counted'
  BY <1>1, <1>2 DEF Counted, StagesOnDisk
<1>5. \A s \in Stages \ {st} : (s \in Counted') <=> (s \in Counted)
  BY <1>1, <1>3 DEF Counted, StagesOnDisk
<1>6. StageFiles' = StageFiles /\ StageBytes' = StageBytes
  BY <1>3, <1>4, <1>5, CountedSame
<1>7. StageFiles \in Nat /\ StageBytes \in Nat
  BY CountedTypes
<1>8. QED
  BY <1>1, <1>6, <1>7 DEF StageBalance, tempVars, TempType

\* A new scratch file counts, and is empty.
LEMMA CreateBalance ==
  ASSUME StageInv, TypeOK', NEW w \in Workers, newCompressionStage(w)
  PROVE  StageBalance
<1> DEFINE st == use[w]
<1> USE DEF StageInv, TypeOK, Goto, Threads
<1>1. /\ pc[w] = "stage" /\ pc'[w] = "idle" /\ w \in Threads
      /\ \A u \in Threads \ {w} : pc'[u] = pc[u] /\ use'[u] = use[u]
  BY DEF newCompressionStage
<1>2. st \in Stages /\ ~Born(st)
  BY <1>1 DEF StageInUse, StageUse
<1>3. CASE UNCHANGED <<stageVars, temporaryFiles>>
  <2>1. UNCHANGED tempVars
    BY <1>3 DEF newCompressionStage, tempVars
  <2>2. \A s \in Stages : /\ stage'[s].exists = stage[s].exists
                          /\ stage'[s].extent = stage[s].extent
    BY <1>3 DEF stageVars
  <2>3. \A t \in Threads : /\ (pc'[t] = "account") <=> (pc[t] = "account")
                           /\ pc[t] = "account" => use'[t] = use[t]
    BY <1>1
  <2>4. QED
    BY <2>1, <2>2, <2>3, BalanceKept
<1>4. CASE /\ stage' = [stage EXCEPT ![st].exists = TRUE]
           /\ temporaryFiles' = temporaryFiles + 1 /\ UNCHANGED use
  <2>1. /\ \A s \in Stages \ {st} : stage'[s] = stage[s]
        /\ stage'[st].exists /\ stage'[st].extent = 0 /\ stage[st].extent = 0
    BY <1>2, <1>4 DEF StageType, StageLife, NewStage
  <2>2. st \notin Counted
    BY <1>2 DEF Counted, StagesOnDisk, StageUse, Born, Ending
  <2>3. Counted' = Counted \cup {st}
    <3>1. \A s \in Stages \ {st} : (s \in Counted') <=> (s \in Counted)
      BY <1>1, <1>4, <2>1 DEF Counted, StagesOnDisk
    <3>2. st \in Counted'
      BY <1>2, <2>1 DEF Counted, StagesOnDisk
    <3>3. Counted \subseteq Stages /\ Counted' \subseteq Stages
      BY DEF Counted, StagesOnDisk
    <3>4. QED
      BY <1>2, <3>1, <3>2, <3>3
  <2>4. Extents' = Extents
    BY <2>1 DEF Extents
  <2>5. IsFiniteSet(Counted) /\ Counted \subseteq Stages /\ \A s \in Stages : Extents[s] \in Nat
    BY CountedTypes
  <2>6. StageFiles' = StageFiles + 1
    BY <2>2, <2>3, <2>5, FS_AddElement DEF StageFiles
  <2>7. StageBytes' = StageBytes
    <3>1. SumOver(Extents, Counted \cup {st}) = Extents[st] + SumOver(Extents, Counted)
      <4>1. \A s \in Counted \cup {st} : Extents[s] \in Int
        BY <1>2, <2>5
      <4>2. QED
        BY <2>2, <2>5, <4>1, SumOverAdd
    <3>2. Extents[st] = 0
      BY <1>2, <2>1 DEF Extents
    <3>3. QED
      BY <2>3, <2>4, <3>1, <3>2, CountedTypes DEF StageBytes
  <2>8. UNCHANGED temporaryBytes
    BY DEF newCompressionStage
  <2>9. QED
    BY <1>4, <2>6, <2>7, <2>8, CountedTypes DEF StageBalance, TempType
<1>5. QED
  BY <1>3, <1>4 DEF newCompressionStage

\* A write grows the extent of a counted file by what is added to the counter, and
\* what it may reach at most was checked first.
LEMMA WriteBalance ==
  ASSUME StageInv, TypeOK', NEW w \in Workers, NEW end \in WriteEnds, NEW reached \in 0..end,
         WriteAt(w, end, reached)
  PROVE  StageBalance
<1> DEFINE st == use[w]
           Grow(n) == IF n > stage[st].extent THEN n - stage[st].extent ELSE 0
<1> USE DEF StageInv, TypeOK, Goto, Threads
<1>1. /\ pc[w] = "write" /\ pc'[w] = "idle" /\ w \in Threads /\ UNCHANGED use
      /\ \A u \in Threads \ {w} : pc'[u] = pc[u]
  BY DEF WriteAt
<1>2. st \in Stages /\ stage[st].lock = w /\ Born(st)
  BY <1>1, StorageAssumption DEF StageInUse, StageUse
<1>3. \A t \in Threads : /\ (pc'[t] = "account") <=> (pc[t] = "account")
                         /\ pc[t] = "account" => use'[t] = use[t]
  BY <1>1
<1>4. CASE stage' = [stage EXCEPT ![st].lock = None] /\ UNCHANGED temporaryBytes
  <2>1. \A s \in Stages : stage'[s].exists = stage[s].exists /\ stage'[s].extent = stage[s].extent
    BY <1>2, <1>4 DEF StageType
  <2>2. UNCHANGED tempVars
    BY <1>4 DEF WriteAt, tempVars
  <2>3. QED
    BY <1>3, <2>1, <2>2, BalanceKept
<1>5. CASE /\ ~stage[st].closed /\ ~(Grow(end) > MaxInt64 - temporaryBytes)
           /\ stage' = [stage EXCEPT ![st].lock = None, ![st].extent = @ + Grow(reached)]
           /\ temporaryBytes' = temporaryBytes + Grow(reached)
  <2>1. /\ \A s \in Stages \ {st} : stage'[s] = stage[s]
        /\ stage'[st].exists = stage[st].exists
        /\ stage'[st].extent = stage[st].extent + Grow(reached)
    BY <1>2, <1>5 DEF StageType
  <2>2. Counted' = Counted
    BY <1>2, <1>3, <2>1 DEF Counted, StagesOnDisk
  <2>3. st \in Counted
    BY <1>2, <1>5 DEF Counted, StagesOnDisk, Born
  <2>4. /\ IsFiniteSet(Counted) /\ Counted \subseteq Stages
        /\ \A s \in Stages : Extents[s] \in Nat
        /\ \A s \in Stages : Extents'[s] \in Nat
    BY CountedTypes, StorageAssumption DEF Extents, StageType
  <2>5. /\ \A s \in Counted \ {st} : Extents[s] = Extents'[s]
        /\ Extents[st] = stage[st].extent /\ Extents'[st] = stage[st].extent + Grow(reached)
    BY <1>2, <2>1, <2>4 DEF Extents
  <2>6. SumOver(Extents', Counted) = SumOver(Extents, Counted) + Extents'[st] - Extents[st]
    <3> HIDE DEF StageInv, TypeOK, Goto, Threads
    <3>1. /\ \A s \in Counted : Extents[s] \in Int
          /\ \A s \in Counted : Extents'[s] \in Int
      BY <2>4
    <3>2. IsFiniteSet(Counted) /\ \A s \in Counted \ {st} : Extents[s] = Extents'[s]
      BY <2>4, <2>5
    <3> HIDE DEF st
    <3>3. QED
      BY <2>3, <3>1, <3>2, SumOverChange
  <2>7. stage[st].extent \in Nat /\ end \in Nat /\ reached \in Nat /\ reached <= end
    BY <1>2, StorageAssumption DEF StageType
  <2>8. Grow(reached) \in Nat /\ Grow(end) \in Nat /\ Grow(reached) <= Grow(end)
    BY <2>7
  <2>9. StageFiles' = StageFiles /\ StageFiles \in Nat /\ StageBytes \in Nat
    BY <2>2, CountedTypes DEF StageFiles
  <2> HIDE DEF Grow
  <2>10. StageBytes' = StageBytes + Grow(reached)
    BY <2>2, <2>5, <2>6, <2>7, <2>8, <2>9 DEF StageBytes
  <2>11. UNCHANGED temporaryFiles
    BY DEF WriteAt
  <2>12. temporaryBytes' <= MaxInt64
    BY <1>5, <2>8, StorageAssumption DEF TempType
  <2>13. QED
    BY <1>5, <2>8, <2>9, <2>10, <2>11, <2>12 DEF StageBalance, TempType
<1>6. QED
  BY <1>4, <1>5 DEF WriteAt

\* The accounting of a close takes a removed file, and only that, out of the counters.
LEMMA AccountBalance ==
  ASSUME StageInv, NEW t \in Threads, NEW next \in {"idle", "stages"}, AccountStage(t, next)
  PROVE  StageBalance
<1> DEFINE st == use[t]
<1> USE DEF StageInv, TypeOK, Goto
<1>1. /\ pc[t] = "account" /\ pc'[t] \in {"idle", "stages"}
      /\ \A u \in Threads \ {t} : pc'[u] = pc[u] /\ use'[u] = use[u]
      /\ stage' = [stage EXCEPT ![st].lock = None]
  BY DEF AccountStage
<1>2. st \in Stages /\ stage[st].lock = t /\ st \in Counted
  BY <1>1 DEF StageInUse, StageUse, Counted
<1>3. \A s \in Stages : stage'[s].exists = stage[s].exists /\ stage'[s].extent = stage[s].extent
  BY <1>1, <1>2 DEF StageType
<1>4. \A u \in Threads \ {t} : pc[u] = "account" => use[u] # st
  BY <1>2 DEF StageUse
<1>5. \A s \in Stages \ {st} : (s \in Counted') <=> (s \in Counted)
  BY <1>1, <1>3 DEF Counted, StagesOnDisk
<1>6. (st \in Counted') <=> stage[st].exists
  BY <1>1, <1>2, <1>3, <1>4 DEF Counted, StagesOnDisk
<1>7. CASE stage[st].exists
  <2>1. StageFiles' = StageFiles /\ StageBytes' = StageBytes
    BY <1>2, <1>3, <1>5, <1>6, <1>7, CountedSame
  <2>2. UNCHANGED tempVars
    BY <1>7 DEF AccountStage
  <2>3. QED
    BY <2>1, <2>2, CountedTypes DEF StageBalance, tempVars, TempType
<1>8. CASE ~stage[st].exists
  <2>1. Counted' = Counted \ {st}
    <3>1. Counted \subseteq Stages /\ Counted' \subseteq Stages
      BY DEF Counted, StagesOnDisk
    <3>2. QED
      BY <1>2, <1>5, <1>6, <1>8, <3>1
  <2>2. Extents' = Extents
    BY <1>3 DEF Extents
  <2>3. /\ IsFiniteSet(Counted) /\ Counted \subseteq Stages /\ \A s \in Stages : Extents[s] \in Nat
        /\ StageFiles \in Nat /\ StageBytes \in Nat
    BY CountedTypes
  <2>4. StageFiles' = StageFiles - 1
    BY <1>2, <2>1, <2>3, FS_RemoveElement DEF StageFiles
  <2>5. StageBytes = Extents[st] + StageBytes' /\ StageBytes' \in Int
    <3>1. \A s \in Counted : Extents[s] \in Int
      BY <2>3
    <3>2. SumOver(Extents, Counted) = Extents[st] + SumOver(Extents, Counted \ {st})
      BY <1>2, <2>3, <3>1, SumOverRemove
    <3>3. IsFiniteSet(Counted \ {st})
      BY <2>3, FS_Subset
    <3>4. SumOver(Extents, Counted \ {st}) \in Int
      BY <3>1, <3>3, SumOverInt
    <3>5. QED
      BY <2>1, <2>2, <3>2, <3>4 DEF StageBytes
  <2>6. temporaryFiles' = temporaryFiles - 1 /\ temporaryBytes' = temporaryBytes - Extents[st]
    BY <1>2, <1>8 DEF AccountStage, Extents
  <2>7. Extents[st] \in Nat
    BY <1>2, <2>3
  <2>8. QED
    BY <2>3, <2>4, <2>5, <2>6, <2>7, StorageAssumption DEF StageBalance, TempType
<1>9. QED
  BY <1>7, <1>8

LEMMA StageActionBalance ==
  ASSUME StageInv, TypeOK', StageAction
  PROVE  StageBalance
<1>1. ASSUME NEW w \in Workers, WorkerCloseStage(w) PROVE StageBalance
  <2>1. /\ use[w] \in Stages /\ pc[w] = "idle" /\ w \in Threads /\ UNCHANGED tempVars
        /\ BeginCloseStage(w, use[w], "idle") /\ use' \in {use, [use EXCEPT ![w] = None]}
    BY <1>1 DEF WorkerCloseStage, StageInv, TypeOK, Threads
  <2>2. QED
    BY <2>1, EndBalance DEF StageInv
<1>2. ASSUME NEW c \in Closers, CloseNextStage(c) PROVE StageBalance
  <2>1. PICK st \in todo[c] : /\ BeginCloseStage(c, st, "stages")
                              /\ use' = IF stage[st].closed THEN use ELSE [use EXCEPT ![c] = st]
    BY <1>2 DEF CloseNextStage
  <2>2. st \in Stages /\ c \in Threads /\ pc[c] = "stages" /\ UNCHANGED tempVars
    BY <1>2 DEF StageInv, TypeOK, CloseType, Threads, CloseNextStage
  <2>3. QED
    BY <2>1, <2>2, EndBalance DEF StageInv
<1>3. QED
  BY <1>1, <1>2, BeginBalance, CreateBalance, WriteBalance, RemoveBalance, AccountBalance
     DEF StageAction, StageInv

\* Creating, extending and removing the spill file.
SpillBalance ==
  /\ temporaryFiles' = temporaryFiles + (SpillFiles' - SpillFiles)
  /\ temporaryBytes' = temporaryBytes + (SpillSize' - SpillSize)
  /\ temporaryBytes <= MaxInt64 => temporaryBytes' <= MaxInt64

LEMMA SectionBalance ==
  ASSUME TypeOK, TypeOK', ClosingIsClosed, SpillFile, NEW w \in Workers, newWorkingSection(w)
  PROVE  SpillBalance
<1> USE DEF TypeOK, TempType, SpillType
<1>1. \A c \in Closers : pc'[c] = pc[c]
  BY StorageAssumption DEF newWorkingSection, Goto, Threads
<1>2. CASE UNCHANGED <<file, spillBytes, tempVars>>
  <2>1. SpillCounted' = SpillCounted
    BY <1>1, <1>2 DEF SpillCounted, SpillOnDisk
  <2>2. SpillFiles' = SpillFiles /\ SpillSize' = SpillSize
    BY <1>2, <2>1 DEF SpillFiles, SpillSize
  <2>3. QED
    BY <1>2, <2>2, CountedTypes DEF SpillBalance, tempVars
<1>3. CASE /\ ~closed /\ ~SpillOverflow(want[w]) /\ file' = "open"
           /\ temporaryFiles' = IF file = "none" THEN temporaryFiles + 1 ELSE temporaryFiles
           /\ \/ UNCHANGED <<spillBytes, temporaryBytes>>
              \/ /\ spillBytes' = spillBytes + want[w]
                 /\ temporaryBytes' = temporaryBytes + want[w]
  <2>1. file \in {"none", "open"} /\ \A c \in Closers : pc[c] # "spill"
    BY <1>3 DEF SpillFile, ClosingIsClosed
  <2>2. (SpillCounted <=> file = "open") /\ SpillCounted'
    BY <1>3, <2>1 DEF SpillCounted, SpillOnDisk
  <2>3. /\ SpillFiles = (IF file = "open" THEN 1 ELSE 0) /\ SpillFiles' = 1
        /\ SpillSize = spillBytes /\ SpillSize' = spillBytes'
    BY <2>1, <2>2 DEF SpillFiles, SpillSize, SpillFile
  <2>4. /\ want[w] \in Nat /\ spillBytes \in Nat /\ MaxInt64 \in Nat
        /\ temporaryBytes \in Int /\ temporaryBytes' \in Int
        /\ temporaryFiles \in Int
    BY StorageAssumption DEF BufferType
  <2> HIDE DEF TypeOK, TempType, SpillType
  <2>5. temporaryFiles' = temporaryFiles + (SpillFiles' - SpillFiles)
    BY <1>3, <2>1, <2>3, <2>4
  <2>6. CASE UNCHANGED <<spillBytes, temporaryBytes>>
    BY <2>3, <2>4, <2>5, <2>6 DEF SpillBalance
  <2>7. CASE /\ spillBytes' = spillBytes + want[w]
             /\ temporaryBytes' = temporaryBytes + want[w]
    <3>1. temporaryBytes' <= MaxInt64
      BY <1>3, <2>4, <2>7 DEF SpillOverflow
    <3>2. temporaryBytes' = temporaryBytes + (SpillSize' - SpillSize)
      BY <2>3, <2>4, <2>7
    <3>3. QED
      BY <2>5, <3>1, <3>2 DEF SpillBalance
  <2>8. QED
    BY <1>3, <2>6, <2>7
<1>4. QED
  BY <1>2, <1>3 DEF newWorkingSection, Spill, spillVars, tempVars

LEMMA SpillActionBalance ==
  ASSUME TypeOK, TypeOK', ClosingIsClosed, OneCloser, SpillFile, SpillAction
  PROVE  SpillBalance
<1> USE DEF TypeOK, TempType, SpillType, Threads, Goto
<1>1. ASSUME NEW c \in Closers, pc[c] \in {"stages", "spill"}
      PROVE  \A d \in Closers \ {c} : pc[d] # "spill"
  BY <1>1 DEF OneCloser, Busy
<1>2. ASSUME NEW c \in Closers, RemoveSpill(c) PROVE SpillBalance
  <2>1. /\ pc[c] = "stages" /\ spillBytes' = spillBytes /\ UNCHANGED tempVars
        /\ \A d \in Closers \ {c} : pc'[d] = pc[d]
        /\ \/ file = "none" /\ file' = "none" /\ pc'[c] = "report"
           \/ file # "none" /\ file' = "removed" /\ pc'[c] = "spill"
           \/ file # "none" /\ file' = "left" /\ pc'[c] = "report"
    BY <1>2 DEF RemoveSpill
  <2>2. file \in {"none", "open"}
    BY <2>1 DEF SpillFile
  <2>3. SpillCounted' = SpillCounted
    BY <1>1, <2>1, <2>2 DEF SpillCounted, SpillOnDisk
  <2>4. SpillFiles' = SpillFiles /\ SpillSize' = SpillSize
    BY <2>1, <2>3 DEF SpillFiles, SpillSize
  <2>5. QED
    BY <2>1, <2>4, CountedTypes DEF SpillBalance, tempVars
<1>3. ASSUME NEW c \in Closers, AccountSpill(c) PROVE SpillBalance
  <2>1. /\ pc[c] = "spill" /\ pc'[c] = "report" /\ UNCHANGED <<file, spillBytes>>
        /\ \A d \in Closers \ {c} : pc'[d] = pc[d]
        /\ temporaryFiles' = temporaryFiles - 1 /\ temporaryBytes' = temporaryBytes - spillBytes
    BY <1>3 DEF AccountSpill, spillVars
  <2>2. SpillCounted /\ ~SpillCounted'
    BY <1>1, <2>1 DEF SpillFile, SpillCounted, SpillOnDisk
  <2>3. SpillFiles = 1 /\ SpillFiles' = 0 /\ SpillSize = spillBytes /\ SpillSize' = 0
    BY <2>2 DEF SpillFiles, SpillSize
  <2>4. QED
    BY <2>1, <2>3, StorageAssumption DEF SpillBalance
<1>4. QED
  BY <1>2, <1>3, SectionBalance DEF SpillAction

LEMMA CountersStep ==
  ASSUME StageInv, TypeOK', ClosingIsClosed, OneCloser, SpillFile, Counters, [Next]_vars
  PROVE  Counters'
<1> USE DEF StageInv
<1>0. /\ temporaryFiles = StageFiles + SpillFiles /\ temporaryBytes = StageBytes + SpillSize
      /\ temporaryBytes <= MaxInt64
  BY DEF Counters, StageFiles, StageBytes, SpillFiles, SpillSize
<1>1. /\ StageFiles \in Nat /\ StageBytes \in Nat /\ SpillFiles \in Nat /\ SpillSize \in Nat
      /\ StageFiles' \in Nat /\ StageBytes' \in Nat /\ SpillFiles' \in Nat /\ SpillSize' \in Nat
  BY CountedTypes, CountedTypesNext
<1>2. SpillQuiet => SpillFiles' = SpillFiles /\ SpillSize' = SpillSize
  <2>1. SpillQuiet => SpillCounted' = SpillCounted
    BY DEF SpillQuiet, SpillCounted, SpillOnDisk
  <2>2. QED
    BY <2>1 DEF SpillQuiet, SpillFiles, SpillSize
<1>3. StageQuiet => StageFiles' = StageFiles /\ StageBytes' = StageBytes
  <2>1. StageQuiet => \A st \in Stages : /\ (st \in Counted') <=> (st \in Counted)
                                         /\ stage'[st].extent = stage[st].extent
    BY DEF StageQuiet, stageVars, Counted, StagesOnDisk, StageLabels
  <2>2. QED
    BY <2>1, CountedSame
<1>4. \/ StageBalance /\ SpillFiles' = SpillFiles /\ SpillSize' = SpillSize
      \/ SpillBalance /\ StageFiles' = StageFiles /\ StageBytes' = StageBytes
  BY <1>2, <1>3, CountFrame, QuietBalance, StageActionBalance, SpillActionBalance
<1>5. /\ temporaryFiles' = StageFiles' + SpillFiles' /\ temporaryBytes' = StageBytes' + SpillSize'
      /\ temporaryBytes' <= MaxInt64
  <2>1. /\ temporaryFiles \in Int /\ temporaryBytes \in Int
        /\ temporaryFiles' \in Int /\ temporaryBytes' \in Int
    BY DEF TypeOK, TempType
  <2>0. /\ StageFiles \in Int /\ StageFiles' \in Int /\ SpillFiles \in Int /\ SpillFiles' \in Int
        /\ StageBytes \in Int /\ StageBytes' \in Int /\ SpillSize \in Int /\ SpillSize' \in Int
    BY <1>1
  <2>2. CASE StageBalance /\ SpillFiles' = SpillFiles /\ SpillSize' = SpillSize
    BY <1>0, <2>0, <2>1, <2>2 DEF StageBalance
  <2>3. CASE SpillBalance /\ StageFiles' = StageFiles /\ StageBytes' = StageBytes
    BY <1>0, <2>0, <2>1, <2>3 DEF SpillBalance
  <2>4. QED
    BY <1>4, <2>2, <2>3
<1>6. QED
  BY <1>5 DEF Counters, StageFiles, StageBytes, SpillFiles, SpillSize

---------------------------------------------------------------------------
(* The report *)

\* A closed storage with no registered stage, and no Close in progress, leaves its
\* files alone.
LEMMA DiskStays ==
  ASSUME StageInv, OneCloser, closed, registered = {}, \A c \in Closers : ~Busy(c), [Next]_vars
  PROVE  /\ UNCHANGED <<file, spillBytes>>
         /\ \A st \in Stages : stage'[st].exists = stage[st].exists /\ stage'[st].extent = stage[st].extent
<1> DEFINE Same == \A st \in Stages : /\ stage'[st].exists = stage[st].exists
                                      /\ stage'[st].extent = stage[st].extent
<1> USE DEF StageInv
<1>1. UNCHANGED <<file, spillBytes>>
  <2>1. ASSUME NEW w \in Workers, newWorkingSection(w) PROVE UNCHANGED <<file, spillBytes>>
    BY <2>1 DEF newWorkingSection, spillVars
  <2>2. ASSUME NEW c \in Closers, RemoveSpill(c) PROVE FALSE
    BY <2>2 DEF RemoveSpill, Busy
  <2>3. QED
    BY <2>1, <2>2, SpillFrame DEF spillVars
<1>2. \A t \in Threads : pc[t] \notin Ending
  BY DEF StageUse
<1>3. CASE StageQuiet
  BY <1>1, <1>3 DEF StageQuiet, stageVars
<1>4. CASE StageAction
  <2> USE DEF TypeOK, StageType
  <2>1. ASSUME NEW w \in Workers, \/ \E st \in Stages : BeginStage(w, st)
                                  \/ newCompressionStage(w) \/ BeginWriteAt(w)
        PROVE  Same
    BY <2>1 DEF BeginStage, newCompressionStage, BeginWriteAt, LockStage, stageVars
  <2>2. ASSUME NEW w \in Workers, WorkerCloseStage(w) PROVE Same
    BY <2>2 DEF WorkerCloseStage, BeginCloseStage
  <2>3. ASSUME NEW w \in Workers, NEW end, NEW reached, WriteAt(w, end, reached) PROVE Same
    BY <2>3 DEF WriteAt
  <2>4. ASSUME NEW t \in Threads, NEW next, RemoveStage(t) \/ AccountStage(t, next) PROVE FALSE
    BY <1>2, <2>4 DEF RemoveStage, AccountStage, Ending
  <2>5. ASSUME NEW c \in Closers, CloseNextStage(c) PROVE FALSE
    BY <2>5 DEF CloseNextStage, Busy
  <2>6. QED
    BY <1>1, <1>4, <2>1, <2>2, <2>3, <2>4, <2>5 DEF StageAction
<1>5. QED
  BY <1>1, <1>3, <1>4, StageFrame

LEMMA ReportStep ==
  ASSUME StageInv, TypeOK', ClosingIsClosed, OneCloser, Drained, SpillFile, Counters, ObservedIsFinal,
         [Next]_vars
  PROVE  ObservedIsFinal'
<1> USE DEF StageInv
<1>1. CASE UNCHANGED observed
  <2> SUFFICES ASSUME observed # <<>> PROVE ObservedIsFinal'
    BY <1>1 DEF ObservedIsFinal
  <2>1. closed /\ registered = {} /\ \A c \in Closers : ~Busy(c)
    BY DEF OneCloser
  <2>2. /\ UNCHANGED <<file, spillBytes>>
        /\ \A st \in Stages : stage'[st].exists = stage[st].exists /\ stage'[st].extent = stage[st].extent
    BY <2>1, DiskStays
  <2>3. StagesOnDisk' = StagesOnDisk /\ Extents' = Extents /\ SpillOnDisk' = SpillOnDisk
    BY <2>2 DEF StagesOnDisk, Extents, SpillOnDisk
  <2>4. registered' = {}
    BY <2>1, RegisteredFrame
  <2>5. QED
    BY <1>1, <2>2, <2>3, <2>4 DEF ObservedIsFinal
<1>2. ASSUME NEW c \in Closers, Observe(c) PROVE ObservedIsFinal'
  <2>1. /\ pc[c] = "report" /\ UNCHANGED <<file, spillBytes, stage, registered>>
        /\ observed' = Append(observed, [peak  |-> peakMemoryBytes, spill |-> spillBytes,
                                         bytes |-> temporaryBytes, files |-> temporaryFiles])
    BY <1>2 DEF Observe, spillVars, stageVars
  <2>2. Busy(c) /\ observed = <<>>
    BY <2>1 DEF Busy, OneCloser
  <2>3. registered = {}
    BY <2>1, <2>2 DEF Drained, Ending
  <2>4. \A t \in Threads : pc[t] \notin Ending
    BY <2>3 DEF StageUse
  <2>5. Counted = StagesOnDisk
    BY <2>4 DEF Counted, Ending
  <2>6. \A d \in Closers : pc[d] # "spill"
    <3>1. \A d \in Closers : Busy(d) => d = c
      BY <2>2 DEF OneCloser
    <3>2. QED
      BY <2>1, <3>1 DEF Busy
  <2>7. SpillCounted <=> SpillOnDisk
    BY <2>6 DEF SpillCounted
  <2>8. observed'[1].files = temporaryFiles /\ observed'[1].bytes = temporaryBytes /\ Len(observed') = 1
    BY <2>1, <2>2
  <2>9. StagesOnDisk' = StagesOnDisk /\ Extents' = Extents /\ SpillOnDisk' = SpillOnDisk
    BY <2>1 DEF StagesOnDisk, Extents, SpillOnDisk
  <2>10. QED
    BY <2>1, <2>3, <2>5, <2>7, <2>8, <2>9 DEF ObservedIsFinal, Counters
<1>3. QED
  BY <1>1, <1>2, ObservedFrame

---------------------------------------------------------------------------
(* The budget theorem *)

LEMMA BInitial == Init => BInv
<1> SUFFICES ASSUME Init PROVE BInv
  OBVIOUS
<1> USE DEF Init, Threads
<1>1. WantIsBuffer /\ Holders = {}
  BY DEF WantIsBuffer, Holders
<1>2. SectionBytes("memory") = 0
  <2>1. {i \in DOMAIN sections : sections[i].place = "memory"} = {}
    OBVIOUS
  <2>2. QED
    BY <2>1, SumOverEmpty DEF SectionBytes
<1>3. MemoryAccounting /\ SectionsLeaveRoom
  BY <1>1, <1>2, SumOverEmpty, StorageAssumption DEF MemoryAccounting, SectionsLeaveRoom
<1>4. OneCloser
  BY StorageAssumption DEF OneCloser, Busy
<1>5. StageLife /\ StageUse /\ Drained
  BY StorageAssumption DEF StageLife, StageUse, Drained, Busy, Born, Ending, NewStage
<1>6. SpillFile /\ ObservedIsFinal
  BY StorageAssumption DEF SpillFile, ObservedIsFinal
<1>7. Counted = {} /\ ~SpillCounted
  BY StorageAssumption DEF Counted, StagesOnDisk, SpillCounted, SpillOnDisk, NewStage
<1>8. Counters
  BY <1>7, SumOverEmpty, FS_EmptySet, StorageAssumption DEF Counters
<1>9. QED
  BY <1>1, <1>3, <1>4, <1>5, <1>6, <1>8 DEF BInv

LEMMA BudgetInvariant == Spec => [](IInv /\ BInv)
<1>1. Init => BInv
  BY BInitial
<1>2. IInv /\ IInv' /\ BInv /\ [Next]_vars => BInv'
  <2> SUFFICES ASSUME IInv, IInv', BInv, [Next]_vars PROVE BInv'
    OBVIOUS
  <2>1. StageInv
    BY DEF StageInv, IInv, BInv, Drained
  <2>2. WantIsBuffer' /\ MemoryAccounting' /\ SectionsLeaveRoom'
    BY WantStep, MemoryStep, RoomStep DEF IInv, BInv
  <2>3. OneCloser'
    BY OneCloserStep DEF IInv, BInv
  <2>4. StageLife' /\ StageUse'
    BY <2>1, StageStep DEF IInv
  <2>5. Drained'
    BY <2>1, DrainedStep DEF IInv, BInv
  <2>6. SpillFile'
    BY SpillFileStep DEF IInv, BInv
  <2>7. Counters'
    BY <2>1, CountersStep DEF IInv, BInv
  <2>8. ObservedIsFinal'
    BY <2>1, ReportStep DEF IInv, BInv
  <2>9. QED
    BY <2>2, <2>3, <2>4, <2>5, <2>6, <2>7, <2>8 DEF BInv
<1>3. QED
  BY <1>1, <1>2, InductiveInvariant, PTL DEF Spec

\* Guarded growth keeps the temporary counters in range.
LEMMA CountersInRange ==
  ASSUME TypeOK, Counters
  PROVE  TemporaryInRange
<1>1. temporaryFiles = StageFiles + SpillFiles /\ temporaryBytes = StageBytes + SpillSize
  BY DEF Counters, StageFiles, SpillFiles, StageBytes, SpillSize
<1>2. QED
  BY <1>1, CountedTypes, StorageAssumption DEF Counters, TemporaryInRange

\* The whole budget promise, for any number of workers, closes, stages and operations
\* and any sizes: memory never passes options.MemoryBytes, the counters of scratch files
\* stay in int64, a sleeper waits for a buffer somebody holds, and the one report counts
\* exactly what is left (working_storage.go:144-275, compression.go:119-145).
THEOREM BudgetIsHeld == Spec => []BudgetHolds
<1>1. IInv /\ BInv => BudgetHolds
  <2> SUFFICES ASSUME IInv, BInv PROVE BudgetHolds
    OBVIOUS
  <2>1. WaitersAwaitAHolder
    BY SleeperAwaitsHolder DEF IInv, BInv
  <2>2. TemporaryInRange
    BY CountersInRange DEF IInv, BInv
  <2>3. QED
    BY <2>1, <2>2 DEF BudgetHolds, BInv, IInv
<1>2. QED
  BY <1>1, BudgetInvariant, PTL

---------------------------------------------------------------------------
(* BundleScan: the inductive invariant ScanInv says that the one bundleScan *)
(* of a walk is the account of what the walk has passed so far.              *)

\* What the walk has passed; the bundles it has entered; those it is in.
Passed == {e \in tree.present : e \notin left[In[e]]}
Entered == {ScanTop} \cup {NestedBundle[e] : e \in {f \in Passed : Kind[f] = "child"}}
Open == {stack[k] : k \in DOMAIN stack}

\* The nested bundles that have been entered, and those of them that have been left.
Nested == Entered \ {ScanTop}
Finished == Nested \ Open

\* Each bundle on the stack is one deeper than the one before; a bundle that has not
\* been entered has all of its entries, and one that has been left has none.
WalkInOrder ==
  /\ stack \in Seq(ScanBundles)
  /\ Len(stack) <= limits.depth + 2
  /\ \A k \in DOMAIN stack : Depth[stack[k]] = k - 1
  /\ Open \subseteq Entered
  /\ left \in [ScanBundles -> SUBSET tree.present]
  /\ \A b \in ScanBundles : left[b] \subseteq Contents(b)
  /\ \A b \in ScanBundles \ Entered : left[b] = Contents(b)
  /\ \A b \in Entered \ Open : left[b] = {}

\* A name and the bundle it is in.
FullName(e) == <<In[e], tree.name[e]>>
FullNames == {FullName(e) : e \in Entries}

Scopes ==
  [entries : Nat, nested : Nat, bytes : 0..MaxBytes, seen : SUBSET FullNames,
   regular : SUBSET tree.present, writable : SUBSET tree.present, bad : BOOLEAN]

\* What will be written, of what the walk knows: the targets of a bundle are known
\* when it is entered, before the walk finds them.
KnownTargets ==
  {e \in tree.present : \/ Kind[e] \in {"exec", "envelope"} /\ In[e] \in Entered
                        \/ Kind[e] = "helper" /\ e \in Passed}

\* The bundleScan is the account of what has been passed.
ScopeIsAccount ==
  /\ scope.entries = Cardinality(Passed \cap NotVersions)
  /\ scope.nested = Cardinality(Passed \cap NestedCode)
  /\ scope.bytes = SumOver(tree.size, Passed \cap Measured) + Cardinality(Nested) + Cardinality(Finished)
  /\ scope.seen = {FullName(e) : e \in Passed \cap NotVersions}
  /\ scope.regular = Passed \cap Members
  /\ scope.writable = KnownTargets

\* What has been passed can be signed.
PassedIsSound ==
  /\ ~scope.bad
  /\ scope.entries <= limits.entries /\ scope.nested <= limits.nested
  /\ \A b \in Entered : Depth[b] <= limits.depth
  /\ \A e, f \in Passed \cap NotVersions : e # f => FullName(e) # FullName(f)
  /\ \A e \in scope.writable, f \in scope.regular : e # f => ~SameFile(e, f)

ScanInv ==
  /\ OnDisk /\ WalkInOrder
  /\ scope \in Scopes
  /\ scope.entries <= limits.entries + 1 /\ scope.nested <= limits.nested + 1
  /\ verdict \in {"", "accepted", "refused"}
  /\ verdict = "" => stack # <<>>
  /\ verdict = "accepted" => stack = <<>>
  /\ verdict # "refused" => ScopeIsAccount /\ PassedIsSound
  /\ verdict = "refused" => ~CanBeSigned

---------------------------------------------------------------------------
(* What the operations of a bundleScan do *)

LEMMA BadScope ==
  ASSUME NEW s \in Scopes, NEW p \in BOOLEAN
  PROVE  /\ Bad(s, p) \in Scopes
         /\ Bad(s, p).bad <=> s.bad \/ p
         /\ Bad(s, p).entries = s.entries /\ Bad(s, p).nested = s.nested /\ Bad(s, p).bytes = s.bytes
         /\ Bad(s, p).seen = s.seen /\ Bad(s, p).regular = s.regular /\ Bad(s, p).writable = s.writable
BY DEF Bad, Scopes

LEMMA CountEntryScope ==
  ASSUME NEW s \in Scopes, NEW e \in Entries, limits.entries \in Nat
  PROVE  LET r == CountEntry(s, e) IN
         /\ r \in Scopes
         /\ r.bad <=> s.bad \/ s.entries + 1 > limits.entries \/ FullName(e) \in s.seen
         /\ r.entries = s.entries + 1 /\ r.nested = s.nested /\ r.bytes = s.bytes
         /\ r.seen = s.seen \cup {FullName(e)} /\ r.regular = s.regular /\ r.writable = s.writable
<1> DEFINE c == [s EXCEPT !.entries = @ + 1, !.seen = @ \cup {FullName(e)}]
           p == c.entries > limits.entries \/ FullName(e) \in s.seen
<1>0. FullName(e) \in FullNames
  BY DEF FullNames
<1> DEFINE n == s.entries + 1
           names == s.seen \cup {FullName(e)}
<1>a. n \in Nat /\ names \in SUBSET FullNames
  BY <1>0 DEF Scopes
<1> HIDE DEF n, names
<1>b. [s EXCEPT !.entries = n, !.seen = names] \in Scopes
  BY <1>a DEF Scopes
<1>1. c \in Scopes
  BY <1>b DEF n, names
<1>2. /\ c.bad = s.bad /\ c.entries = s.entries + 1 /\ c.nested = s.nested /\ c.bytes = s.bytes
      /\ c.seen = s.seen \cup {FullName(e)} /\ c.regular = s.regular /\ c.writable = s.writable
  BY DEF Scopes
<1>3. CountEntry(s, e) = Bad(c, p)
  BY DEF CountEntry, FullName
<1>4. p \in BOOLEAN
  OBVIOUS
<1>5. p <=> s.entries + 1 > limits.entries \/ FullName(e) \in s.seen
  BY <1>2
<1> HIDE DEF c, p
<1>6. QED
  BY <1>1, <1>2, <1>3, <1>4, <1>5, BadScope

LEMMA AddBytesScope ==
  ASSUME NEW s \in Scopes, NEW n \in Nat, MaxBytes \in Nat
  PROVE  LET r == addBytes(s, n) IN
         /\ r \in Scopes
         /\ r.bad <=> s.bad \/ s.bytes + n > MaxBytes
         /\ r.bytes = IF s.bytes + n > MaxBytes THEN s.bytes ELSE s.bytes + n
         /\ r.entries = s.entries /\ r.nested = s.nested
         /\ r.seen = s.seen /\ r.regular = s.regular /\ r.writable = s.writable
<1>1. s.bytes \in Nat
  BY DEF Scopes
<1>2. CASE s.bytes + n > MaxBytes
  <2>1. s.bytes > MaxBytes - n
    BY <1>1, <1>2
  <2>2. addBytes(s, n) = Bad(s, TRUE)
    BY <2>1 DEF addBytes
  <2>3. /\ Bad(s, TRUE) \in Scopes /\ Bad(s, TRUE).bad
        /\ Bad(s, TRUE).entries = s.entries /\ Bad(s, TRUE).nested = s.nested
        /\ Bad(s, TRUE).bytes = s.bytes /\ Bad(s, TRUE).seen = s.seen
        /\ Bad(s, TRUE).regular = s.regular /\ Bad(s, TRUE).writable = s.writable
    BY BadScope
  <2>4. QED
    BY <1>2, <2>2, <2>3
<1>3. CASE ~(s.bytes + n > MaxBytes)
  <2>1. ~(s.bytes > MaxBytes - n)
    BY <1>1, <1>3
  <2>2. addBytes(s, n) = [s EXCEPT !.bytes = @ + n]
    BY <2>1 DEF addBytes
  <2>3. QED
    BY <1>1, <1>3, <2>2 DEF Scopes
<1>4. QED
  BY <1>2, <1>3

LEMMA AddChildScope ==
  ASSUME NEW s \in Scopes, limits.nested \in Nat
  PROVE  LET r == addChild(s) IN
         /\ r \in Scopes
         /\ r.bad <=> s.bad \/ s.nested + 1 > limits.nested
         /\ r.nested = s.nested + 1 /\ r.entries = s.entries /\ r.bytes = s.bytes
         /\ r.seen = s.seen /\ r.regular = s.regular /\ r.writable = s.writable
<1> DEFINE c == [s EXCEPT !.nested = @ + 1]
<1>1. c \in Scopes
  BY DEF Scopes
<1>2. /\ c.bad = s.bad /\ c.entries = s.entries /\ c.nested = s.nested + 1 /\ c.bytes = s.bytes
      /\ c.seen = s.seen /\ c.regular = s.regular /\ c.writable = s.writable
  BY DEF Scopes
<1> DEFINE p == s.nested + 1 > limits.nested
<1>3. addChild(s) = Bad(c, p) /\ p \in BOOLEAN
  BY DEF addChild
<1>4. p <=> s.nested + 1 > limits.nested
  OBVIOUS
<1> HIDE DEF c, p
<1>5. QED
  BY <1>1, <1>2, <1>3, <1>4, BadScope

\* Some file that is not e itself is its hard link.
Linked(e, S) == \E f \in S \ {e} : SameFile(e, f)

LEMMA RegularFileScope ==
  ASSUME NEW s \in Scopes, NEW e \in tree.present
  PROVE  LET r == regularFile(s, e) IN
         /\ r \in Scopes
         /\ r.bad <=> s.bad \/ Linked(e, s.writable)
         /\ r.regular = s.regular \cup {e} /\ r.writable = s.writable
         /\ r.entries = s.entries /\ r.nested = s.nested /\ r.bytes = s.bytes /\ r.seen = s.seen
<1> DEFINE c == [s EXCEPT !.regular = @ \cup {e}]
<1>1. c \in Scopes
  BY DEF Scopes
<1>2. /\ c.bad = s.bad /\ c.entries = s.entries /\ c.nested = s.nested /\ c.bytes = s.bytes
      /\ c.seen = s.seen /\ c.regular = s.regular \cup {e} /\ c.writable = s.writable
  BY DEF Scopes
<1>3. regularFile(s, e) = Bad(c, Linked(e, s.writable))
  BY DEF regularFile, Linked
<1>4. Linked(e, s.writable) \in BOOLEAN
  BY DEF Linked
<1> HIDE DEF c
<1>5. QED
  BY <1>1, <1>2, <1>3, <1>4, BadScope

LEMMA WriteTargetScope ==
  ASSUME NEW s \in Scopes, NEW e \in tree.present
  PROVE  LET r == writeTarget(s, e) IN
         /\ r \in Scopes
         /\ r.bad <=> s.bad \/ Linked(e, s.regular)
         /\ r.writable = s.writable \cup {e} /\ r.regular = s.regular
         /\ r.entries = s.entries /\ r.nested = s.nested /\ r.bytes = s.bytes /\ r.seen = s.seen
<1> DEFINE c == [s EXCEPT !.writable = @ \cup {e}]
<1>1. c \in Scopes
  BY DEF Scopes
<1>2. /\ c.bad = s.bad /\ c.entries = s.entries /\ c.nested = s.nested /\ c.bytes = s.bytes
      /\ c.seen = s.seen /\ c.writable = s.writable \cup {e} /\ c.regular = s.regular
  BY DEF Scopes
<1>3. writeTarget(s, e) = Bad(c, Linked(e, s.regular))
  BY DEF writeTarget, Linked
<1>4. Linked(e, s.regular) \in BOOLEAN
  BY DEF Linked
<1> HIDE DEF c
<1>5. QED
  BY <1>1, <1>2, <1>3, <1>4, BadScope

LEMMA TargetsOfScope ==
  ASSUME NEW s \in Scopes, NEW b
  PROVE  LET r == TargetsOf(s, b) IN
         /\ r \in Scopes
         /\ r.bad <=> s.bad \/ \E e \in Targets(b) : Linked(e, s.regular)
         /\ r.writable = s.writable \cup Targets(b) /\ r.regular = s.regular
         /\ r.entries = s.entries /\ r.nested = s.nested /\ r.bytes = s.bytes /\ r.seen = s.seen
<1> DEFINE c == [s EXCEPT !.writable = @ \cup Targets(b)]
           p == \E e \in Targets(b) : Linked(e, s.regular)
<1>0. Targets(b) \subseteq tree.present
  BY DEF Targets, Contents
<1>1. c \in Scopes
  BY <1>0 DEF Scopes
<1>2. /\ c.bad = s.bad /\ c.entries = s.entries /\ c.nested = s.nested /\ c.bytes = s.bytes
      /\ c.seen = s.seen /\ c.writable = s.writable \cup Targets(b) /\ c.regular = s.regular
  BY DEF Scopes
<1>3. TargetsOf(s, b) = Bad(c, p)
  BY DEF TargetsOf, Linked
<1>4. p \in BOOLEAN
  OBVIOUS
<1> HIDE DEF c, p
<1>5. Bad(c, p) \in Scopes /\ (Bad(c, p).bad <=> c.bad \/ p)
  BY <1>1, <1>4, BadScope
<1>6. /\ Bad(c, p).writable = c.writable /\ Bad(c, p).regular = c.regular
      /\ Bad(c, p).entries = c.entries /\ Bad(c, p).nested = c.nested
      /\ Bad(c, p).bytes = c.bytes /\ Bad(c, p).seen = c.seen
  BY <1>1, <1>4, BadScope
<1>7. QED
  BY <1>2, <1>3, <1>5, <1>6 DEF p

LEMMA EnterScope ==
  ASSUME NEW s \in Scopes, NEW b, NEW d \in Nat, limits.nested \in Nat, limits.depth \in Nat,
         MaxBytes \in Nat
  PROVE  LET r == Enter(s, b, d) IN
         /\ r \in Scopes
         /\ r.bad <=> \/ s.bad \/ s.nested + 1 > limits.nested \/ d > limits.depth
                      \/ s.bytes + 1 > MaxBytes \/ \E e \in Targets(b) : Linked(e, s.regular)
         /\ r.nested = s.nested + 1
         /\ r.bytes = IF s.bytes + 1 > MaxBytes THEN s.bytes ELSE s.bytes + 1
         /\ r.writable = s.writable \cup Targets(b)
         /\ r.entries = s.entries /\ r.seen = s.seen /\ r.regular = s.regular
<1> DEFINE c1 == addChild(s)
           c2 == Bad(c1, d > limits.depth)
           c3 == addBytes(c2, 1)
<1>1. /\ c1 \in Scopes /\ c1.regular = s.regular
      /\ c1.bad <=> s.bad \/ s.nested + 1 > limits.nested
      /\ c1.nested = s.nested + 1 /\ c1.bytes = s.bytes
      /\ c1.entries = s.entries /\ c1.seen = s.seen /\ c1.writable = s.writable
  BY AddChildScope
<1> HIDE DEF c1
<1> DEFINE p == d > limits.depth
<1>p. p \in BOOLEAN
  OBVIOUS
<1> HIDE DEF p
<1>2. /\ c2 \in Scopes /\ c2.regular = c1.regular
      /\ c2.bad <=> c1.bad \/ d > limits.depth
      /\ c2.nested = c1.nested /\ c2.bytes = c1.bytes
      /\ c2.entries = c1.entries /\ c2.seen = c1.seen /\ c2.writable = c1.writable
  BY <1>1, <1>p, BadScope DEF p
<1> HIDE DEF c2
<1> HIDE DEF p
<1>3. /\ c3 \in Scopes /\ c3.regular = c2.regular
      /\ c3.bad <=> c2.bad \/ c2.bytes + 1 > MaxBytes
      /\ c3.bytes = IF c2.bytes + 1 > MaxBytes THEN c2.bytes ELSE c2.bytes + 1
      /\ c3.nested = c2.nested
      /\ c3.entries = c2.entries /\ c3.seen = c2.seen /\ c3.writable = c2.writable
  <2> DEFINE n == 1
  <2>1. c2 \in Scopes /\ n \in Nat
    BY <1>2
  <2> HIDE DEF n
  <2>2. /\ addBytes(c2, n) \in Scopes /\ addBytes(c2, n).regular = c2.regular
        /\ addBytes(c2, n).bad <=> c2.bad \/ c2.bytes + n > MaxBytes
        /\ addBytes(c2, n).bytes = IF c2.bytes + n > MaxBytes THEN c2.bytes ELSE c2.bytes + n
    BY <2>1, AddBytesScope
  <2>3. /\ addBytes(c2, n).nested = c2.nested /\ addBytes(c2, n).entries = c2.entries
        /\ addBytes(c2, n).seen = c2.seen /\ addBytes(c2, n).writable = c2.writable
    BY <2>1, AddBytesScope
  <2>4. QED
    BY <2>2, <2>3 DEF n
<1>4. Enter(s, b, d) = TargetsOf(c3, b)
  BY DEF Enter, c1, c2
<1> HIDE DEF c3
<1>5. /\ TargetsOf(c3, b) \in Scopes /\ TargetsOf(c3, b).regular = c3.regular
      /\ TargetsOf(c3, b).bad <=> c3.bad \/ \E e \in Targets(b) : Linked(e, c3.regular)
      /\ TargetsOf(c3, b).writable = c3.writable \cup Targets(b)
  BY <1>3, TargetsOfScope
<1>6. /\ TargetsOf(c3, b).bytes = c3.bytes /\ TargetsOf(c3, b).nested = c3.nested
      /\ TargetsOf(c3, b).entries = c3.entries /\ TargetsOf(c3, b).seen = c3.seen
  BY <1>3, TargetsOfScope
<1>7. QED
  BY <1>1, <1>2, <1>3, <1>4, <1>5, <1>6

---------------------------------------------------------------------------
(* What the visit of an entry does to the bundleScan *)

\* The entry is counted, and a regular file compared with the write targets.
Inspected(s, e) ==
  LET c == IF Kind[e] = "version" THEN addChild(s) ELSE CountEntry(s, e)
  IN IF Regular(e) THEN regularFile(c, e) ELSE c

\* What the visit adds to the byte count.
Amount(e) ==
  CASE Kind[e] \in {"plain", "link", "versionfile", "helper"} -> tree.size[e]
    [] Kind[e] = "child" -> 1
    [] OTHER -> 0

LEMMA InspectedScope ==
  ASSUME NEW s \in Scopes, OnDisk, NEW e \in tree.present
  PROVE  LET r == Inspected(s, e) IN
         /\ r \in Scopes
         /\ r.bad <=> \/ s.bad
                      \/ Kind[e] # "version" /\ (s.entries + 1 > limits.entries \/ FullName(e) \in s.seen)
                      \/ Kind[e] = "version" /\ s.nested + 1 > limits.nested
                      \/ Regular(e) /\ Linked(e, s.writable)
         /\ r.entries = IF Kind[e] = "version" THEN s.entries ELSE s.entries + 1
         /\ r.nested = IF Kind[e] = "version" THEN s.nested + 1 ELSE s.nested
         /\ r.seen = IF Kind[e] = "version" THEN s.seen ELSE s.seen \cup {FullName(e)}
         /\ r.regular = IF Regular(e) THEN s.regular \cup {e} ELSE s.regular
         /\ r.writable = s.writable /\ r.bytes = s.bytes
<1> DEFINE c == IF Kind[e] = "version" THEN addChild(s) ELSE CountEntry(s, e)
<1>1. e \in Entries /\ limits.entries \in Nat /\ limits.nested \in Nat
  BY DEF OnDisk
<1>2. /\ c \in Scopes
      /\ c.bad <=> \/ s.bad
                   \/ Kind[e] # "version" /\ (s.entries + 1 > limits.entries \/ FullName(e) \in s.seen)
                   \/ Kind[e] = "version" /\ s.nested + 1 > limits.nested
      /\ c.entries = IF Kind[e] = "version" THEN s.entries ELSE s.entries + 1
      /\ c.nested = IF Kind[e] = "version" THEN s.nested + 1 ELSE s.nested
      /\ c.seen = IF Kind[e] = "version" THEN s.seen ELSE s.seen \cup {FullName(e)}
      /\ c.regular = s.regular /\ c.writable = s.writable /\ c.bytes = s.bytes
  <2>1. CASE Kind[e] = "version"
    <3>1. c = addChild(s)
      BY <2>1
    <3> HIDE DEF c
    <3>2. QED
      BY <1>1, <2>1, <3>1, AddChildScope
  <2>2. CASE Kind[e] # "version"
    <3>1. c = CountEntry(s, e)
      BY <2>2
    <3> HIDE DEF c
    <3>2. QED
      BY <1>1, <2>2, <3>1, CountEntryScope
  <2>3. QED
    BY <2>1, <2>2
<1>3. Inspected(s, e) = IF Regular(e) THEN regularFile(c, e) ELSE c
  BY DEF Inspected
<1> HIDE DEF c
<1>4. CASE Regular(e)
  <2>1. Inspected(s, e) = regularFile(c, e)
    BY <1>3, <1>4
  <2> DEFINE r == regularFile(c, e)
  <2>2. /\ r \in Scopes
        /\ r.bad <=> c.bad \/ Linked(e, c.writable)
        /\ r.regular = c.regular \cup {e} /\ r.writable = c.writable
        /\ r.entries = c.entries /\ r.nested = c.nested /\ r.bytes = c.bytes /\ r.seen = c.seen
    BY <1>2, RegularFileScope
  <2> HIDE DEF r
  <2>3. QED
    BY <1>2, <1>4, <2>1, <2>2 DEF r
<1>5. CASE ~Regular(e)
  BY <1>2, <1>3, <1>5
<1>6. QED
  BY <1>4, <1>5

\* The write targets that the visit adds.
Committed(e) ==
  CASE Kind[e] = "helper" -> {e}
    [] Kind[e] = "child" -> Targets(NestedBundle[e])
    [] OTHER -> {}

\* What the visit of e refuses, after s.
Refuses(s, e, regular) ==
  \/ Kind[e] # "version" /\ (s.entries + 1 > limits.entries \/ FullName(e) \in s.seen)
  \/ Kind[e] \in {"child", "helper", "version"} /\ s.nested + 1 > limits.nested
  \/ Kind[e] = "child" /\ Len(stack) > limits.depth
  \/ Regular(e) /\ Linked(e, s.writable)
  \/ \E t \in Committed(e) : Linked(t, regular)
  \/ s.bytes + Amount(e) > MaxBytes

\* The scope after the visit of an entry.
IsVisited(s, e, r) ==
  /\ r \in Scopes
  /\ r.bad <=> s.bad \/ Refuses(s, e, r.regular)
  /\ r.entries = IF Kind[e] = "version" THEN s.entries ELSE s.entries + 1
  /\ r.nested = IF Kind[e] \in {"child", "helper", "version"} THEN s.nested + 1 ELSE s.nested
  /\ r.bytes = IF s.bytes + Amount(e) > MaxBytes THEN s.bytes ELSE s.bytes + Amount(e)
  /\ r.seen = IF Kind[e] = "version" THEN s.seen ELSE s.seen \cup {FullName(e)}
  /\ r.regular = IF Regular(e) THEN s.regular \cup {e} ELSE s.regular
  /\ r.writable = s.writable \cup Committed(e)

LEMMA VisitedScope ==
  ASSUME NEW s \in Scopes, OnDisk, NEW e \in tree.present, stack \in Seq(ScanBundles)
  PROVE  IsVisited(s, e, Visited(s, e))
<1> DEFINE r == Inspected(s, e)
           size == tree.size[e]
           b == NestedBundle[e]
<1>1. /\ e \in Entries /\ size \in Nat /\ Kind[e] \in Kinds /\ MaxBytes \in Nat
      /\ limits.entries \in Nat /\ limits.nested \in Nat /\ limits.depth \in Nat
  BY ScanAssumption DEF OnDisk
<1>2. s.entries \in Nat /\ s.nested \in Nat /\ s.bytes \in Nat /\ s.bytes <= MaxBytes
  BY <1>1 DEF Scopes
<1>3. /\ r \in Scopes
      /\ r.bad <=> \/ s.bad
                   \/ Kind[e] # "version" /\ (s.entries + 1 > limits.entries \/ FullName(e) \in s.seen)
                   \/ Kind[e] = "version" /\ s.nested + 1 > limits.nested
                   \/ Regular(e) /\ Linked(e, s.writable)
      /\ r.entries = IF Kind[e] = "version" THEN s.entries ELSE s.entries + 1
      /\ r.nested = IF Kind[e] = "version" THEN s.nested + 1 ELSE s.nested
      /\ r.seen = IF Kind[e] = "version" THEN s.seen ELSE s.seen \cup {FullName(e)}
      /\ r.regular = IF Regular(e) THEN s.regular \cup {e} ELSE s.regular
      /\ r.writable = s.writable /\ r.bytes = s.bytes
  BY InspectedScope
<1> HIDE DEF size, b
<1>4. Visited(s, e) =
        CASE Kind[e] \in {"layout", "dir", "version", "exec", "envelope", "stale"} -> r
          [] Kind[e] \in {"plain", "link", "versionfile"} -> addBytes(r, size)
          [] Kind[e] = "helper" -> addBytes(addChild(writeTarget(r, e)), size)
          [] Kind[e] = "child" -> Enter(r, b, Len(stack))
  BY DEF Visited, Inspected, size, b
<1> HIDE DEF r
<1>5. CASE Kind[e] \in {"layout", "dir", "version", "exec", "envelope", "stale"}
  <2>1. Visited(s, e) = r
    BY <1>4, <1>5
  <2>2. Amount(e) = 0 /\ Committed(e) = {}
    BY <1>5 DEF Amount, Committed
  <2>3. s.bytes + Amount(e) = s.bytes /\ ~(s.bytes + Amount(e) > MaxBytes)
    BY <1>1, <1>2, <2>2
  <2>4. Kind[e] # "child" /\ (Kind[e] \in {"child", "helper", "version"} <=> Kind[e] = "version")
    BY <1>5
  <2>5. Refuses(s, e, r.regular) <=>
          \/ Kind[e] # "version" /\ (s.entries + 1 > limits.entries \/ FullName(e) \in s.seen)
          \/ Kind[e] = "version" /\ s.nested + 1 > limits.nested
          \/ Regular(e) /\ Linked(e, s.writable)
    BY <2>2, <2>3, <2>4 DEF Refuses
  <2>6. QED
    BY <1>3, <2>1, <2>2, <2>3, <2>4, <2>5 DEF IsVisited
<1>6. CASE Kind[e] \in {"plain", "link", "versionfile"}
  <2>1. Visited(s, e) = addBytes(r, size)
    BY <1>4, <1>6
  <2>2. Amount(e) = size /\ Committed(e) = {}
    BY <1>6 DEF Amount, Committed, size
  <2> DEFINE v == addBytes(r, size)
  <2>3. /\ v \in Scopes
        /\ v.bad <=> r.bad \/ r.bytes + size > MaxBytes
        /\ v.bytes = IF r.bytes + size > MaxBytes THEN r.bytes ELSE r.bytes + size
        /\ v.entries = r.entries /\ v.nested = r.nested
        /\ v.seen = r.seen /\ v.regular = r.regular /\ v.writable = r.writable
    BY <1>1, <1>3, AddBytesScope
  <2> HIDE DEF v
  <2>4. v = Visited(s, e)
    BY <2>1 DEF v
  <2>5. QED
    BY <1>2, <1>3, <1>6, <2>2, <2>3, <2>4 DEF IsVisited, Refuses
<1>7. CASE Kind[e] = "helper"
  <2>1. Visited(s, e) = addBytes(addChild(writeTarget(r, e)), size)
    BY <1>4, <1>7
  <2>2. Amount(e) = size /\ Committed(e) = {e} /\ Regular(e)
    BY <1>7 DEF Amount, Committed, size, Regular
  <2> DEFINE w == writeTarget(r, e)
             c == addChild(w)
             v == addBytes(c, size)
  <2>3. /\ w \in Scopes
        /\ w.bad <=> r.bad \/ Linked(e, r.regular)
        /\ w.writable = r.writable \cup {e} /\ w.regular = r.regular
        /\ w.entries = r.entries /\ w.nested = r.nested /\ w.bytes = r.bytes /\ w.seen = r.seen
    BY <1>3, WriteTargetScope
  <2> HIDE DEF w
  <2>4. /\ c \in Scopes
        /\ c.bad <=> w.bad \/ w.nested + 1 > limits.nested
        /\ c.nested = w.nested + 1 /\ c.entries = w.entries /\ c.bytes = w.bytes
        /\ c.seen = w.seen /\ c.regular = w.regular /\ c.writable = w.writable
    BY <1>1, <2>3, AddChildScope
  <2> HIDE DEF c
  <2>5. /\ v \in Scopes
        /\ v.bad <=> c.bad \/ c.bytes + size > MaxBytes
        /\ v.bytes = IF c.bytes + size > MaxBytes THEN c.bytes ELSE c.bytes + size
        /\ v.entries = c.entries /\ v.nested = c.nested
        /\ v.seen = c.seen /\ v.regular = c.regular /\ v.writable = c.writable
    BY <1>1, <2>4, AddBytesScope
  <2> HIDE DEF v
  <2>6. v = Visited(s, e)
    BY <2>1 DEF v, c, w
  <2>7. QED
    BY <1>2, <1>3, <1>7, <2>2, <2>3, <2>4, <2>5, <2>6 DEF IsVisited, Refuses
<1>8. CASE Kind[e] = "child"
  <2>1. Visited(s, e) = Enter(r, b, Len(stack))
    BY <1>4, <1>8
  <2>2. Amount(e) = 1 /\ Committed(e) = Targets(b) /\ ~Regular(e)
    BY <1>8 DEF Amount, Committed, Regular, b
  <2> DEFINE d == Len(stack)
             v == Enter(r, b, d)
  <2>3. d \in Nat
    OBVIOUS
  <2> HIDE DEF d
  <2>4. /\ v \in Scopes
        /\ v.bad <=> \/ r.bad \/ r.nested + 1 > limits.nested \/ d > limits.depth
                     \/ r.bytes + 1 > MaxBytes \/ \E t \in Targets(b) : Linked(t, r.regular)
        /\ v.nested = r.nested + 1
        /\ v.bytes = IF r.bytes + 1 > MaxBytes THEN r.bytes ELSE r.bytes + 1
        /\ v.writable = r.writable \cup Targets(b)
        /\ v.entries = r.entries /\ v.seen = r.seen /\ v.regular = r.regular
    BY <1>1, <1>3, <2>3, EnterScope
  <2> HIDE DEF v
  <2>5. v = Visited(s, e) /\ d = Len(stack)
    BY <2>1 DEF v, d
  <2>6. QED
    BY <1>2, <1>3, <1>8, <2>2, <2>4, <2>5 DEF IsVisited, Refuses
<1>9. QED
  BY <1>1, <1>5, <1>6, <1>7, <1>8 DEF Kinds

---------------------------------------------------------------------------
(* The walk *)

LEMMA PushStack ==
  ASSUME NEW S, NEW q \in Seq(S), NEW b \in S
  PROVE  /\ Append(q, b) \in Seq(S) /\ Len(Append(q, b)) = Len(q) + 1
         /\ \A k \in 1..Len(q) : Append(q, b)[k] = q[k]
         /\ Append(q, b)[Len(q) + 1] = b
OBVIOUS

LEMMA PopStack ==
  ASSUME NEW S, NEW q \in Seq(S), q # <<>>
  PROVE  LET p == SubSeq(q, 1, Len(q) - 1) IN
         /\ p \in Seq(S) /\ Len(p) = Len(q) - 1
         /\ \A k \in 1..Len(q) - 1 : p[k] = q[k]
         /\ Len(q) \in Nat \ {0} /\ q[Len(q)] \in S
<1>1. Len(q) \in Nat /\ Len(q) # 0
  OBVIOUS
<1>2. \A k \in 1..Len(q) : q[k] \in S
  OBVIOUS
<1> DEFINE n == Len(q) - 1
<1>3. n \in Nat /\ 1..n \subseteq 1..Len(q) /\ n = Len(q) - 1
  BY <1>1
<1> HIDE DEF n
<1>4. SubSeq(q, 1, n) = [k \in 1..n |-> q[k]]
  BY <1>1, <1>3
<1>5. SubSeq(q, 1, n) \in Seq(S) /\ Len(SubSeq(q, 1, n)) = n
  BY <1>1, <1>2, <1>3
<1>6. \A k \in 1..n : SubSeq(q, 1, n)[k] = q[k]
  BY <1>4
<1>7. QED
  BY <1>1, <1>2, <1>5, <1>6 DEF n

\* Nothing on the disk changes while it is scanned.
LEMMA TreeStays ==
  ASSUME tree' = tree, limits' = limits
  PROVE  /\ OnDisk' <=> OnDisk
         /\ CanBeSigned' <=> CanBeSigned
         /\ Scopes' = Scopes
         /\ NotVersions' = NotVersions /\ NestedCode' = NestedCode /\ Measured' = Measured
         /\ Members' = Members /\ Reached' = Reached
         /\ \A b : Contents(b)' = Contents(b)
<1>1. NotVersions' = NotVersions /\ NestedCode' = NestedCode /\ Measured' = Measured /\ Members' = Members
  BY DEF NotVersions, NestedCode, Measured, Members
<1>2. Reached' = Reached /\ Rewritten' = Rewritten /\ \A b : Contents(b)' = Contents(b)
  BY DEF Reached, Rewritten, Contents
<1>3. Bytes' = Bytes
  BY <1>1, <1>2 DEF Bytes
<1>4. OnDisk' <=> OnDisk
  BY <1>2 DEF OnDisk
<1>5. Scopes' = Scopes
  BY DEF Scopes, FullNames, FullName
<1>6. WithinLimits' <=> WithinLimits
  BY <1>1, <1>2, <1>3 DEF WithinLimits
<1>7. Distinct' <=> Distinct
  BY <1>1 DEF Distinct
<1>8. Apart' <=> Apart
  BY <1>1, <1>2 DEF Apart, SameFile
<1>9. QED
  BY <1>1, <1>2, <1>4, <1>5, <1>6, <1>7, <1>8 DEF CanBeSigned

\* A bundle that is entered has not been entered before, and is one deeper than the last.
LEMMA VisitEnters ==
  ASSUME OnDisk, WalkInOrder, NEW e \in Entries, Visit(e)
  PROVE  /\ e \in tree.present /\ e \notin Passed
         /\ In[e] = Current /\ Current \in Open /\ Depth[Current] = Len(stack) - 1
         /\ Len(stack) \in Nat \ {0}
         /\ Kind[e] = "child" =>
              /\ NestedBundle[e] \in ScanBundles \ Entered /\ NestedBundle[e] # ScanTop
              /\ Depth[NestedBundle[e]] = Len(stack)
<1>1. Len(stack) \in Nat \ {0} /\ Current \in ScanBundles
  BY PopStack DEF Visit, WalkInOrder, Current
<1>2. e \in left[Current] /\ left[Current] \subseteq Contents(Current)
  BY <1>1 DEF Visit, WalkInOrder
<1>3. e \in tree.present /\ In[e] = Current /\ e \notin Passed
  BY <1>2 DEF Contents, Passed
<1>4. Len(stack) \in DOMAIN stack
  BY <1>1 DEF WalkInOrder
<1>5. Current \in Open /\ Depth[Current] = Len(stack) - 1
  BY <1>4 DEF Current, Open, WalkInOrder
<1>6. ASSUME Kind[e] = "child"
      PROVE  /\ NestedBundle[e] \in ScanBundles \ Entered /\ NestedBundle[e] # ScanTop
             /\ Depth[NestedBundle[e]] = Len(stack)
  <2>1. e \in ChildEntries
    BY <1>6 DEF ChildEntries
  <2>2. NestedBundle[e] \in ScanBundles \ {ScanTop} /\ Depth[NestedBundle[e]] = Depth[In[e]] + 1
    BY <2>1, ScanAssumption
  <2>3. ASSUME NEW f \in Passed, Kind[f] = "child" PROVE NestedBundle[f] # NestedBundle[e]
    <3>1. f \in ChildEntries /\ f # e
      BY <1>3, <2>3 DEF ChildEntries, Passed, OnDisk
    <3>2. QED
      BY <2>1, <3>1, ScanAssumption
  <2>4. NestedBundle[e] \notin Entered
    BY <2>2, <2>3 DEF Entered
  <2>5. QED
    BY <1>1, <1>3, <1>5, <2>2, <2>4
<1>7. QED
  BY <1>1, <1>3, <1>5, <1>6

\* The bundles that the visit of e enters.
Entering(e) == {NestedBundle[f] : f \in {g \in {e} : Kind[g] = "child"}}

LEMMA VisitPasses ==
  ASSUME OnDisk, WalkInOrder, NEW e \in Entries, Visit(e)
  PROVE  /\ Passed' = Passed \cup {e}
         /\ Entered' = Entered \cup Entering(e)
         /\ Open' = Open \cup Entering(e)
<1>1. /\ e \in tree.present /\ In[e] = Current /\ Current \in ScanBundles
      /\ tree' = tree /\ left' = [left EXCEPT ![Current] = @ \ {e}]
  BY VisitEnters, PopStack DEF Visit, WalkInOrder, Current
<1>2. \A b \in ScanBundles : left'[b] = IF b = Current THEN left[b] \ {e} ELSE left[b]
  BY <1>1 DEF WalkInOrder
<1>3. \A f \in tree.present : In[f] \in ScanBundles
  BY ScanAssumption DEF OnDisk
<1>4. Passed' = Passed \cup {e}
  BY <1>1, <1>2, <1>3 DEF Passed
<1>5. Entered' = Entered \cup Entering(e)
  BY <1>4 DEF Entered, Entering
<1>6. Open' = Open \cup Entering(e)
  <2>1. CASE Kind[e] = "child"
    <3> DEFINE b == NestedBundle[e]
               n == Len(stack)
    <3>1. b \in ScanBundles /\ stack' = Append(stack, b) /\ stack \in Seq(ScanBundles)
      BY <2>1, VisitEnters DEF Visit, WalkInOrder
    <3>2. Entering(e) = {b}
      BY <2>1 DEF Entering
    <3> HIDE DEF b
    <3>3. /\ stack' \in Seq(ScanBundles) /\ Len(stack') = n + 1 /\ n \in Nat
          /\ \A k \in 1..n : stack'[k] = stack[k]
          /\ stack'[n + 1] = b
      BY <3>1, PushStack
    <3>4. DOMAIN stack = 1..n /\ DOMAIN stack' = 1..(n + 1)
      BY <3>1, <3>3
    <3> HIDE DEF n
    <3>5. 1..(n + 1) = 1..n \cup {n + 1}
      BY <3>3
    <3>6. Open' = {stack'[k] : k \in 1..(n + 1)} /\ Open = {stack[k] : k \in 1..n}
      BY <3>4 DEF Open
    <3>7. QED
      BY <3>2, <3>3, <3>5, <3>6
  <2>2. CASE Kind[e] # "child"
    <3>1. Entering(e) = {} /\ stack' = stack
      BY <2>2 DEF Entering, Visit
    <3>2. QED
      BY <3>1 DEF Open
  <2>3. QED
    BY <2>1, <2>2
<1>7. QED
  BY <1>4, <1>5, <1>6

LEMMA VisitWalk ==
  ASSUME OnDisk, WalkInOrder, PassedIsSound, NEW e \in Entries, Visit(e)
  PROVE  WalkInOrder'
<1> DEFINE n == Len(stack)
           b == NestedBundle[e]
<1>1. /\ e \in tree.present /\ In[e] = Current /\ Current \in Open
      /\ n \in Nat \ {0} /\ Depth[Current] = n - 1
      /\ Kind[e] = "child" => b \in ScanBundles \ Entered /\ Depth[b] = n
  BY VisitEnters
<1>2. /\ Passed' = Passed \cup {e} /\ Entered' = Entered \cup Entering(e)
      /\ Open' = Open \cup Entering(e)
  BY VisitPasses
<1>3. /\ tree' = tree /\ limits' = limits /\ left' = [left EXCEPT ![Current] = @ \ {e}]
      /\ Current \in ScanBundles
  BY PopStack DEF Visit, WalkInOrder, Current
<1>4. Entering(e) = IF Kind[e] = "child" THEN {b} ELSE {}
  BY DEF Entering
<1>5. /\ stack' \in Seq(ScanBundles) /\ Len(stack') <= limits'.depth + 2
      /\ \A k \in DOMAIN stack' : Depth[stack'[k]] = k - 1
  <2>1. n <= limits.depth + 1 /\ limits.depth \in Nat
    BY <1>1 DEF WalkInOrder, PassedIsSound, OnDisk
  <2>2. CASE Kind[e] = "child"
    <3>1. stack' = Append(stack, b) /\ stack \in Seq(ScanBundles) /\ b \in ScanBundles
      BY <1>1, <2>2 DEF Visit, WalkInOrder
    <3> HIDE DEF b
    <3>2. /\ stack' \in Seq(ScanBundles) /\ Len(stack') = n + 1
          /\ \A k \in 1..n : stack'[k] = stack[k]
          /\ stack'[n + 1] = b
      BY <3>1, PushStack
    <3>3. DOMAIN stack = 1..n /\ DOMAIN stack' = 1..(n + 1)
      BY <3>1, <3>2
    <3>4. \A k \in 1..n : Depth[stack[k]] = k - 1
      BY <3>3 DEF WalkInOrder
    <3> HIDE DEF n
    <3>5. \A k \in 1..(n + 1) : k \in 1..n \/ k = n + 1
      BY <1>1
    <3>6. Depth[b] = (n + 1) - 1
      BY <1>1, <2>2
    <3>7. \A k \in 1..(n + 1) : Depth[stack'[k]] = k - 1
      BY <3>2, <3>4, <3>5, <3>6
    <3>8. n + 1 <= limits.depth + 2
      BY <1>1, <2>1
    <3>9. QED
      BY <1>3, <3>2, <3>3, <3>7, <3>8
  <2>3. CASE Kind[e] # "child"
    <3>1. stack' = stack
      BY <2>3 DEF Visit
    <3>2. QED
      BY <1>3, <3>1 DEF WalkInOrder
  <2>4. QED
    BY <2>2, <2>3
<1>6. \A c \in ScanBundles : left'[c] = IF c = Current THEN left[c] \ {e} ELSE left[c]
  BY <1>3 DEF WalkInOrder
<1>7. left' \in [ScanBundles -> SUBSET tree'.present] /\ \A c \in ScanBundles : left'[c] \subseteq Contents(c)'
  <2>1. \A c \in ScanBundles : left[c] \subseteq tree.present /\ left[c] \subseteq Contents(c)
    BY DEF WalkInOrder
  <2>2. left' \in [ScanBundles -> SUBSET tree.present]
    BY <1>3, <2>1 DEF WalkInOrder
  <2>3. \A c \in ScanBundles : left'[c] \subseteq Contents(c)
    BY <1>6, <2>1
  <2>4. QED
    BY <1>3, <2>2, <2>3 DEF Contents
<1>8. \A c \in ScanBundles \ Entered' : left'[c] = Contents(c)'
  <2>1. Current \in Entered
    BY <1>1 DEF WalkInOrder
  <2>2. QED
    BY <1>2, <1>3, <1>6, <2>1 DEF WalkInOrder, Contents
<1>9. \A c \in Entered' \ Open' : left'[c] = {}
  <2>1. ASSUME NEW c \in Entered' \ Open' PROVE left'[c] = {}
    <3>1. c \in Entered \ Open /\ c # Current
      BY <1>1, <1>2, <2>1
    <3>2. left[c] = {}
      BY <3>1 DEF WalkInOrder
    <3>3. left'[c] = left[c]
      BY <1>3, <3>1 DEF WalkInOrder
    <3>4. QED
      BY <3>2, <3>3
  <2>2. QED
    BY <2>1
<1>10. Open' \subseteq Entered'
  BY <1>2 DEF WalkInOrder
<1>11. QED
  BY <1>5, <1>7, <1>8, <1>9, <1>10 DEF WalkInOrder

\* Leaving a bundle passes nothing; the bundle is nested unless it is the last.
LEMMA LeaveWalk ==
  ASSUME OnDisk, WalkInOrder, Leave
  PROVE  /\ WalkInOrder' /\ Passed' = Passed /\ Entered' = Entered
         /\ Open' = Open \ {Current} /\ Current \in Open /\ Current \in ScanBundles
         /\ Len(stack) \in Nat \ {0}
         /\ Len(stack) = 1 => stack' = <<>>
         /\ Len(stack) # 1 => Current # ScanTop /\ stack' # <<>>
<1> DEFINE n == Len(stack)
<1>1. /\ n \in Nat \ {0} /\ Current \in ScanBundles
      /\ stack' \in Seq(ScanBundles) /\ Len(stack') = n - 1
      /\ \A k \in 1..n - 1 : stack'[k] = stack[k]
  <2>1. stack \in Seq(ScanBundles) /\ stack # <<>> /\ stack' = SubSeq(stack, 1, Len(stack) - 1)
    BY DEF Leave, WalkInOrder
  <2>2. QED
    BY <2>1, PopStack DEF Current
<1>2. /\ tree' = tree /\ limits' = limits /\ left' = left /\ left[Current] = {}
      /\ stack \in Seq(ScanBundles)
  BY DEF Leave, WalkInOrder
<1>3. DOMAIN stack = 1..n /\ DOMAIN stack' = 1..n - 1
  BY <1>1, <1>2
<1>4. Current = stack[n]
  BY DEF Current
<1>5. \A k \in 1..n : Depth[stack[k]] = k - 1
  BY <1>3 DEF WalkInOrder
<1>6. Open = {stack[k] : k \in 1..n} /\ Open' = {stack'[k] : k \in 1..n - 1}
  BY <1>3 DEF Open
<1> HIDE DEF n
<1>7. /\ \A k \in 1..n : k \in 1..n - 1 \/ k = n
      /\ \A k \in 1..n - 1 : k \in 1..n /\ k # n
      /\ n \in 1..n
  BY <1>1
<1>8. \A k \in 1..n - 1 : stack[k] # stack[n]
  <2>1. \A k \in 1..n - 1 : k - 1 # n - 1
    BY <1>1
  <2>2. QED
    BY <1>5, <1>7, <2>1
<1>9. Open' = Open \ {Current} /\ Current \in Open
  BY <1>1, <1>4, <1>6, <1>7, <1>8
<1>10. Passed' = Passed
  BY <1>2 DEF Passed
<1>11. Entered' = Entered
  BY <1>10 DEF Entered
<1>12. \A c \in Entered' \ Open' : left'[c] = {}
  BY <1>2, <1>9, <1>11 DEF WalkInOrder
<1>13. \A k \in DOMAIN stack' : Depth[stack'[k]] = k - 1
  BY <1>1, <1>3, <1>5, <1>7
<1>14. Len(stack') <= limits'.depth + 2
  BY <1>1, <1>2 DEF WalkInOrder, n, OnDisk
<1>15. WalkInOrder'
  <2>1. \A c \in ScanBundles : Contents(c)' = Contents(c)
    BY <1>2 DEF Contents
  <2>2. left' \in [ScanBundles -> SUBSET tree'.present] /\ \A c \in ScanBundles : left'[c] \subseteq Contents(c)'
    BY <1>2, <2>1 DEF WalkInOrder
  <2>3. \A c \in ScanBundles \ Entered' : left'[c] = Contents(c)'
    BY <1>2, <1>11, <2>1 DEF WalkInOrder
  <2>4. Open' \subseteq Entered'
    BY <1>9, <1>11 DEF WalkInOrder
  <2>5. QED
    BY <1>1, <1>12, <1>13, <1>14, <2>2, <2>3, <2>4 DEF WalkInOrder
<1>16. Len(stack) = 1 => stack' = <<>>
  BY <1>1 DEF n
<1>17. Len(stack) # 1 => Current # ScanTop /\ stack' # <<>>
  <2>1. Depth[Current] = n - 1
    BY <1>4, <1>5, <1>7
  <2>2. QED
    BY <1>1, <2>1, ScanAssumption DEF n
<1>18. QED
  BY <1>1, <1>9, <1>10, <1>11, <1>15, <1>16, <1>17 DEF n

---------------------------------------------------------------------------
(* Counting *)

\* The sum over a part of a set of natural numbers is not larger than over the set.
LEMMA SumOverPart ==
  ASSUME NEW S, IsFiniteSet(S), NEW f, \A x \in S : f[x] \in Nat, NEW T \in SUBSET S
  PROVE  SumOver(f, T) <= SumOver(f, S)
<1> DEFINE G == {U \in SUBSET S : \A V \in SUBSET U : SumOver(f, V) <= SumOver(f, U)}
<1>1. ASSUME NEW U \in SUBSET S, \A W \in SUBSET U : W # U => W \in G, NEW V \in SUBSET U
      PROVE  SumOver(f, V) <= SumOver(f, U)
  <2>1. IsFiniteSet(U) /\ \A x \in U : f[x] \in Nat /\ f[x] \in Int
    BY FS_Subset
  <2>2. SumOver(f, U) \in Nat
    BY <2>1, SumOverNat
  <2>3. CASE V = U
    BY <2>2, <2>3
  <2>4. CASE V # U
    <3>1. PICK x \in U : x \notin V
      BY <2>4
    <3>2. U \ {x} \in G /\ V \in SUBSET (U \ {x})
      BY <1>1, <3>1
    <3>3. SumOver(f, V) <= SumOver(f, U \ {x})
      BY <3>2
    <3>4. SumOver(f, U) = f[x] + SumOver(f, U \ {x})
      BY <2>1, SumOverRemove
    <3>5. IsFiniteSet(V) /\ IsFiniteSet(U \ {x})
      BY <2>1, FS_Subset
    <3>6. SumOver(f, V) \in Nat /\ SumOver(f, U \ {x}) \in Nat /\ f[x] \in Nat
      BY <2>1, <3>5, SumOverNat
    <3>7. QED
      BY <3>3, <3>4, <3>6
  <2>5. QED
    BY <2>3, <2>4
<1>2. ASSUME NEW U \in SUBSET S, \A W \in SUBSET U : W # U => W \in G PROVE U \in G
  BY <1>1, <1>2
<1> HIDE DEF G
<1>3. S \in G
  BY <1>2, SubsetInduction
<1>4. QED
  BY <1>3 DEF G

\* An element more is counted when it is of the kind that counts.
LEMMA CountAdded ==
  ASSUME NEW P, NEW K, IsFiniteSet(K), NEW e, e \notin P
  PROVE  /\ Cardinality((P \cup {e}) \cap K) = IF e \in K THEN Cardinality(P \cap K) + 1 ELSE Cardinality(P \cap K)
         /\ Cardinality((P \cup {e}) \cap K) <= Cardinality(K)
         /\ Cardinality(P \cap K) \in Nat /\ Cardinality(K) \in Nat
<1>1. IsFiniteSet(P \cap K) /\ IsFiniteSet((P \cup {e}) \cap K)
  BY FS_Intersection
<1>2. Cardinality((P \cup {e}) \cap K) <= Cardinality(K)
  BY FS_Subset
<1>3. Cardinality(P \cap K) \in Nat /\ Cardinality(K) \in Nat
  BY <1>1, FS_CardinalityType
<1>4. CASE e \in K
  <2>1. (P \cup {e}) \cap K = (P \cap K) \cup {e} /\ e \notin P \cap K
    BY <1>4
  <2>2. Cardinality((P \cap K) \cup {e}) = Cardinality(P \cap K) + 1
    BY <1>1, <2>1, FS_AddElement
  <2>3. QED
    BY <1>2, <1>3, <1>4, <2>1, <2>2
<1>5. CASE e \notin K
  <2>1. (P \cup {e}) \cap K = P \cap K
    BY <1>5
  <2>2. QED
    BY <1>2, <1>3, <1>5, <2>1
<1>6. QED
  BY <1>4, <1>5

LEMMA TreeIsFinite ==
  ASSUME OnDisk
  PROVE  /\ IsFiniteSet(NotVersions) /\ IsFiniteSet(NestedCode) /\ IsFiniteSet(Measured)
         /\ \A e \in Measured : tree.size[e] \in Nat
         /\ IsFiniteSet(Reached) /\ Reached \subseteq ScanBundles
         /\ Passed \subseteq tree.present /\ Entered \subseteq Reached
<1>1. IsFiniteSet(tree.present)
  BY DEF OnDisk
<1>2. NotVersions \subseteq tree.present /\ NestedCode \subseteq tree.present /\ Measured \subseteq tree.present
  BY DEF NotVersions, NestedCode, Measured
<1>3. IsFiniteSet(NotVersions) /\ IsFiniteSet(NestedCode) /\ IsFiniteSet(Measured)
  BY <1>1, <1>2, FS_Subset
<1>4. \A e \in Measured : tree.size[e] \in Nat
  BY <1>2 DEF OnDisk
<1> DEFINE C == {f \in tree.present : Kind[f] = "child"}
           T == {NestedBundle[e] : e \in C}
           g == [e \in C |-> NestedBundle[e]]
<1>5. C \subseteq ChildEntries
  BY DEF OnDisk, ChildEntries
<1>6. IsFiniteSet(C)
  BY <1>1, FS_Subset
<1>7. IsFiniteSet(T)
  <2>1. g \in Surjection(C, T)
    BY DEF Surjection
  <2>2. QED
    BY <1>6, <2>1, FS_Surjection
<1>8. Reached = T \cup {ScanTop}
  BY DEF Reached
<1>9. IsFiniteSet(Reached)
  BY <1>7, <1>8, FS_AddElement
<1>10. Reached \subseteq ScanBundles
  BY <1>5, <1>8, ScanAssumption
<1>11. Passed \subseteq tree.present
  BY DEF Passed
<1>12. Entered \subseteq Reached
  BY <1>11 DEF Entered, Reached
<1>13. QED
  BY <1>3, <1>4, <1>9, <1>10, <1>11, <1>12

\* The bytes of some entries, and one for each of some nested bundles and for those left.
Spent(P, N, L) == SumOver(tree.size, P \cap Measured) + Cardinality(N) + Cardinality(L)

LEMMA SpentIsPart ==
  ASSUME OnDisk, NEW P, NEW N \in SUBSET (Reached \ {ScanTop}), NEW L \in SUBSET (Reached \ {ScanTop})
  PROVE  /\ Spent(P, N, L) \in Nat /\ Bytes \in Nat
         /\ Spent(P, N, L) <= Bytes
<1> DEFINE R == Reached \ {ScanTop}
           M == P \cap Measured
<1>1. /\ IsFiniteSet(Measured) /\ IsFiniteSet(Reached) /\ \A e \in Measured : tree.size[e] \in Nat
      /\ ScanTop \in Reached
  BY TreeIsFinite DEF Reached
<1>2. IsFiniteSet(R) /\ Cardinality(R) = Cardinality(Reached) - 1
  BY <1>1, FS_RemoveElement
<1>3. Cardinality(R) \in Nat /\ Cardinality(Reached) \in Nat
  BY <1>1, <1>2, FS_CardinalityType
<1> HIDE DEF R
<1>4. N \in SUBSET R /\ L \in SUBSET R
  BY DEF R
<1>5. /\ Cardinality(N) \in Nat /\ Cardinality(N) <= Cardinality(R)
      /\ Cardinality(L) \in Nat /\ Cardinality(L) <= Cardinality(R)
  BY <1>2, <1>4, FS_Subset, FS_CardinalityType
<1>6. IsFiniteSet(M) /\ M \in SUBSET Measured
  BY <1>1, FS_Subset
<1> HIDE DEF M
<1>7. SumOver(tree.size, M) <= SumOver(tree.size, Measured)
  BY <1>1, <1>6, SumOverPart
<1>8. SumOver(tree.size, M) \in Nat /\ SumOver(tree.size, Measured) \in Nat
  BY <1>1, <1>6, SumOverNat
<1>9. Bytes = SumOver(tree.size, Measured) + 2 * (Cardinality(Reached) - 1)
  BY DEF Bytes, TotalSize, SumOver
<1>10. Spent(P, N, L) = SumOver(tree.size, M) + Cardinality(N) + Cardinality(L)
  BY DEF Spent, M
<1>11. QED
  BY <1>2, <1>3, <1>5, <1>7, <1>8, <1>9, <1>10

\* A visit adds its amount.
LEMMA VisitSpends ==
  ASSUME OnDisk, WalkInOrder, NEW e \in Entries, Visit(e)
  PROVE  /\ Nested' \in SUBSET (Reached \ {ScanTop}) /\ Finished' \in SUBSET (Reached \ {ScanTop})
         /\ Spent(Passed \cup {e}, Nested', Finished') = Spent(Passed, Nested, Finished) + Amount(e)
<1>1. /\ e \in tree.present /\ e \notin Passed /\ tree' = tree
      /\ Kind[e] = "child" => NestedBundle[e] \notin Entered /\ NestedBundle[e] # ScanTop
  BY VisitEnters DEF Visit
<1>2. /\ Entered' = Entered \cup Entering(e) /\ Open' = Open \cup Entering(e)
      /\ Passed' = Passed \cup {e}
  BY VisitPasses
<1>3. Entering(e) = IF Kind[e] = "child" THEN {NestedBundle[e]} ELSE {}
  BY DEF Entering
<1>4. Nested' = Nested \cup Entering(e) /\ Finished' = Finished
  BY <1>1, <1>2, <1>3 DEF Nested, Finished
<1>5. /\ IsFiniteSet(Measured) /\ IsFiniteSet(Reached) /\ \A x \in Measured : tree.size[x] \in Nat
      /\ Entered \subseteq Reached /\ Passed \subseteq tree.present
  BY TreeIsFinite
<1>6. Entering(e) \subseteq Reached
  BY <1>1 DEF Entering, Reached
<1>7. Nested' \subseteq Reached \ {ScanTop} /\ Finished \subseteq Reached \ {ScanTop} /\ Nested \subseteq Reached
  BY <1>1, <1>3, <1>4, <1>5, <1>6 DEF Nested, Finished
<1>8. IsFiniteSet(Nested) /\ IsFiniteSet(Finished)
  BY <1>5, <1>7, FS_Subset
<1>9. Cardinality(Nested) \in Nat /\ Cardinality(Finished) \in Nat
  BY <1>8, FS_CardinalityType
<1>10. Cardinality(Nested') = Cardinality(Nested) + (IF Kind[e] = "child" THEN 1 ELSE 0)
  <2>1. CASE Kind[e] = "child"
    <3>1. Nested' = Nested \cup {NestedBundle[e]} /\ NestedBundle[e] \notin Nested
      BY <1>1, <1>3, <1>4, <2>1 DEF Nested
    <3>2. QED
      BY <1>8, <2>1, <3>1, FS_AddElement
  <2>2. CASE Kind[e] # "child"
    <3>1. Nested' = Nested
      BY <1>3, <1>4, <2>2
    <3>2. QED
      BY <1>9, <2>2, <3>1
  <2>3. QED
    BY <2>1, <2>2
<1> DEFINE M == Passed \cap Measured
<1>11. IsFiniteSet(M) /\ \A x \in M : tree.size[x] \in Int
  BY <1>5, FS_Intersection
<1>12. SumOver(tree.size, M) \in Int
  BY <1>11, SumOverInt
<1> DEFINE Q == (Passed \cup {e}) \cap Measured
           K == M \cup {e}
<1>13. SumOver(tree.size, Q) = SumOver(tree.size, M) + (IF e \in Measured THEN tree.size[e] ELSE 0)
  <2>1. CASE e \in Measured
    <3>1. Q = K /\ e \notin M
      BY <1>1, <2>1
    <3>2. tree.size[e] \in Int
      BY <1>5, <2>1
    <3> HIDE DEF M
    <3>3. SumOver(tree.size, K) = tree.size[e] + SumOver(tree.size, M)
      BY <1>11, <3>1, <3>2, SumOverAdd
    <3> HIDE DEF Q, K
    <3>4. QED
      BY <1>12, <2>1, <3>1, <3>2, <3>3
  <2>2. CASE e \notin Measured
    <3>1. Q = M
      BY <2>2
    <3> HIDE DEF M, Q
    <3>2. QED
      BY <1>12, <2>2, <3>1
  <2>3. QED
    BY <2>1, <2>2
<1>14. Amount(e) = IF e \in Measured THEN tree.size[e] ELSE IF Kind[e] = "child" THEN 1 ELSE 0
  BY <1>1 DEF Amount, Measured
<1>15. e \in Measured => tree.size[e] \in Nat /\ Kind[e] # "child"
  BY <1>5 DEF Measured
<1>16. Spent(Passed, Nested, Finished) = SumOver(tree.size, M) + Cardinality(Nested) + Cardinality(Finished)
  BY DEF Spent
<1>17. Spent(Passed \cup {e}, Nested', Finished')
         = SumOver(tree.size, Q) + Cardinality(Nested') + Cardinality(Finished)
  BY <1>4 DEF Spent
<1> HIDE DEF M, Q
<1>18. QED
  BY <1>4, <1>7, <1>9, <1>10, <1>12, <1>13, <1>14, <1>15, <1>16, <1>17

---------------------------------------------------------------------------
(* A visit keeps the account, or refuses for a cause *)

LEMMA VisitIs ==
  ASSUME ScanInv, NEW e \in Entries, Visit(e)
  PROVE  /\ OnDisk /\ WalkInOrder /\ ScopeIsAccount /\ PassedIsSound /\ scope \in Scopes
         /\ tree' = tree /\ limits' = limits
         /\ e \in tree.present /\ e \notin Passed /\ Passed' = Passed \cup {e}
         /\ IsVisited(scope, e, scope')
         /\ verdict' = IF scope'.bad THEN "refused" ELSE ""
<1>1. OnDisk /\ WalkInOrder /\ ScopeIsAccount /\ PassedIsSound /\ scope \in Scopes
  BY DEF Visit, ScanInv
<1>2. e \in tree.present /\ e \notin Passed /\ Passed' = Passed \cup {e}
  BY <1>1, VisitEnters, VisitPasses
<1>3. /\ tree' = tree /\ limits' = limits /\ scope' = Visited(scope, e)
      /\ verdict' = IF scope'.bad THEN "refused" ELSE ""
  BY DEF Visit
<1>4. IsVisited(scope, e, scope')
  BY <1>1, <1>2, <1>3, VisitedScope DEF WalkInOrder
<1>5. QED
  BY <1>1, <1>2, <1>3, <1>4

\* The counts after a visit that is not refused, and before the limits are compared.
LEMMA VisitCounts ==
  ASSUME ScanInv, NEW e \in Entries, Visit(e)
  PROVE  /\ scope'.entries = Cardinality(Passed' \cap NotVersions)
         /\ scope'.nested = Cardinality(Passed' \cap NestedCode)
         /\ scope'.entries <= Cardinality(NotVersions) /\ scope'.nested <= Cardinality(NestedCode)
         /\ Cardinality(NotVersions) \in Nat /\ Cardinality(NestedCode) \in Nat
<1>1. /\ OnDisk /\ ScopeIsAccount /\ e \in tree.present /\ e \notin Passed
      /\ Passed' = Passed \cup {e} /\ IsVisited(scope, e, scope')
  BY VisitIs
<1>2. IsFiniteSet(NotVersions) /\ IsFiniteSet(NestedCode)
  BY <1>1, TreeIsFinite
<1>3. /\ e \in NotVersions <=> Kind[e] # "version"
      /\ e \in NestedCode <=> Kind[e] \in {"child", "helper", "version"}
  BY <1>1 DEF NotVersions, NestedCode
<1>4. /\ Cardinality(Passed' \cap NotVersions)
           = IF e \in NotVersions THEN Cardinality(Passed \cap NotVersions) + 1 ELSE Cardinality(Passed \cap NotVersions)
      /\ Cardinality(Passed' \cap NotVersions) <= Cardinality(NotVersions)
      /\ Cardinality(NotVersions) \in Nat
  BY <1>1, <1>2, CountAdded
<1>5. /\ Cardinality(Passed' \cap NestedCode)
           = IF e \in NestedCode THEN Cardinality(Passed \cap NestedCode) + 1 ELSE Cardinality(Passed \cap NestedCode)
      /\ Cardinality(Passed' \cap NestedCode) <= Cardinality(NestedCode)
      /\ Cardinality(NestedCode) \in Nat
  BY <1>1, <1>2, CountAdded
<1>6. scope'.entries = Cardinality(Passed' \cap NotVersions)
  BY <1>1, <1>3, <1>4 DEF IsVisited, ScopeIsAccount
<1>7. scope'.nested = Cardinality(Passed' \cap NestedCode)
  BY <1>1, <1>3, <1>5 DEF IsVisited, ScopeIsAccount
<1>8. QED
  BY <1>4, <1>5, <1>6, <1>7

\* The registries after a visit.
LEMMA VisitRegisters ==
  ASSUME ScanInv, NEW e \in Entries, Visit(e)
  PROVE  /\ scope'.seen = {FullName(f) : f \in Passed' \cap NotVersions}
         /\ scope'.regular = Passed' \cap Members
         /\ scope'.writable = KnownTargets'
         /\ scope'.writable \subseteq Rewritten
<1>1. /\ OnDisk /\ WalkInOrder /\ ScopeIsAccount /\ e \in tree.present /\ e \notin Passed
      /\ tree' = tree /\ Passed' = Passed \cup {e} /\ IsVisited(scope, e, scope')
  BY VisitIs
<1>2. e \in NotVersions <=> Kind[e] # "version"
  BY <1>1 DEF NotVersions
<1>3. scope'.seen = {FullName(f) : f \in Passed' \cap NotVersions}
  <2> DEFINE N == Passed \cap NotVersions
             N2 == Passed' \cap NotVersions
  <2>1. N2 = IF Kind[e] = "version" THEN N ELSE N \cup {e}
    BY <1>1, <1>2
  <2>2. scope.seen = {FullName(f) : f \in N}
    BY <1>1 DEF ScopeIsAccount
  <2>3. scope'.seen = IF Kind[e] = "version" THEN scope.seen ELSE scope.seen \cup {FullName(e)}
    BY <1>1 DEF IsVisited
  <2> HIDE DEF N, N2
  <2>4. scope'.seen = {FullName(f) : f \in N2}
    BY <2>1, <2>2, <2>3
  <2>5. QED
    BY <2>4 DEF N2
<1>4. scope'.regular = Passed' \cap Members
  <2>1. e \in Members <=> Regular(e)
    BY <1>1 DEF Members
  <2>2. scope.regular = Passed \cap Members
    BY <1>1 DEF ScopeIsAccount
  <2>3. scope'.regular = IF Regular(e) THEN scope.regular \cup {e} ELSE scope.regular
    BY <1>1 DEF IsVisited
  <2>4. QED
    BY <1>1, <2>1, <2>2, <2>3
<1>5. scope'.writable = KnownTargets'
  <2>1. scope'.writable = KnownTargets \cup Committed(e)
    BY <1>1 DEF IsVisited, ScopeIsAccount
  <2>2. Entered' = Entered \cup Entering(e)
    BY <1>1, VisitPasses
  <2>3. ASSUME NEW f PROVE f \in KnownTargets' <=> f \in KnownTargets \/ f \in Committed(e)
    <3>1. f \in KnownTargets' <=>
            /\ f \in tree.present
            /\ \/ Kind[f] \in {"exec", "envelope"} /\ (In[f] \in Entered \/ In[f] \in Entering(e))
               \/ Kind[f] = "helper" /\ (f \in Passed \/ f = e)
      BY <1>1, <2>2 DEF KnownTargets
    <3>2. f \in KnownTargets <=>
            /\ f \in tree.present
            /\ \/ Kind[f] \in {"exec", "envelope"} /\ In[f] \in Entered
               \/ Kind[f] = "helper" /\ f \in Passed
      BY DEF KnownTargets
    <3>3. f \in Committed(e) <=>
            /\ f \in tree.present
            /\ \/ Kind[f] \in {"exec", "envelope"} /\ In[f] \in Entering(e)
               \/ Kind[f] = "helper" /\ f = e
      <4>1. CASE Kind[e] = "helper"
        BY <1>1, <4>1 DEF Committed, Entering
      <4>2. CASE Kind[e] = "child"
        <5>1. Entering(e) = {NestedBundle[e]} /\ Committed(e) = Targets(NestedBundle[e])
          BY <4>2 DEF Committed, Entering
        <5>2. QED
          BY <4>2, <5>1 DEF Targets, Contents
      <4>3. CASE Kind[e] \notin {"child", "helper"}
        BY <4>3 DEF Committed, Entering
      <4>4. QED
        BY <4>1, <4>2, <4>3
    <3>4. QED
      BY <3>1, <3>2, <3>3
  <2>4. QED
    BY <2>1, <2>3
<1>6. scope'.writable \subseteq Rewritten
  BY <1>1, <1>5 DEF KnownTargets, Rewritten
<1>7. QED
  BY <1>3, <1>4, <1>5, <1>6

\* The byte count after a visit, with what the visit would add.
LEMMA VisitBytes ==
  ASSUME ScanInv, NEW e \in Entries, Visit(e)
  PROVE  /\ scope.bytes + Amount(e) = Spent(Passed \cup {e}, Nested', Finished')
         /\ scope.bytes + Amount(e) <= Bytes /\ Bytes \in Nat /\ scope.bytes + Amount(e) \in Nat
<1>1. OnDisk /\ WalkInOrder /\ ScopeIsAccount
  BY VisitIs
<1>2. /\ Nested' \in SUBSET (Reached \ {ScanTop}) /\ Finished' \in SUBSET (Reached \ {ScanTop})
      /\ Spent(Passed \cup {e}, Nested', Finished') = Spent(Passed, Nested, Finished) + Amount(e)
  BY <1>1, VisitSpends
<1>3. scope.bytes = Spent(Passed, Nested, Finished)
  BY <1>1 DEF ScopeIsAccount, Spent
<1>4. /\ Spent(Passed \cup {e}, Nested', Finished') \in Nat /\ Bytes \in Nat
      /\ Spent(Passed \cup {e}, Nested', Finished') <= Bytes
  BY <1>1, <1>2, SpentIsPart
<1>5. QED
  BY <1>2, <1>3, <1>4

LEMMA SameFileSymmetric == \A e, f : SameFile(e, f) => SameFile(f, e)
BY DEF SameFile

LEMMA VisitRefuses ==
  ASSUME ScanInv, NEW e \in Entries, Visit(e), scope'.bad
  PROVE  ~CanBeSigned
<1>1. /\ OnDisk /\ WalkInOrder /\ ScopeIsAccount /\ PassedIsSound /\ scope \in Scopes
      /\ tree' = tree /\ e \in tree.present /\ e \notin Passed /\ Passed' = Passed \cup {e}
      /\ IsVisited(scope, e, scope')
  BY VisitIs
<1>2. Refuses(scope, e, scope'.regular)
  BY <1>1 DEF IsVisited, PassedIsSound
<1>3. limits.entries \in Nat /\ limits.nested \in Nat /\ limits.depth \in Nat /\ MaxBytes \in Nat
  BY <1>1, ScanAssumption DEF OnDisk
<1>4. /\ scope'.entries <= Cardinality(NotVersions) /\ scope'.nested <= Cardinality(NestedCode)
      /\ Cardinality(NotVersions) \in Nat /\ Cardinality(NestedCode) \in Nat
  BY VisitCounts
<1>5. scope.entries \in Nat /\ scope.nested \in Nat
  BY <1>1 DEF Scopes
<1>6. CASE Kind[e] # "version" /\ scope.entries + 1 > limits.entries
  <2>1. scope'.entries = scope.entries + 1
    BY <1>1, <1>6 DEF IsVisited
  <2>2. Cardinality(NotVersions) > limits.entries
    BY <1>3, <1>4, <1>5, <1>6, <2>1
  <2>3. QED
    BY <1>3, <1>4, <2>2 DEF CanBeSigned, WithinLimits
<1>7. CASE Kind[e] # "version" /\ FullName(e) \in scope.seen
  <2>1. PICK f \in Passed \cap NotVersions : FullName(f) = FullName(e)
    BY <1>1, <1>7 DEF ScopeIsAccount
  <2>2. f \in NotVersions /\ e \in NotVersions /\ f # e /\ In[f] = In[e] /\ tree.name[f] = tree.name[e]
    BY <1>1, <1>7, <2>1 DEF NotVersions, FullName
  <2>3. QED
    BY <2>2 DEF CanBeSigned, Distinct
<1>8. CASE Kind[e] \in {"child", "helper", "version"} /\ scope.nested + 1 > limits.nested
  <2>1. scope'.nested = scope.nested + 1
    BY <1>1, <1>8 DEF IsVisited
  <2>2. Cardinality(NestedCode) > limits.nested
    BY <1>3, <1>4, <1>5, <1>8, <2>1
  <2>3. QED
    BY <1>3, <1>4, <2>2 DEF CanBeSigned, WithinLimits
<1>9. CASE Kind[e] = "child" /\ Len(stack) > limits.depth
  <2>1. Depth[NestedBundle[e]] = Len(stack) /\ Len(stack) \in Nat
    BY <1>1, <1>9, VisitEnters
  <2>2. NestedBundle[e] \in Reached
    BY <1>1, <1>9 DEF Reached
  <2>3. ~(Depth[NestedBundle[e]] <= limits.depth)
    BY <1>3, <1>9, <2>1
  <2>4. QED
    BY <2>2, <2>3 DEF CanBeSigned, WithinLimits
<1>10. scope'.regular \subseteq Members /\ scope'.writable \subseteq Rewritten
  BY VisitRegisters
<1>11. CASE Regular(e) /\ Linked(e, scope.writable)
  <2>1. PICK t \in scope.writable \ {e} : SameFile(e, t)
    BY <1>11 DEF Linked
  <2>2. t \in Rewritten /\ e \in Members /\ t # e /\ SameFile(t, e)
    BY <1>1, <1>10, <1>11, <2>1, SameFileSymmetric DEF Members, IsVisited
  <2>3. QED
    BY <2>2 DEF CanBeSigned, Apart
<1>12. CASE \E t \in Committed(e) : Linked(t, scope'.regular)
  <2>1. PICK t \in Committed(e), f \in scope'.regular : f # t /\ SameFile(t, f)
    BY <1>12 DEF Linked
  <2>2. t \in Rewritten /\ f \in Members
    BY <1>1, <1>10, <2>1 DEF IsVisited
  <2>3. QED
    BY <2>1, <2>2 DEF CanBeSigned, Apart
<1>13. CASE scope.bytes + Amount(e) > MaxBytes
  <2>1. scope.bytes + Amount(e) <= Bytes /\ Bytes \in Nat /\ scope.bytes + Amount(e) \in Nat
    BY VisitBytes
  <2>2. ~(Bytes <= MaxBytes)
    BY <1>3, <1>13, <2>1
  <2>3. QED
    BY <2>2 DEF CanBeSigned, WithinLimits
<1>14. QED
  BY <1>2, <1>6, <1>7, <1>8, <1>9, <1>11, <1>12, <1>13 DEF Refuses

LEMMA VisitAccounts ==
  ASSUME ScanInv, NEW e \in Entries, Visit(e), ~scope'.bad
  PROVE  ScopeIsAccount' /\ PassedIsSound'
<1>1. /\ OnDisk /\ WalkInOrder /\ ScopeIsAccount /\ PassedIsSound /\ scope \in Scopes
      /\ tree' = tree /\ limits' = limits /\ e \in tree.present /\ e \notin Passed
      /\ Passed' = Passed \cup {e} /\ IsVisited(scope, e, scope')
  BY VisitIs
<1>2. ~Refuses(scope, e, scope'.regular)
  BY <1>1 DEF IsVisited
<1>3. /\ NotVersions' = NotVersions /\ NestedCode' = NestedCode /\ Measured' = Measured /\ Members' = Members
  BY <1>1, TreeStays
<1>4. /\ scope'.entries = Cardinality(Passed' \cap NotVersions)
      /\ scope'.nested = Cardinality(Passed' \cap NestedCode)
  BY VisitCounts
<1>5. /\ scope'.seen = {FullName(f) : f \in Passed' \cap NotVersions}
      /\ scope'.regular = Passed' \cap Members /\ scope'.writable = KnownTargets'
  BY VisitRegisters
<1>6. scope'.bytes = Spent(Passed', Nested', Finished')
  <2>1. ~(scope.bytes + Amount(e) > MaxBytes)
    BY <1>2 DEF Refuses
  <2>2. scope'.bytes = scope.bytes + Amount(e)
    BY <1>1, <2>1 DEF IsVisited
  <2>3. scope.bytes + Amount(e) = Spent(Passed \cup {e}, Nested', Finished')
    BY VisitBytes
  <2>4. QED
    BY <1>1, <2>2, <2>3
<1>7. ScopeIsAccount'
  <2>1. scope'.entries = Cardinality(Passed' \cap NotVersions')
    BY <1>3, <1>4
  <2>2. scope'.nested = Cardinality(Passed' \cap NestedCode')
    BY <1>3, <1>4
  <2>3. scope'.bytes = SumOver(tree'.size, Passed' \cap Measured') + Cardinality(Nested') + Cardinality(Finished')
    BY <1>1, <1>3, <1>6 DEF Spent
  <2>4. scope'.seen = {FullName(f)' : f \in Passed' \cap NotVersions'}
    BY <1>1, <1>3, <1>5 DEF FullName
  <2>5. scope'.regular = Passed' \cap Members'
    BY <1>3, <1>5
  <2>6. QED
    BY <1>5, <2>1, <2>2, <2>3, <2>4, <2>5 DEF ScopeIsAccount
<1>8. limits.entries \in Nat /\ limits.nested \in Nat /\ limits.depth \in Nat /\ scope.entries \in Nat /\ scope.nested \in Nat
  BY <1>1 DEF OnDisk, Scopes
<1>9. scope'.entries <= limits'.entries
  <2>1. Kind[e] # "version" => ~(scope.entries + 1 > limits.entries)
    BY <1>2 DEF Refuses
  <2>2. scope'.entries = IF Kind[e] = "version" THEN scope.entries ELSE scope.entries + 1
    BY <1>1 DEF IsVisited
  <2>3. scope.entries <= limits.entries
    BY <1>1 DEF PassedIsSound
  <2>4. QED
    BY <1>1, <1>8, <2>1, <2>2, <2>3
<1>10. scope'.nested <= limits'.nested
  <2>1. Kind[e] \in {"child", "helper", "version"} => ~(scope.nested + 1 > limits.nested)
    BY <1>2 DEF Refuses
  <2>2. scope'.nested = IF Kind[e] \in {"child", "helper", "version"} THEN scope.nested + 1 ELSE scope.nested
    BY <1>1 DEF IsVisited
  <2>3. scope.nested <= limits.nested
    BY <1>1 DEF PassedIsSound
  <2>4. QED
    BY <1>1, <1>8, <2>1, <2>2, <2>3
<1>11. \A b \in Entered' : Depth[b] <= limits'.depth
  <2>1. Entered' = Entered \cup Entering(e)
    BY <1>1, VisitPasses
  <2>2. ASSUME NEW b \in Entering(e) PROVE Depth[b] <= limits.depth
    <3>1. Kind[e] = "child" /\ b = NestedBundle[e]
      BY <2>2 DEF Entering
    <3>2. Depth[b] = Len(stack) /\ Len(stack) \in Nat
      BY <1>1, <3>1, VisitEnters
    <3>3. ~(Len(stack) > limits.depth)
      BY <1>2, <3>1 DEF Refuses
    <3>4. QED
      BY <1>8, <3>2, <3>3
  <2>3. QED
    BY <1>1, <2>1, <2>2 DEF PassedIsSound
<1>12. \A f, g \in Passed' \cap NotVersions' : f # g => FullName(f)' # FullName(g)'
  <2>1. \A f \in Passed \cap NotVersions : FullName(f) \in scope.seen
    BY <1>1 DEF ScopeIsAccount
  <2>2. e \in NotVersions => FullName(e) \notin scope.seen
    BY <1>2 DEF Refuses, NotVersions
  <2>3. \A f, g \in Passed \cap NotVersions : f # g => FullName(f) # FullName(g)
    BY <1>1 DEF PassedIsSound
  <2>4. \A f : FullName(f)' = FullName(f)
    BY <1>1 DEF FullName
  <2>5. \A f, g \in Passed' \cap NotVersions : f # g => FullName(f) # FullName(g)
    BY <1>1, <2>1, <2>2, <2>3
  <2>6. QED
    BY <1>3, <2>4, <2>5
<1>13. \A t \in scope'.writable, f \in scope'.regular : t # f => ~SameFile(t, f)'
  <2>1. \A t \in scope.writable, f \in scope.regular : t # f => ~SameFile(t, f)
    BY <1>1 DEF PassedIsSound
  <2>2. Regular(e) => \A t \in scope.writable \ {e} : ~SameFile(e, t)
    BY <1>2 DEF Refuses, Linked
  <2>3. \A t \in Committed(e) : \A f \in scope'.regular \ {t} : ~SameFile(t, f)
    BY <1>2 DEF Refuses, Linked
  <2>4. /\ scope'.writable = scope.writable \cup Committed(e)
        /\ scope'.regular = IF Regular(e) THEN scope.regular \cup {e} ELSE scope.regular
    BY <1>1 DEF IsVisited
  <2>5. \A t \in scope'.writable, f \in scope'.regular : t # f => ~SameFile(t, f)
    <3>1. TAKE t \in scope'.writable, f \in scope'.regular
    <3>2. HAVE t # f
    <3>3. CASE t \in Committed(e)
      BY <2>3, <3>2, <3>3
    <3>4. CASE t \in scope.writable /\ f \in scope.regular
      BY <2>1, <3>2, <3>4
    <3>5. CASE t \in scope.writable /\ Regular(e) /\ f = e
      BY <2>2, <3>2, <3>5, SameFileSymmetric
    <3>6. QED
      BY <2>4, <3>3, <3>4, <3>5
  <2>6. \A t, f : SameFile(t, f)' <=> SameFile(t, f)
    BY <1>1 DEF SameFile
  <2>7. QED
    BY <2>5, <2>6
<1>14. PassedIsSound'
  BY <1>9, <1>10, <1>11, <1>12, <1>13 DEF PassedIsSound
<1>15. QED
  BY <1>7, <1>14

LEMMA VisitInv ==
  ASSUME ScanInv, NEW e \in Entries, Visit(e)
  PROVE  ScanInv'
<1>1. /\ OnDisk /\ WalkInOrder /\ PassedIsSound /\ scope \in Scopes
      /\ tree' = tree /\ limits' = limits /\ IsVisited(scope, e, scope')
      /\ verdict' = IF scope'.bad THEN "refused" ELSE ""
  BY VisitIs
<1>2. OnDisk' /\ (CanBeSigned <=> CanBeSigned') /\ scope' \in Scopes'
  BY <1>1, TreeStays DEF IsVisited
<1>3. WalkInOrder'
  BY <1>1, VisitWalk
<1>4. limits.entries \in Nat /\ limits.nested \in Nat /\ scope.entries \in Nat /\ scope.nested \in Nat
  BY <1>1 DEF OnDisk, Scopes
<1>5. scope'.entries <= limits'.entries + 1
  <2>1. scope.entries <= limits.entries
    BY <1>1 DEF PassedIsSound
  <2>2. scope'.entries = scope.entries \/ scope'.entries = scope.entries + 1
    BY <1>1 DEF IsVisited
  <2>3. scope'.entries <= limits.entries + 1
    BY <1>4, <2>1, <2>2
  <2>4. QED
    BY <1>1, <2>3
<1>6. scope'.nested <= limits'.nested + 1
  <2>1. scope.nested <= limits.nested
    BY <1>1 DEF PassedIsSound
  <2>2. scope'.nested = scope.nested \/ scope'.nested = scope.nested + 1
    BY <1>1 DEF IsVisited
  <2>3. scope'.nested <= limits.nested + 1
    BY <1>4, <2>1, <2>2
  <2>4. QED
    BY <1>1, <2>3
<1>7. stack' # <<>>
  <2>1. stack \in Seq(ScanBundles) /\ stack # <<>> /\ Len(stack) \in Nat \ {0}
    BY <1>1, VisitEnters DEF Visit, WalkInOrder
  <2>2. CASE Kind[e] = "child"
    <3>1. stack' = Append(stack, NestedBundle[e]) /\ NestedBundle[e] \in ScanBundles
      BY <1>1, <2>2, VisitEnters DEF Visit
    <3>2. stack' \in Seq(ScanBundles) /\ Len(stack') = Len(stack) + 1
      BY <2>1, <3>1, PushStack
    <3>3. QED
      BY <2>1, <3>2
  <2>3. CASE Kind[e] # "child"
    BY <2>1, <2>3 DEF Visit
  <2>4. QED
    BY <2>2, <2>3
<1>8. CASE scope'.bad
  <2>1. ~CanBeSigned
    BY <1>8, VisitRefuses
  <2>2. verdict' = "refused"
    BY <1>1, <1>8
  <2>3. QED
    BY <1>2, <1>3, <1>5, <1>6, <1>7, <2>1, <2>2 DEF ScanInv
<1>9. CASE ~scope'.bad
  <2>1. ScopeIsAccount' /\ PassedIsSound'
    BY <1>9, VisitAccounts
  <2>2. verdict' = ""
    BY <1>1, <1>9
  <2>3. QED
    BY <1>2, <1>3, <1>5, <1>6, <1>7, <2>1, <2>2 DEF ScanInv
<1>10. QED
  BY <1>8, <1>9

---------------------------------------------------------------------------
(* Leaving a bundle *)

LEMMA LeaveSpends ==
  ASSUME OnDisk, WalkInOrder, Leave
  PROVE  /\ Nested' = Nested /\ Nested' \in SUBSET (Reached \ {ScanTop})
         /\ Finished' \in SUBSET (Reached \ {ScanTop})
         /\ Spent(Passed, Nested', Finished')
              = Spent(Passed, Nested, Finished) + (IF Len(stack) = 1 THEN 0 ELSE 1)
<1>1. /\ Entered' = Entered /\ Open' = Open \ {Current} /\ Current \in Open
      /\ Len(stack) \in Nat \ {0}
      /\ Len(stack) = 1 => stack' = <<>>
      /\ Len(stack) # 1 => Current # ScanTop
  BY LeaveWalk
<1>2. Current \in Entered /\ Open \subseteq Entered
  BY <1>1 DEF WalkInOrder
<1>3. IsFiniteSet(Reached) /\ Entered \subseteq Reached /\ IsFiniteSet(Measured)
      /\ \A x \in Measured : tree.size[x] \in Nat
  BY TreeIsFinite
<1>4. Nested' = Nested /\ Nested \subseteq Reached \ {ScanTop} /\ Finished \subseteq Reached \ {ScanTop}
  BY <1>1, <1>3 DEF Nested, Finished
<1>5. IsFiniteSet(Finished) /\ Cardinality(Finished) \in Nat /\ Cardinality(Nested) \in Nat
  BY <1>3, <1>4, FS_Subset, FS_CardinalityType
<1> DEFINE s == SumOver(tree.size, Passed \cap Measured)
<1>6. s \in Nat
  BY <1>3, FS_Intersection, SumOverNat
<1>7. /\ Spent(Passed, Nested, Finished) = s + Cardinality(Nested) + Cardinality(Finished)
      /\ Spent(Passed, Nested', Finished') = s + Cardinality(Nested) + Cardinality(Finished')
  BY <1>4 DEF Spent
<1> HIDE DEF s
<1>8. CASE Len(stack) = 1
  <2>1. stack \in Seq(ScanBundles) /\ DOMAIN stack = 1..1
    BY <1>8 DEF WalkInOrder
  <2>2. Depth[Current] = 0 /\ \A b \in Open : b = Current
    BY <1>8, <2>1 DEF Open, Current, WalkInOrder
  <2>3. Current \notin Nested
    <3>1. ASSUME NEW f \in Passed, Kind[f] = "child", NestedBundle[f] = Current PROVE FALSE
      <4>1. f \in ChildEntries
        BY <3>1 DEF ChildEntries, Passed, OnDisk
      <4>2. In[f] \in ScanBundles /\ Depth[Current] = Depth[In[f]] + 1
        BY <3>1, <4>1, ScanAssumption DEF ChildEntries
      <4>3. Depth[In[f]] \in Nat
        BY <4>2, ScanAssumption
      <4>4. QED
        BY <2>2, <4>2, <4>3
    <3>2. QED
      BY <3>1 DEF Nested, Entered
  <2>4. Finished' = Finished
    BY <1>1, <1>4, <2>3 DEF Finished
  <2>5. QED
    BY <1>4, <1>5, <1>6, <1>7, <1>8, <2>4
<1>9. CASE Len(stack) # 1
  <2>1. Finished' = Finished \cup {Current} /\ Current \notin Finished
    BY <1>1, <1>2, <1>4, <1>9 DEF Finished, Nested
  <2>2. Cardinality(Finished') = Cardinality(Finished) + 1
    BY <1>5, <2>1, FS_AddElement
  <2>3. Finished' \subseteq Reached \ {ScanTop}
    BY <1>1, <1>2, <1>3, <1>4, <1>9, <2>1
  <2>4. QED
    BY <1>4, <1>5, <1>6, <1>7, <1>9, <2>2, <2>3
<1>10. QED
  BY <1>8, <1>9

LEMMA LeaveScope ==
  ASSUME OnDisk, scope \in Scopes, Leave
  PROVE  LET n == IF Len(stack) = 1 THEN 0 ELSE 1 IN
         /\ scope' \in Scopes /\ scope.bytes \in Nat
         /\ scope'.bad <=> scope.bad \/ scope.bytes + n > MaxBytes
         /\ scope'.bytes = IF scope.bytes + n > MaxBytes THEN scope.bytes ELSE scope.bytes + n
         /\ scope'.entries = scope.entries /\ scope'.nested = scope.nested
         /\ scope'.seen = scope.seen /\ scope'.regular = scope.regular /\ scope'.writable = scope.writable
<1>1. MaxBytes \in Nat
  BY ScanAssumption
<1>2. scope.bytes \in Nat /\ scope.bytes <= MaxBytes
  BY <1>1 DEF Scopes
<1>3. CASE Len(stack) = 1
  <2>1. scope' = scope
    BY <1>3 DEF Leave
  <2>2. QED
    BY <1>1, <1>2, <1>3, <2>1
<1>4. CASE Len(stack) # 1
  <2> DEFINE one == 1
  <2>1. scope' = addBytes(scope, one) /\ one \in Nat
    BY <1>4 DEF Leave
  <2> HIDE DEF one
  <2>2. /\ scope' \in Scopes
        /\ scope'.bad <=> scope.bad \/ scope.bytes + one > MaxBytes
        /\ scope'.bytes = IF scope.bytes + one > MaxBytes THEN scope.bytes ELSE scope.bytes + one
        /\ scope'.entries = scope.entries /\ scope'.nested = scope.nested
        /\ scope'.seen = scope.seen /\ scope'.regular = scope.regular /\ scope'.writable = scope.writable
    BY <1>1, <2>1, AddBytesScope
  <2>3. QED
    BY <1>2, <1>4, <2>2 DEF one
<1>5. QED
  BY <1>3, <1>4

LEMMA LeaveInv ==
  ASSUME ScanInv, Leave
  PROVE  ScanInv'
<1> DEFINE n == IF Len(stack) = 1 THEN 0 ELSE 1
<1>1. OnDisk /\ WalkInOrder /\ ScopeIsAccount /\ PassedIsSound /\ scope \in Scopes
  BY DEF Leave, ScanInv
<1>2. /\ WalkInOrder' /\ Passed' = Passed /\ Entered' = Entered
      /\ Len(stack) = 1 => stack' = <<>>
      /\ Len(stack) # 1 => stack' # <<>>
  BY <1>1, LeaveWalk
<1>3. /\ tree' = tree /\ limits' = limits
      /\ verdict' = IF scope'.bad THEN "refused" ELSE IF Len(stack) = 1 THEN "accepted" ELSE ""
  BY DEF Leave
<1>4. /\ scope' \in Scopes /\ scope.bytes \in Nat
      /\ scope'.bad <=> scope.bad \/ scope.bytes + n > MaxBytes
      /\ scope'.bytes = IF scope.bytes + n > MaxBytes THEN scope.bytes ELSE scope.bytes + n
      /\ scope'.entries = scope.entries /\ scope'.nested = scope.nested
      /\ scope'.seen = scope.seen /\ scope'.regular = scope.regular /\ scope'.writable = scope.writable
  BY <1>1, LeaveScope
<1>5. /\ Nested' = Nested
      /\ scope.bytes + n = Spent(Passed, Nested', Finished')
      /\ scope.bytes + n <= Bytes /\ Bytes \in Nat
  <2>1. /\ Nested' = Nested /\ Nested' \in SUBSET (Reached \ {ScanTop})
        /\ Finished' \in SUBSET (Reached \ {ScanTop})
        /\ Spent(Passed, Nested', Finished') = Spent(Passed, Nested, Finished) + n
    BY <1>1, LeaveSpends
  <2>2. scope.bytes = Spent(Passed, Nested, Finished)
    BY <1>1 DEF ScopeIsAccount, Spent
  <2>3. Spent(Passed, Nested', Finished') <= Bytes /\ Bytes \in Nat
    BY <1>1, <2>1, SpentIsPart
  <2>4. QED
    BY <2>1, <2>2, <2>3
<1>6. /\ OnDisk' /\ (CanBeSigned <=> CanBeSigned') /\ Scopes' = Scopes
      /\ NotVersions' = NotVersions /\ NestedCode' = NestedCode /\ Measured' = Measured /\ Members' = Members
  BY <1>1, <1>3, TreeStays
<1>7. scope'.entries <= limits'.entries + 1 /\ scope'.nested <= limits'.nested + 1
  BY <1>3, <1>4 DEF ScanInv
<1>8. CASE scope'.bad
  <2>1. scope.bytes + n > MaxBytes
    BY <1>1, <1>4, <1>8 DEF PassedIsSound
  <2>2. n \in Nat /\ MaxBytes \in Nat
    BY ScanAssumption
  <2> HIDE DEF n
  <2>3. ~(Bytes <= MaxBytes)
    BY <1>4, <1>5, <2>1, <2>2
  <2>4. ~CanBeSigned
    BY <2>3 DEF CanBeSigned, WithinLimits
  <2>5. verdict' = "refused"
    BY <1>3, <1>8
  <2>6. QED
    BY <1>2, <1>4, <1>6, <1>7, <2>4, <2>5 DEF ScanInv
<1>9. CASE ~scope'.bad
  <2>1. scope'.bytes = Spent(Passed, Nested', Finished')
    BY <1>4, <1>5, <1>9
  <2>2. ScopeIsAccount'
    <3>1. scope'.entries = Cardinality(Passed' \cap NotVersions') /\ scope'.nested = Cardinality(Passed' \cap NestedCode')
      BY <1>1, <1>2, <1>4, <1>6 DEF ScopeIsAccount
    <3>2. scope'.bytes = SumOver(tree'.size, Passed' \cap Measured') + Cardinality(Nested') + Cardinality(Finished')
      BY <1>2, <1>3, <1>6, <2>1 DEF Spent
    <3>3. scope'.seen = {FullName(f)' : f \in Passed' \cap NotVersions'}
      BY <1>1, <1>2, <1>3, <1>4, <1>6 DEF FullName, ScopeIsAccount
    <3>4. scope'.regular = Passed' \cap Members'
      BY <1>1, <1>2, <1>4, <1>6 DEF ScopeIsAccount
    <3>5. scope'.writable = KnownTargets'
      BY <1>1, <1>2, <1>3, <1>4 DEF ScopeIsAccount, KnownTargets
    <3>6. QED
      BY <3>1, <3>2, <3>3, <3>4, <3>5 DEF ScopeIsAccount
  <2>3. PassedIsSound'
    <3>1. scope'.entries <= limits'.entries /\ scope'.nested <= limits'.nested
      BY <1>1, <1>3, <1>4 DEF PassedIsSound
    <3>2. \A b \in Entered' : Depth[b] <= limits'.depth
      BY <1>1, <1>2, <1>3 DEF PassedIsSound
    <3>3. \A f, g \in Passed' \cap NotVersions' : f # g => FullName(f)' # FullName(g)'
      BY <1>1, <1>2, <1>3, <1>6 DEF PassedIsSound, FullName
    <3>4. \A t \in scope'.writable, f \in scope'.regular : t # f => ~SameFile(t, f)'
      BY <1>1, <1>3, <1>4 DEF PassedIsSound, SameFile
    <3>5. QED
      BY <1>9, <3>1, <3>2, <3>3, <3>4 DEF PassedIsSound
  <2>4. verdict' = IF Len(stack) = 1 THEN "accepted" ELSE ""
    BY <1>3, <1>9
  <2>5. QED
    BY <1>2, <1>4, <1>6, <1>7, <2>2, <2>3, <2>4 DEF ScanInv
<1>10. QED
  BY <1>8, <1>9

---------------------------------------------------------------------------
(* The start, and the end *)

LEMMA ScanInitial == ScanInit => ScanInv
<1> SUFFICES ASSUME ScanInit PROVE ScanInv
  OBVIOUS
<1>1. /\ OnDisk /\ stack = <<ScanTop>> /\ left = [b \in ScanBundles |-> Contents(b)] /\ scope = Start
      /\ verdict = IF scope.bad THEN "refused" ELSE ""
  BY DEF ScanInit
<1>2. /\ ScanTop \in ScanBundles /\ Depth[ScanTop] = 0 /\ MaxBytes \in Nat
      /\ \A e \in tree.present : In[e] \in ScanBundles
      /\ limits.entries \in Nat /\ limits.nested \in Nat /\ limits.depth \in Nat
  BY <1>1, ScanAssumption DEF OnDisk
<1>a. Len(stack) = 1 /\ stack[1] = ScanTop /\ DOMAIN stack = {1} /\ stack \in Seq(ScanBundles)
  <2>1. stack = <<ScanTop>>
    BY <1>1
  <2>2. Len(stack) = 1 /\ stack[1] = ScanTop /\ stack \in Seq(ScanBundles)
    BY <1>2, <2>1
  <2>3. DOMAIN stack = 1..1
    BY <2>1
  <2>4. QED
    BY <2>2, <2>3
<1>3. Passed = {} /\ Entered = {ScanTop} /\ Open = {ScanTop} /\ Nested = {} /\ Finished = {}
  <2>1. \A e \in tree.present : e \in left[In[e]]
    BY <1>1, <1>2 DEF Contents
  <2>2. Passed = {}
    BY <2>1 DEF Passed
  <2>3. Entered = {ScanTop}
    BY <2>2 DEF Entered
  <2>4. Open = {ScanTop}
    BY <1>a DEF Open
  <2>5. QED
    BY <2>2, <2>3, <2>4 DEF Nested, Finished
<1>4. WalkInOrder
  <2>1. \A b \in ScanBundles : left[b] = Contents(b) /\ Contents(b) \subseteq tree.present
    BY <1>1 DEF Contents
  <2>2. left \in [ScanBundles -> SUBSET tree.present]
    BY <1>1, <2>1
  <2>3. /\ stack \in Seq(ScanBundles) /\ Len(stack) <= limits.depth + 2
        /\ \A k \in DOMAIN stack : Depth[stack[k]] = k - 1
    BY <1>2, <1>a
  <2>4. Open \subseteq Entered /\ Entered \ Open = {}
    BY <1>3
  <2>5. QED
    BY <2>1, <2>2, <2>3, <2>4 DEF WalkInOrder
<1> DEFINE s == [entries |-> 0, nested |-> 0, bytes |-> 0, seen |-> {}, regular |-> {},
                 writable |-> {}, bad |-> FALSE]
<1>5. /\ s \in Scopes /\ s.entries = 0 /\ s.nested = 0 /\ s.bytes = 0 /\ s.seen = {}
      /\ s.regular = {} /\ s.writable = {} /\ ~s.bad
  BY <1>2 DEF Scopes
<1>6. Start = TargetsOf(s, ScanTop)
  BY DEF Start
<1> HIDE DEF s
<1>7. /\ scope \in Scopes
      /\ scope.bad <=> s.bad \/ \E e \in Targets(ScanTop) : Linked(e, s.regular)
      /\ scope.writable = s.writable \cup Targets(ScanTop) /\ scope.regular = s.regular
  BY <1>1, <1>5, <1>6, TargetsOfScope
<1>8. scope.entries = s.entries /\ scope.nested = s.nested /\ scope.bytes = s.bytes /\ scope.seen = s.seen
  BY <1>1, <1>5, <1>6, TargetsOfScope
<1>9. ~scope.bad
  BY <1>5, <1>7 DEF Linked
<1>10. ScopeIsAccount
  <2>1. /\ Passed \cap NotVersions = {} /\ Passed \cap NestedCode = {}
        /\ Passed \cap Measured = {} /\ Passed \cap Members = {}
    BY <1>3
  <2>2. scope.entries = Cardinality(Passed \cap NotVersions) /\ scope.nested = Cardinality(Passed \cap NestedCode)
    BY <1>5, <1>8, <2>1, FS_EmptySet
  <2>3. SumOver(tree.size, Passed \cap Measured) = 0 /\ Cardinality(Nested) = 0 /\ Cardinality(Finished) = 0
    BY <1>3, <2>1, SumOverEmpty, FS_EmptySet
  <2>4. scope.bytes = SumOver(tree.size, Passed \cap Measured) + Cardinality(Nested) + Cardinality(Finished)
    BY <1>5, <1>8, <2>3
  <2>5. scope.seen = {FullName(e) : e \in Passed \cap NotVersions} /\ scope.regular = Passed \cap Members
    BY <1>5, <1>7, <1>8, <2>1
  <2>6. scope.writable = KnownTargets
    BY <1>3, <1>5, <1>7 DEF KnownTargets, Targets, Contents
  <2>7. QED
    BY <2>2, <2>4, <2>5, <2>6 DEF ScopeIsAccount
<1>11. PassedIsSound
  <2>1. scope.entries <= limits.entries /\ scope.nested <= limits.nested
    BY <1>2, <1>5, <1>8
  <2>2. \A b \in Entered : Depth[b] <= limits.depth
    BY <1>2, <1>3
  <2>3. scope.regular = {} /\ Passed = {}
    BY <1>3, <1>5, <1>7
  <2>4. QED
    BY <1>9, <2>1, <2>2, <2>3 DEF PassedIsSound
<1>12. scope.entries <= limits.entries + 1 /\ scope.nested <= limits.nested + 1
  BY <1>2, <1>5, <1>8
<1>13. verdict = "" /\ stack # <<>>
  BY <1>1, <1>9
<1>14. QED
  BY <1>1, <1>4, <1>7, <1>10, <1>11, <1>12, <1>13 DEF ScanInv

\* When no bundle is open any more, the walk has passed everything.
LEMMA AllIsPassed ==
  ASSUME OnDisk, WalkInOrder, stack = <<>>
  PROVE  Passed = tree.present /\ Entered = Reached
<1>1. \A b \in Entered : left[b] = {}
  BY DEF WalkInOrder, Open
<1>2. \A e \in tree.present : /\ In[e] \in ScanBundles /\ Depth[In[e]] \in Nat
                              /\ In[e] \in Reached
  BY ScanAssumption DEF OnDisk
<1>3. ASSUME NEW e \in tree.present, In[e] \in Entered PROVE e \in Passed
  BY <1>1, <1>3 DEF Passed
<1> DEFINE D == {Depth[In[e]] : e \in {f \in tree.present : In[f] \notin Entered}}
           R == OpToRel(<, Nat)
<1>4. D = {}
  <2>1. SUFFICES ASSUME D # {} PROVE FALSE
    OBVIOUS
  <2>2. D \subseteq Nat
    BY <1>2
  <2>3. IsWellFoundedOn(R, Nat)
    BY NatLessThanWellFounded
  <2>a. \A x, y \in Nat : x < y => <<x, y>> \in R
    BY DEF OpToRel
  <2>4. PICK d \in D : \A x \in D : <<x, d>> \notin R
    <3> HIDE DEF D, R
    <3>1. QED
      BY <2>1, <2>2, <2>3, WFMin
  <2>5. \A x \in D : ~(x < d)
    <3> HIDE DEF D, R
    <3>1. QED
      BY <2>2, <2>a, <2>4
  <2>6. PICK e \in tree.present : In[e] \notin Entered /\ d = Depth[In[e]]
    BY <2>4
  <2>7. In[e] # ScanTop /\ In[e] \in Reached
    BY <1>2, <2>6 DEF Entered
  <2>8. PICK c \in tree.present : Kind[c] = "child" /\ NestedBundle[c] = In[e]
    BY <2>7 DEF Reached
  <2>9. c \in ChildEntries
    BY <2>8 DEF ChildEntries, OnDisk
  <2>10. Depth[In[e]] = Depth[In[c]] + 1
    BY <2>8, <2>9, ScanAssumption
  <2>11. In[c] \in Entered
    <3>1. SUFFICES ASSUME In[c] \notin Entered PROVE FALSE
      OBVIOUS
    <3>2. Depth[In[c]] \in D
      BY <3>1
    <3>3. Depth[In[c]] \in Nat
      BY <1>2
    <3> HIDE DEF D
    <3>4. QED
      BY <2>5, <2>6, <2>10, <3>2, <3>3
  <2>12. c \in Passed
    BY <1>3, <2>11
  <2>13. In[e] \in Entered
    BY <2>8, <2>12 DEF Entered
  <2>14. QED
    BY <2>6, <2>13
<1>5. \A e \in tree.present : In[e] \in Entered
  BY <1>4
<1>6. Passed = tree.present
  BY <1>3, <1>5 DEF Passed
<1>7. Entered = Reached
  BY <1>6 DEF Entered, Reached
<1>8. QED
  BY <1>6, <1>7

LEMMA AcceptedIsSound ==
  ASSUME ScanInv, verdict = "accepted"
  PROVE  CanBeSigned /\ \A b \in Reached : left[b] = {}
<1>1. OnDisk /\ WalkInOrder /\ ScopeIsAccount /\ PassedIsSound /\ scope \in Scopes /\ stack = <<>>
  BY DEF ScanInv
<1>2. Passed = tree.present /\ Entered = Reached
  BY <1>1, AllIsPassed
<1>3. Open = {} /\ ScanTop \in Reached
  BY <1>1 DEF Open, Reached
<1>4. /\ Passed \cap NotVersions = NotVersions /\ Passed \cap NestedCode = NestedCode
      /\ Passed \cap Measured = Measured /\ Passed \cap Members = Members
  BY <1>2 DEF NotVersions, NestedCode, Measured, Members
<1>5. scope.bytes = Bytes
  <2>1. scope.bytes = SumOver(tree.size, Measured) + Cardinality(Nested) + Cardinality(Finished)
    BY <1>1, <1>4 DEF ScopeIsAccount
  <2>2. Nested = Reached \ {ScanTop} /\ Finished = Nested
    BY <1>2, <1>3 DEF Nested, Finished
  <2>3. /\ IsFiniteSet(Reached) /\ IsFiniteSet(Measured) /\ \A e \in Measured : tree.size[e] \in Nat
    BY <1>1, TreeIsFinite
  <2>4. Cardinality(Nested) = Cardinality(Reached) - 1 /\ Cardinality(Reached) \in Nat
    BY <1>3, <2>2, <2>3, FS_RemoveElement, FS_CardinalityType
  <2>5. SumOver(tree.size, Measured) \in Nat
    BY <2>3, SumOverNat
  <2>6. Bytes = SumOver(tree.size, Measured) + 2 * (Cardinality(Reached) - 1)
    BY DEF Bytes, TotalSize, SumOver
  <2>7. Cardinality(Finished) = Cardinality(Nested)
    BY <2>2
  <2>8. QED
    BY <2>1, <2>4, <2>5, <2>6, <2>7
<1>6. scope.bytes <= MaxBytes
  BY <1>1, ScanAssumption DEF Scopes
<1>7. WithinLimits
  <2>1. Cardinality(NotVersions) = scope.entries /\ Cardinality(NestedCode) = scope.nested
    BY <1>1, <1>4 DEF ScopeIsAccount
  <2>2. QED
    BY <1>1, <1>2, <1>5, <1>6, <2>1 DEF WithinLimits, PassedIsSound
<1>8. Distinct
  BY <1>1, <1>4 DEF Distinct, PassedIsSound, FullName
<1>9. Apart
  <2>1. scope.regular = Members
    BY <1>1, <1>4 DEF ScopeIsAccount
  <2>2. Rewritten \subseteq scope.writable
    <3>1. \A e \in tree.present : In[e] \in Entered
      BY <1>1, <1>2 DEF OnDisk
    <3>2. scope.writable = KnownTargets
      BY <1>1 DEF ScopeIsAccount
    <3>3. QED
      BY <1>2, <3>1, <3>2 DEF KnownTargets, Rewritten
  <2>3. QED
    BY <1>1, <2>1, <2>2 DEF Apart, PassedIsSound
<1>10. \A b \in Reached : left[b] = {}
  BY <1>1, <1>2, <1>3 DEF WalkInOrder
<1>11. QED
  BY <1>7, <1>8, <1>9, <1>10 DEF CanBeSigned

LEMMA ScanStutters ==
  ASSUME ScanInv, UNCHANGED scanVars
  PROVE  ScanInv'
<1> USE DEF scanVars
<1>1. tree' = tree /\ limits' = limits /\ left' = left /\ stack' = stack /\ scope' = scope /\ verdict' = verdict
  OBVIOUS
<1>2. /\ OnDisk' <=> OnDisk
      /\ CanBeSigned' <=> CanBeSigned
      /\ Scopes' = Scopes /\ NotVersions' = NotVersions /\ NestedCode' = NestedCode
      /\ Measured' = Measured /\ Members' = Members
  BY <1>1, TreeStays
<1>3. Passed' = Passed /\ Open' = Open
  BY <1>1 DEF Passed, Open
<1>4. Entered' = Entered
  BY <1>3 DEF Entered
<1>5. Nested' = Nested /\ Finished' = Finished /\ KnownTargets' = KnownTargets
  BY <1>1, <1>3, <1>4 DEF Nested, Finished, KnownTargets
<1>6. WalkInOrder' <=> WalkInOrder
  BY <1>1, <1>3, <1>4 DEF WalkInOrder, Contents
<1>7. ScopeIsAccount => ScopeIsAccount'
  BY <1>1, <1>2, <1>3, <1>5 DEF ScopeIsAccount, FullName
<1>8. PassedIsSound => PassedIsSound'
  BY <1>1, <1>2, <1>3, <1>4 DEF PassedIsSound, FullName, SameFile
<1>9. QED
  BY <1>1, <1>2, <1>6, <1>7, <1>8 DEF ScanInv

---------------------------------------------------------------------------
(* Theorems *)

\* At every moment of the walk the bundleScan is the account of what has been passed, in
\* whatever order the file system gave it: the counts of entries and of nested code, the
\* bytes, the names, the regular files, and the targets of every bundle entered.
THEOREM ScanInvariant == ScanSpec => []ScanInv
<1>1. ScanInit => ScanInv
  BY ScanInitial
<1>2. ScanInv /\ [ScanNext]_scanVars => ScanInv'
  BY VisitInv, LeaveInv, ScanStutters DEF ScanNext
<1>3. QED
  BY <1>1, <1>2, PTL DEF ScanSpec

\* The type of the scan; when a tree is accepted nothing of it has been passed over.
LEMMA ScanTypes == ScanInv => ScanTypeOK
<1> SUFFICES ASSUME ScanInv PROVE ScanTypeOK
  OBVIOUS
<1>1. OnDisk /\ WalkInOrder /\ scope \in Scopes
  BY DEF ScanInv
<1>2. limits.entries \in Nat /\ limits.nested \in Nat
  BY <1>1 DEF OnDisk
<1>3. scope.entries \in 0..limits.entries + 1 /\ scope.nested \in 0..limits.nested + 1
  <2>1. scope.entries \in Nat /\ scope.nested \in Nat
    BY <1>1 DEF Scopes
  <2>2. scope.entries <= limits.entries + 1 /\ scope.nested <= limits.nested + 1
    BY DEF ScanInv
  <2>3. QED
    BY <1>2, <2>1, <2>2
<1>4. scope.bytes \in 0..MaxBytes /\ scope.regular \cup scope.writable \subseteq tree.present
  BY <1>1 DEF Scopes
<1>5. /\ stack \in Seq(ScanBundles) /\ Len(stack) <= limits.depth + 2
      /\ \A b \in ScanBundles : left[b] \subseteq Contents(b)
  BY <1>1 DEF WalkInOrder
<1>6. verdict \in {"", "accepted", "refused"}
  BY DEF ScanInv
<1>7. verdict = "accepted" => \A b \in Reached : left[b] = {}
  BY AcceptedIsSound
<1>8. QED
  BY <1>3, <1>4, <1>5, <1>6, <1>7 DEF ScanTypeOK

\* Whatever the tree, the limits and the order in which the file system enumerates it, the
\* walk of scanTree accepts only what keeps the limits in total, has no two names that
\* collide and no write target that is another member's file, and refuses nothing else.
THEOREM ScanHoldsAlways == ScanSpec => []ScanHolds
<1>1. ScanInv => ScanHolds
  <2>1. ScanInv /\ verdict = "accepted" => CanBeSigned
    BY AcceptedIsSound
  <2>2. ScanInv /\ verdict = "refused" => ~CanBeSigned
    BY DEF ScanInv
  <2>3. QED
    BY <2>1, <2>2, ScanTypes DEF ScanHolds, NoAlias, LimitsAreShared, RefusedForCause, CanBeSigned
<1>2. QED
  BY <1>1, ScanInvariant, PTL
=============================================================================
