-------------------------- MODULE WorkingStorage --------------------------
(***************************************************************************)
(* The operation-owned scratch storage of pkg/codesign/working_storage.go   *)
(* and the recompression stages of pkg/codesign/compression.go.             *)
(*                                                                          *)
(* One workingStorage serves an operation, its nested code and its          *)
(* concurrent workers.  Workers take transfer buffers from a byte budget    *)
(* and block on the channel s.changed when the budget is exhausted; they    *)
(* build persistent sections, in memory while the budget allows and in one  *)
(* shared spill file otherwise; and they own compression stages, scratch    *)
(* files with a mutex of their own.  Close ends the scope while any of that *)
(* may still be in progress.                                                *)
(*                                                                          *)
(* Every critical section of s.mu is one action: no code takes another lock *)
(* or blocks while it holds s.mu.  stage.mu is explicit, because stage code *)
(* takes s.mu while it holds stage.mu.                                      *)
(***************************************************************************)
EXTENDS Integers, Sequences, FiniteSets, FiniteSetsExt

CONSTANTS
  Workers,            \* goroutines that share the operation's context
  Closers,            \* calls of Close, normally the operation's deferred one
  Stages,             \* names of compression scratch files, used once each
  MemoryBytes,        \* options.MemoryBytes
  TransferBufferSize, \* transferBufferSize
  BufferSizes,        \* sizes passed to transferBuffer
  SectionSizes,       \* sizes passed to newWorkingSection
  WriteEnds,          \* ends at+len(p) of the writes to a stage
  MaxInt64,           \* math.MaxInt64
  MaxRounds,          \* bound: operations per worker
  None

ASSUME StorageAssumption ==
  /\ MemoryBytes \in Nat /\ TransferBufferSize \in Nat /\ MaxInt64 \in Nat
  /\ TransferBufferSize > 0
  /\ MemoryBytes >= TransferBufferSize   \* beginWorkingStorage refuses less
  /\ BufferSizes \subseteq Nat /\ SectionSizes \subseteq Nat
  /\ WriteEnds \subseteq 0..MaxInt64
  /\ MaxRounds \in Nat
  /\ Workers \cap Closers = {}
  /\ None \notin Workers \cup Closers \cup Stages
  /\ None \notin Nat
  /\ IsFiniteSet(Workers) /\ IsFiniteSet(Closers) /\ IsFiniteSet(Stages)

VARIABLES
  pc,               \* pc[t]: where goroutine t is
  want,             \* want[w]: bytes w asks for, or of the buffer it holds
  channel,          \* channel[w]: the s.changed that w read before it waited
  rounds,           \* rounds[w]: operations w has started
  canceled,         \* ctx.Err() # nil
  changed,          \* identity of s.changed; a new channel is a new number
  closedChannel,    \* the last channel number that was closed
  panicked,         \* a closed channel was closed again
  closed,           \* s.closed
  memoryBytes,      \* s.stats.MemoryBytes
  peakMemoryBytes,  \* s.stats.PeakMemoryBytes
  sections,         \* every section handed out, in order
  file,             \* s.file: "none", "open", "removed" or "left"
  spillBytes,       \* s.stats.SpillBytes
  temporaryBytes,   \* s.stats.TemporaryBytes
  temporaryFiles,   \* s.stats.TemporaryFiles
  registered,       \* s.stages
  stage,            \* stage[st]: [lock, closed, extent, exists] of a stage
  use,              \* use[t]: the stage goroutine t works on
  todo,             \* todo[c]: the stages Close copied and has not closed yet
  observed          \* the stats passed to options.Observe, in order

bufferVars  == <<want, channel, rounds>>
signalVars  == <<changed, closedChannel, panicked>>
memoryVars  == <<memoryBytes, peakMemoryBytes>>
tempVars    == <<temporaryBytes, temporaryFiles>>
spillVars   == <<sections, file, spillBytes>>
stageVars   == <<registered, stage>>
closeVars   == <<closed, todo, observed>>
vars == <<pc, bufferVars, canceled, signalVars, closeVars, memoryVars,
          spillVars, tempVars, stageVars, use>>

Threads == Workers \cup Closers

Goto(t, label) == pc' = [pc EXCEPT ![t] = label]

\* A worker starts one more of its bounded number of operations.
Begin(w) ==
  /\ pc[w] = "idle"
  /\ rounds[w] < MaxRounds
  /\ rounds' = [rounds EXCEPT ![w] = @ + 1]

---------------------------------------------------------------------------
(* reserve, release and the channel *)

reserve(n) ==
  /\ memoryBytes' = memoryBytes + n
  /\ peakMemoryBytes' = IF memoryBytes + n > peakMemoryBytes
                        THEN memoryBytes + n ELSE peakMemoryBytes

\* close(s.changed): panics when the channel is already closed.
closeChanged ==
  /\ closedChannel' = changed
  /\ panicked' = (panicked \/ closedChannel >= changed)

\* Mutant of release: no s.closed test.
ReleaseUnchecked(w) ==
  /\ pc[w] = "holding"
  /\ memoryBytes' = memoryBytes - want[w]
  /\ closeChanged
  /\ changed' = changed + 1
  /\ want' = [want EXCEPT ![w] = 0]
  /\ Goto(w, "idle")
  /\ UNCHANGED <<peakMemoryBytes, channel, rounds, canceled, closeVars,
                 spillVars, tempVars, stageVars, use>>

\* Mutant of release: the channel is replaced but not closed.
ReleaseSilent(w) ==
  /\ pc[w] = "holding"
  /\ IF closed
     THEN UNCHANGED <<memoryBytes, changed>>
     ELSE /\ memoryBytes' = memoryBytes - want[w]
          /\ changed' = changed + 1
  /\ want' = [want EXCEPT ![w] = 0]
  /\ Goto(w, "idle")
  /\ UNCHANGED <<peakMemoryBytes, closedChannel, panicked, channel, rounds,
                 canceled, closeVars, spillVars, tempVars, stageVars, use>>

\* release: a no-op once the storage is closed, because Close has closed the
\* channel and zeroes the counter itself.
release(w) ==
  /\ pc[w] = "holding"
  /\ IF closed
     THEN UNCHANGED <<memoryVars, signalVars>>
     ELSE /\ memoryBytes' = memoryBytes - want[w]
          /\ closeChanged
          /\ changed' = changed + 1
          /\ UNCHANGED peakMemoryBytes
  /\ want' = [want EXCEPT ![w] = 0]
  /\ Goto(w, "idle")
  /\ UNCHANGED <<channel, rounds, canceled, closeVars, spillVars, tempVars,
                 stageVars, use>>

---------------------------------------------------------------------------
(* transferBuffer *)

transferBuffer(w, size) ==
  /\ Begin(w)
  /\ want' = [want EXCEPT ![w] = IF size < TransferBufferSize
                                 THEN size ELSE TransferBufferSize]
  /\ Goto(w, "loop")
  /\ UNCHANGED <<channel, canceled, signalVars, closeVars, memoryVars,
                 spillVars, tempVars, stageVars, use>>

\* ctx.Err() is read before s.mu is taken: a cancellation may fall between.
CheckContext(w) ==
  /\ pc[w] = "loop"
  /\ want' = IF canceled THEN [want EXCEPT ![w] = 0] ELSE want
  /\ Goto(w, IF canceled THEN "idle" ELSE "try")
  /\ UNCHANGED <<channel, rounds, canceled, signalVars, closeVars, memoryVars,
                 spillVars, tempVars, stageVars, use>>

\* Mutant of Fits: what is already reserved is not subtracted.
FitsAlone(n) == n <= MemoryBytes

Fits(n) == n <= MemoryBytes - memoryBytes

\* The critical section of the loop: os.ErrClosed, the reservation, or the
\* channel captured under the lock and waited for after the unlock.
TryReserve(w) ==
  /\ pc[w] = "try"
  /\ \/ /\ closed
        /\ want' = [want EXCEPT ![w] = 0]
        /\ Goto(w, "idle")
        /\ UNCHANGED <<channel, memoryVars>>
     \/ /\ ~closed /\ Fits(want[w])
        /\ reserve(want[w])
        /\ Goto(w, "holding")
        /\ UNCHANGED <<channel, want>>
     \/ /\ ~closed /\ ~Fits(want[w])
        /\ channel' = [channel EXCEPT ![w] = changed]
        /\ Goto(w, "waiting")
        /\ UNCHANGED <<memoryVars, want>>
  /\ UNCHANGED <<rounds, canceled, signalVars, closeVars, spillVars, tempVars,
                 stageVars, use>>

\* The select: cancellation returns, a closed channel retries.
Wake(w) ==
  /\ pc[w] = "waiting"
  /\ \/ /\ canceled
        /\ want' = [want EXCEPT ![w] = 0]
        /\ Goto(w, "idle")
     \/ /\ channel[w] <= closedChannel
        /\ Goto(w, "loop")
        /\ UNCHANGED want
  /\ UNCHANGED <<channel, rounds, canceled, signalVars, closeVars, memoryVars,
                 spillVars, tempVars, stageVars, use>>

Cancel ==
  /\ ~canceled
  /\ canceled' = TRUE
  /\ UNCHANGED <<pc, bufferVars, signalVars, closeVars, memoryVars, spillVars,
                 tempVars, stageVars, use>>

---------------------------------------------------------------------------
(* newWorkingSection *)

\* Mutant of FitsMemory: a section may take the last transfer buffer.
FitsAnywhere(size) == size <= MemoryBytes - memoryBytes

\* A section in memory leaves one transfer buffer of the budget unreserved.
FitsMemory(size) == size <= MemoryBytes - memoryBytes - TransferBufferSize

BeginSection(w, size) ==
  /\ Begin(w)
  /\ want' = IF canceled THEN want ELSE [want EXCEPT ![w] = size]
  /\ Goto(w, IF canceled THEN "idle" ELSE "section")
  /\ UNCHANGED <<channel, canceled, signalVars, closeVars, memoryVars,
                 spillVars, tempVars, stageVars, use>>

\* Mutant of SpillOverflow: the extents are not bounded.
SpillUnbounded(size) == FALSE

SpillOverflow(size) ==
  \/ size > MaxInt64 - spillBytes
  \/ size > MaxInt64 - temporaryBytes

\* Mutant of Spill: the extent is set to the new size instead of growing.
SpillRestarted(size) ==
  /\ file' = "open"
  /\ temporaryFiles' = IF file = "none" THEN temporaryFiles + 1
                       ELSE temporaryFiles
  /\ sections' = Append(sections,
                        [place |-> "spill", base |-> spillBytes, size |-> size])
  /\ spillBytes' = size
  /\ temporaryBytes' = temporaryBytes + size

\* The three outcomes of the spill branch: s.create fails, Truncate fails
\* (the file exists, its extent is unchanged), or the section is allocated.
Spill(size) ==
  \/ /\ file = "none"
     /\ UNCHANGED <<spillVars, tempVars>>
  \/ /\ file' = "open"
     /\ temporaryFiles' = IF file = "none" THEN temporaryFiles + 1
                          ELSE temporaryFiles
     /\ UNCHANGED <<sections, spillBytes, temporaryBytes>>
  \/ /\ file' = "open"
     /\ temporaryFiles' = IF file = "none" THEN temporaryFiles + 1
                          ELSE temporaryFiles
     /\ sections' = Append(sections,
                           [place |-> "spill", base |-> spillBytes, size |-> size])
     /\ spillBytes' = spillBytes + size
     /\ temporaryBytes' = temporaryBytes + size

newWorkingSection(w) ==
  /\ pc[w] = "section"
  /\ \/ /\ closed
        /\ UNCHANGED <<memoryVars, spillVars, tempVars>>
     \/ /\ ~closed /\ FitsMemory(want[w])
        /\ reserve(want[w])
        /\ sections' = Append(sections, [place |-> "memory", base |-> 0,
                                         size |-> want[w]])
        /\ UNCHANGED <<file, spillBytes, tempVars>>
     \/ /\ ~closed /\ ~FitsMemory(want[w]) /\ SpillOverflow(want[w])
        /\ UNCHANGED <<memoryVars, spillVars, tempVars>>
     \/ /\ ~closed /\ ~FitsMemory(want[w]) /\ ~SpillOverflow(want[w])
        /\ Spill(want[w])
        /\ UNCHANGED memoryVars
  /\ want' = [want EXCEPT ![w] = 0]
  /\ Goto(w, "idle")
  /\ UNCHANGED <<channel, rounds, canceled, signalVars, closeVars, stageVars,
                 use>>

---------------------------------------------------------------------------
(* compressionStage *)

NewStage == [lock |-> None, closed |-> FALSE, extent |-> 0, exists |-> FALSE]

BeginStage(w, st) ==
  /\ Begin(w)
  /\ use[w] = None
  /\ \A t \in Threads : use[t] # st
  /\ stage[st] = NewStage              \* os.CreateTemp finds an unused name
  /\ use' = IF canceled THEN use ELSE [use EXCEPT ![w] = st]
  /\ Goto(w, IF canceled THEN "idle" ELSE "stage")
  /\ UNCHANGED <<want, channel, canceled, signalVars, closeVars, memoryVars,
                 spillVars, tempVars, stageVars>>

\* One critical section of s.mu: os.ErrClosed, a failed s.create, or a file
\* that is registered and counted.
newCompressionStage(w) ==
  LET st == use[w] IN
  /\ pc[w] = "stage"
  /\ \/ /\ use' = [use EXCEPT ![w] = None]
        /\ UNCHANGED <<stageVars, temporaryFiles>>
     \/ /\ ~closed
        /\ registered' = registered \cup {st}
        /\ stage' = [stage EXCEPT ![st].exists = TRUE]
        /\ temporaryFiles' = temporaryFiles + 1
        /\ UNCHANGED use
  /\ Goto(w, "idle")
  /\ UNCHANGED <<bufferVars, canceled, signalVars, closeVars, memoryVars,
                 spillVars, temporaryBytes>>

LockStage(t, st) ==
  /\ stage[st].lock = None
  /\ stage' = [stage EXCEPT ![st].lock = t]

\* WriteAt takes stage.mu, then s.mu.
BeginWriteAt(w) ==
  /\ Begin(w)
  /\ use[w] # None
  /\ LockStage(w, use[w])
  /\ Goto(w, "write")
  /\ UNCHANGED <<want, channel, canceled, signalVars, closeVars, memoryVars,
                 spillVars, tempVars, registered, use>>

\* Mutant of WriteAt: the extent is not checked against the counter's range.
WriteAtUnbounded(w, end, reached) ==
  LET st      == use[w]
      Grow(n) == IF n > stage[st].extent THEN n - stage[st].extent ELSE 0
  IN /\ pc[w] = "write"
     /\ ~stage[st].closed /\ ~closed
     /\ stage' = [stage EXCEPT ![st].lock = None,
                               ![st].extent = @ + Grow(reached)]
     /\ temporaryBytes' = temporaryBytes + Grow(reached)
     /\ Goto(w, "idle")
     /\ UNCHANGED <<bufferVars, canceled, signalVars, closeVars, memoryVars,
                    spillVars, temporaryFiles, registered, use>>

\* Mutant of WriteAt: a refused write returns with stage.mu held.
WriteAtKeepsLock(w, end, reached) ==
  LET st      == use[w]
      Grow(n) == IF n > stage[st].extent THEN n - stage[st].extent ELSE 0
  IN /\ pc[w] = "write"
     /\ IF stage[st].closed \/ closed \/ Grow(end) > MaxInt64 - temporaryBytes
        THEN UNCHANGED <<stage, temporaryBytes>>
        ELSE /\ stage' = [stage EXCEPT ![st].lock = None,
                                       ![st].extent = @ + Grow(reached)]
             /\ temporaryBytes' = temporaryBytes + Grow(reached)
     /\ Goto(w, "idle")
     /\ UNCHANGED <<bufferVars, canceled, signalVars, closeVars, memoryVars,
                    spillVars, temporaryFiles, registered, use>>

\* The request ends at end; the file is written up to reached, which is less
\* when the write fails part way.  A request that could not be counted fails
\* before any byte is written.
WriteAt(w, end, reached) ==
  LET st      == use[w]
      Grow(n) == IF n > stage[st].extent THEN n - stage[st].extent ELSE 0
  IN /\ pc[w] = "write"
     /\ IF stage[st].closed \/ closed \/ Grow(end) > MaxInt64 - temporaryBytes
        THEN /\ stage' = [stage EXCEPT ![st].lock = None]
             /\ UNCHANGED temporaryBytes
        ELSE /\ stage' = [stage EXCEPT ![st].lock = None,
                                       ![st].extent = @ + Grow(reached)]
             /\ temporaryBytes' = temporaryBytes + Grow(reached)
     /\ Goto(w, "idle")
     /\ UNCHANGED <<bufferVars, canceled, signalVars, closeVars, memoryVars,
                    spillVars, temporaryFiles, registered, use>>

\* stage.Close: the second of two closes returns at once.
BeginCloseStage(t, st, next) ==
  /\ stage[st].lock = None
  /\ IF stage[st].closed
     THEN /\ UNCHANGED stage
          /\ Goto(t, next)
     ELSE /\ stage' = [stage EXCEPT ![st].lock = t, ![st].closed = TRUE]
          /\ Goto(t, "remove")

\* The scratch file is closed and its removal succeeds or fails.
RemoveStage(t) ==
  /\ pc[t] = "remove"
  /\ \/ stage' = [stage EXCEPT ![use[t]].exists = FALSE]
     \/ UNCHANGED stage
  /\ Goto(t, "account")
  /\ UNCHANGED <<bufferVars, canceled, signalVars, closeVars, memoryVars,
                 spillVars, tempVars, registered, use>>

\* Mutant of AccountStage: a file that could not be removed is uncounted too.
AccountStageAlways(t, next) ==
  LET st == use[t] IN
  /\ pc[t] = "account"
  /\ registered' = registered \ {st}
  /\ temporaryFiles' = temporaryFiles - 1
  /\ temporaryBytes' = temporaryBytes - stage[st].extent
  /\ stage' = [stage EXCEPT ![st].lock = None]
  /\ use' = [use EXCEPT ![t] = None]
  /\ Goto(t, next)
  /\ UNCHANGED <<bufferVars, canceled, signalVars, closeVars, memoryVars,
                 spillVars>>

\* Under s.mu the stage leaves s.stages; a removed file leaves the counters.
AccountStage(t, next) ==
  LET st == use[t] IN
  /\ pc[t] = "account"
  /\ registered' = registered \ {st}
  /\ IF stage[st].exists
     THEN UNCHANGED tempVars
     ELSE /\ temporaryFiles' = temporaryFiles - 1
          /\ temporaryBytes' = temporaryBytes - stage[st].extent
  /\ stage' = [stage EXCEPT ![st].lock = None]
  /\ use' = [use EXCEPT ![t] = None]
  /\ Goto(t, next)
  /\ UNCHANGED <<bufferVars, canceled, signalVars, closeVars, memoryVars,
                 spillVars>>

\* A worker ends its compression.  Cleanup does not consult the context.
WorkerCloseStage(w) ==
  /\ pc[w] = "idle"
  /\ use[w] # None
  /\ BeginCloseStage(w, use[w], "idle")
  /\ use' = IF stage[use[w]].closed THEN [use EXCEPT ![w] = None] ELSE use
  /\ UNCHANGED <<bufferVars, canceled, signalVars, closeVars, memoryVars,
                 spillVars, tempVars, registered>>

---------------------------------------------------------------------------
(* Close *)

\* Mutant of Close: sleeping workers are not woken.
CloseSilently(c) ==
  /\ pc[c] = "start"
  /\ IF closed
     THEN /\ Goto(c, "done")
          /\ UNCHANGED <<closed, todo>>
     ELSE /\ closed' = TRUE
          /\ todo' = [todo EXCEPT ![c] = registered]
          /\ Goto(c, "stages")
  /\ UNCHANGED <<bufferVars, canceled, signalVars, observed, memoryVars,
                 spillVars, tempVars, stageVars, use>>

\* The first critical section of Close; a later Close returns nil here.
Close(c) ==
  /\ pc[c] = "start"
  /\ IF closed
     THEN /\ Goto(c, "done")
          /\ UNCHANGED <<closed, closedChannel, panicked, todo>>
     ELSE /\ closed' = TRUE
          /\ closeChanged
          /\ todo' = [todo EXCEPT ![c] = registered]
          /\ Goto(c, "stages")
  /\ UNCHANGED <<bufferVars, canceled, changed, observed, memoryVars,
                 spillVars, tempVars, stageVars, use>>

CloseNextStage(c) ==
  /\ pc[c] = "stages"
  /\ \E st \in todo[c] :
       /\ BeginCloseStage(c, st, "stages")
       /\ use' = IF stage[st].closed THEN use ELSE [use EXCEPT ![c] = st]
       /\ todo' = [todo EXCEPT ![c] = @ \ {st}]
  /\ UNCHANGED <<bufferVars, canceled, signalVars, closed, observed,
                 memoryVars, spillVars, tempVars, registered>>

\* s.file.Close and s.remove, outside the lock: no section can be created.
RemoveSpill(c) ==
  /\ pc[c] = "stages"
  /\ todo[c] = {}
  /\ IF file = "none"
     THEN /\ Goto(c, "report")
          /\ UNCHANGED file
     ELSE \/ file' = "removed" /\ Goto(c, "spill")
          \/ file' = "left"    /\ Goto(c, "report")
  /\ UNCHANGED <<bufferVars, canceled, signalVars, closeVars, memoryVars,
                 sections, spillBytes, tempVars, stageVars, use>>

AccountSpill(c) ==
  /\ pc[c] = "spill"
  /\ temporaryFiles' = temporaryFiles - 1
  /\ temporaryBytes' = temporaryBytes - spillBytes
  /\ Goto(c, "report")
  /\ UNCHANGED <<bufferVars, canceled, signalVars, closeVars, memoryVars,
                 spillVars, stageVars, use>>

\* The last critical section, and the callback on its copy of the stats.
Observe(c) ==
  /\ pc[c] = "report"
  /\ memoryBytes' = 0
  /\ observed' = Append(observed, [peak  |-> peakMemoryBytes,
                                   spill |-> spillBytes,
                                   bytes |-> temporaryBytes,
                                   files |-> temporaryFiles])
  /\ Goto(c, "done")
  /\ UNCHANGED <<bufferVars, canceled, signalVars, closed, todo,
                 peakMemoryBytes, spillVars, tempVars, stageVars, use>>

---------------------------------------------------------------------------

Init ==
  /\ pc = [t \in Threads |-> IF t \in Workers THEN "idle" ELSE "start"]
  /\ want = [w \in Workers |-> 0]
  /\ channel = [w \in Workers |-> 0]
  /\ rounds = [w \in Workers |-> 0]
  /\ canceled = FALSE
  /\ changed = 1 /\ closedChannel = 0 /\ panicked = FALSE
  /\ closed = FALSE
  /\ memoryBytes = 0 /\ peakMemoryBytes = 0
  /\ sections = <<>> /\ file = "none" /\ spillBytes = 0
  /\ temporaryBytes = 0 /\ temporaryFiles = 0
  /\ registered = {}
  /\ stage = [st \in Stages |-> NewStage]
  /\ use = [t \in Threads |-> None]
  /\ todo = [c \in Closers |-> {}]
  /\ observed = <<>>

WorkerStep(w) ==
  \/ CheckContext(w) \/ TryReserve(w) \/ Wake(w) \/ release(w)
  \/ newWorkingSection(w) \/ newCompressionStage(w)
  \/ \E end \in WriteEnds : \E reached \in 0..end : WriteAt(w, end, reached)
  \/ RemoveStage(w) \/ AccountStage(w, "idle")

WorkerStart(w) ==
  \/ \E size \in BufferSizes : transferBuffer(w, size)
  \/ \E size \in SectionSizes : BeginSection(w, size)
  \/ \E st \in Stages : BeginStage(w, st)
  \/ BeginWriteAt(w) \/ WorkerCloseStage(w)

CloserStep(c) ==
  \/ CloseNextStage(c) \/ RemoveStage(c) \/ AccountStage(c, "stages")
  \/ RemoveSpill(c) \/ AccountSpill(c) \/ Observe(c)

Next ==
  \/ \E w \in Workers : WorkerStep(w) \/ WorkerStart(w)
  \/ \E c \in Closers : Close(c) \/ CloserStep(c)
  \/ Cancel

\* A started call runs to its end: goroutines are scheduled, I/O returns, and
\* the deferred release always executes.  Nothing obliges a worker to start.
Fairness ==
  /\ \A w \in Workers : WF_vars(WorkerStep(w))
  /\ \A c \in Closers : WF_vars(CloserStep(c))

Spec == Init /\ [][Next]_vars
FairSpec == Spec /\ Fairness

---------------------------------------------------------------------------
(* Properties *)

Labels == {"idle", "loop", "try", "waiting", "holding", "section", "stage",
           "write", "remove", "account", "start", "stages", "spill", "report",
           "done"}

Section == [place : {"memory", "spill"}, base : Nat, size : Nat]

BufferType ==
  /\ want \in [Workers -> Nat]
  /\ channel \in [Workers -> Nat]
  /\ rounds \in [Workers -> 0..MaxRounds]

SignalType == changed \in Nat /\ closedChannel \in Nat /\ panicked \in BOOLEAN

CloseType ==
  /\ closed \in BOOLEAN
  /\ todo \in [Closers -> SUBSET Stages]
  /\ observed \in Seq([peak : Int, spill : Nat, bytes : Int, files : Int])

MemoryType == memoryBytes \in Int /\ peakMemoryBytes \in Int

SpillType ==
  /\ sections \in Seq(Section)
  /\ file \in {"none", "open", "removed", "left"}
  /\ spillBytes \in 0..MaxInt64

TempType == temporaryBytes \in Int /\ temporaryFiles \in Int

StageType ==
  /\ registered \in SUBSET Stages
  /\ stage \in [Stages -> [lock : Threads \cup {None}, closed : BOOLEAN,
                           extent : 0..MaxInt64, exists : BOOLEAN]]

\* The type of every variable: the program counters, counters, sections and
\* scratch files of workingStorage and compressionStage.
TypeOK ==
  /\ pc \in [Threads -> Labels]
  /\ use \in [Threads -> Stages \cup {None}]
  /\ canceled \in BOOLEAN
  /\ BufferType /\ SignalType /\ CloseType /\ MemoryType
  /\ SpillType /\ TempType /\ StageType

Waiting(w) == pc[w] = "waiting" /\ channel[w] > closedChannel

Holders == {w \in Workers : pc[w] = "holding"}

\* The sum of f[x] over x in S.
SumOver(f, S) == MapThenSumSet(LAMBDA x : f[x], S)

SectionBytes(place) ==
  SumOver([i \in DOMAIN sections |-> sections[i].size],
          {i \in DOMAIN sections : sections[i].place = place})

\* transferBuffer captures s.changed under the lock that also refuses the
\* reservation, so a worker that sleeps on an open channel still has no room:
\* no release can have fallen between its test and its wait.
NoLostWakeup ==
  \A w \in Workers : Waiting(w) /\ ~closed => ~Fits(want[w])

\* "Persistent sections leave one transfer buffer unreserved so spilling
\* cannot deadlock": whoever sleeps is waiting for a buffer that another
\* worker holds and will release, never for memory that sections keep.
WaitersAwaitAHolder ==
  \A w \in Workers : Waiting(w) => closed \/ Holders # {}

\* reserve and release keep s.stats.MemoryBytes equal to the live sections and
\* buffers, and neither it nor its peak ever exceeds options.MemoryBytes.
MemoryAccounting ==
  /\ ~closed => memoryBytes = SectionBytes("memory")
                              + SumOver(want, Holders)
  /\ memoryBytes >= 0 /\ memoryBytes <= peakMemoryBytes
  /\ peakMemoryBytes <= MemoryBytes

\* "Independent sections never overlap": sections of the spill file have
\* disjoint ranges, in order, below SpillBytes, whatever creations failed.
SpillDisjoint ==
  \A i \in DOMAIN sections : sections[i].place = "spill" =>
    /\ sections[i].base + sections[i].size <= spillBytes
    /\ file # "none"
    /\ \A j \in DOMAIN sections : j < i /\ sections[j].place = "spill" =>
         sections[j].base + sections[j].size <= sections[i].base

\* No interleaving of release and Close closes one channel twice, which would
\* panic the process.
NoPanic == ~panicked

\* Files that exist under a scratch name, and the logical extents of stages.
StagesOnDisk == {st \in Stages : stage[st].exists}
Extents      == [st \in Stages |-> stage[st].extent]
SpillOnDisk  == file \in {"open", "left"}

\* "Observe runs once after cleanup" and "unsuccessful removals remain
\* counted": the one report counts exactly the scratch files that are left,
\* and no worker or stage that finishes later changes what it said.
ObservedIsFinal ==
  observed # <<>> =>
    /\ Len(observed) = 1
    /\ observed[1].files = Cardinality(StagesOnDisk) + (IF SpillOnDisk THEN 1 ELSE 0)
    /\ observed[1].bytes = SumOver(Extents, StagesOnDisk)
                           + (IF SpillOnDisk THEN spillBytes ELSE 0)
    /\ registered = {}

\* TemporaryBytes is guarded against overflow before each growth, so the
\* counter of an int64 never leaves its range.
TemporaryInRange == temporaryBytes \in 0..MaxInt64 /\ temporaryFiles >= 0

\* A call of transferBuffer that sleeps returns once the buffers in use are
\* released (workers start finitely many operations), even when Close or a
\* cancellation is what ends the wait.
WaiterReturns == \A w \in Workers : pc[w] = "waiting" ~> pc[w] \in {"holding", "idle"}

\* Close waits for stage.mu behind writers and other closes of the stage, and
\* they for s.mu, yet it always reaches its report.
CloseReturns == \A c \in Closers : pc[c] = "stages" ~> pc[c] = "done"

\* Buffers and sections keep the budget, no counter or extent overflows, a worker waits
\* only for one that holds something, and the report counts every file once
\* (working_storage.go:144-275, compression.go:119-145).
BudgetHolds == TypeOK /\ MemoryAccounting /\ TemporaryInRange /\ WaitersAwaitAHolder /\ ObservedIsFinal

\* No reservation and no Close waits for ever, as long as holders release
\* (working_storage.go:139-165, 252-275).
CallsReturn == WaiterReturns /\ CloseReturns
=============================================================================
