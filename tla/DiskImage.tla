----------------------------- MODULE DiskImage -----------------------------
(***************************************************************************)
(* Signing disk images in place: Sign, signDMGFile and writeDMGTailSource.  *)
(* An image is a payload, an optional signature and a trailer that locates  *)
(* the signature.  Signing leaves the payload where it is and writes a new  *)
(* signature and trailer after it, so a failure may leave a part of them,   *)
(* and several processes may work on one image.                             *)
(*                                                                          *)
(* A file is a sequence of blocks, each written by one call.  A block of    *)
(* payload carries the number of the write that produced it.                *)
(***************************************************************************)
EXTENDS Integers, Sequences

CONSTANTS
  Signers,    \* operations, each in its own process
  Image,      \* the file that the path refers to at the start
  Other,      \* a file that another program may put in its place
  Jobs,       \* the options an operation may be given
  Starts,     \* the contents that Image may have at the start
  Substitute, \* the contents of Other
  Earlier,    \* whoever signed the image before
  Payload,    \* the number of payload blocks of both
  MaxWrites   \* bound: steps by other programs

Files == {Image, Other}

Data(n) == [kind |-> "data", write |-> n]
Hole == [kind |-> "hole"]
Torn == [kind |-> "torn"]
Sig(signature, k) == [kind |-> "signature", of |-> signature, index |-> k]
Koly(offset, length) == [kind |-> "koly", offset |-> offset, length |-> length]

\* A signature is over the payload that its maker hashed.
Signatures == [by : Signers \cup {Earlier}, directory : BOOLEAN, length : Nat]

Block == [kind : {"data"}, write : Nat]
         \cup {Hole, Torn}
         \cup [kind : {"signature"}, of : Signatures, index : Nat]
         \cup [kind : {"koly"}, offset : Nat, length : Nat]

\* The trailer is after the payload and locates no signature within it.
WellPlaced(image) ==
  /\ Len(image) > Payload
  /\ \A k \in DOMAIN image : image[k].kind = "koly" =>
       k > Payload /\ (image[k].offset = 0 \/ image[k].offset >= Payload)

ASSUME DiskImageAssumption ==
  /\ Image # Other
  /\ Jobs \subseteq [force : BOOLEAN, dryRun : BOOLEAN, length : Nat \ {0}]
  /\ Payload \in Nat \ {0} /\ MaxWrites \in Nat
  /\ \A image \in Starts \cup {Substitute} : image \in Seq(Block) /\ WellPlaced(image)

VARIABLES
  job,      \* job[s]: the options, and the blocks of the signature they make
  pc,       \* pc[s]: the call in progress
  entry,    \* the file that the path refers to
  blocks,   \* blocks[f]: contents
  mtime,    \* mtime[f]: modifications so far
  source,   \* source[s]: the file held open for reading
  size,     \* size[s]: source.source.size, from openCodeSource
  before,   \* before[s]: the size and mtime that signDMGFile found
  end,      \* end[s]: footer.CodeSignatureOffset as parsed
  plan,     \* plan[s]: the payload hashed so far
  out,      \* out[s]: the file opened for writing
  written,  \* written[s]: blocks of the tail written
  writes,   \* steps by other programs so far
  early,    \* operations whose image grew between the two Stat calls
  late      \* operations whose image others changed after the last check

sourceVars == <<source, size, before, end, plan>>
outVars == <<out, written>>
ghosts == <<writes, early, late>>
vars == <<job, pc, entry, blocks, mtime, sourceVars, outVars, ghosts>>

Goto(s, label) == pc' = [pc EXCEPT ![s] = label]

Held(s) == blocks[source[s]]

sourceUnchanged(s) ==
  /\ Len(Held(s)) = before[s].size
  /\ mtime[source[s]] = before[s].mtime

---------------------------------------------------------------------------
(* Reading *)

openCodeSource(s) ==
  /\ pc[s] = "start"
  /\ source' = [source EXCEPT ![s] = entry]
  /\ size' = [size EXCEPT ![s] = Len(blocks[entry])]
  /\ Goto(s, "probe")
  /\ UNCHANGED <<job, entry, blocks, mtime, before, end, plan, outVars, ghosts>>

\* The block that ends the image, as openCodeSource measured it.
HasTrailer(s) == size[s] \in DOMAIN Held(s) /\ Held(s)[size[s]].kind = "koly"

\* A file with another ending is not treated as an image.
isDMG(s) ==
  /\ pc[s] = "probe"
  /\ HasTrailer(s)
  /\ Goto(s, "stat")
  /\ UNCHANGED <<job, entry, blocks, mtime, sourceVars, outVars, ghosts>>

signDMGFile(s) ==
  /\ pc[s] = "stat"
  /\ before' = [before EXCEPT ![s] = [size |-> Len(Held(s)), mtime |-> mtime[source[s]]]]
  /\ Goto(s, "parse")
  /\ UNCHANGED <<job, entry, blocks, mtime, source, size, end, plan, outVars, ghosts>>

\* The signature must fill the space before the trailer, and its own header
\* must give the same length.
ParsesAt(image, n) ==
  LET koly == image[n] IN
  koly.offset # 0 =>
    /\ koly.offset + koly.length = n - 1
    /\ image[koly.offset + 1].kind = "signature"
    /\ image[koly.offset + 1].index = 1
    /\ image[koly.offset + 1].of.length = koly.length

\* Components without a directory, left by a dry run, do not make it signed.
SignedAt(image, n) ==
  image[n].offset # 0 /\ image[image[n].offset + 1].of.directory

\* The trailer, the signature it locates, and the refusal of signed images.
ParseImage(s) ==
  /\ pc[s] = "parse"
  /\ HasTrailer(s)
  /\ ParsesAt(Held(s), size[s])
  /\ SignedAt(Held(s), size[s]) => job[s].force
  /\ end' = [end EXCEPT ![s] = LET koly == Held(s)[size[s]] IN
               IF koly.offset = 0 THEN size[s] - 1 ELSE koly.offset]
  /\ Goto(s, "hash")
  /\ UNCHANGED <<job, entry, blocks, mtime, source, size, before, plan, outVars, ghosts>>

\* Mutant of signDMGTailSource: an old signature is hashed with the payload.
HashToSize(s) ==
  LET k == Len(plan[s]) + 1 IN
  /\ pc[s] = "hash"
  /\ IF k < size[s]
     THEN /\ k \in DOMAIN Held(s)
          /\ plan' = [plan EXCEPT ![s] = Append(@, Held(s)[k])]
          /\ UNCHANGED pc
     ELSE /\ sourceUnchanged(s)
          /\ Goto(s, "lstat")
          /\ UNCHANGED plan
  /\ UNCHANGED <<job, entry, blocks, mtime, source, size, before, end, outVars, ghosts>>

\* The payload is hashed page by page; a read past the end fails.  After the
\* last page the source is compared for the first time.
signDMGTailSource(s) ==
  LET k == Len(plan[s]) + 1 IN
  /\ pc[s] = "hash"
  /\ IF k <= end[s]
     THEN /\ k \in DOMAIN Held(s)
          /\ plan' = [plan EXCEPT ![s] = Append(@, Held(s)[k])]
          /\ UNCHANGED pc
     ELSE /\ sourceUnchanged(s)
          /\ Goto(s, "lstat")
          /\ UNCHANGED plan
  /\ UNCHANGED <<job, entry, blocks, mtime, source, size, before, end, outVars, ghosts>>

---------------------------------------------------------------------------
(* Writing *)

\* What signDMGTailSource returns: a dry run leaves the directory out.
Signature(s) == [by |-> s, directory |-> ~job[s].dryRun, length |-> job[s].length]

TailOf(s) == [k \in 1..job[s].length + 1 |->
              IF k <= job[s].length THEN Sig(Signature(s), k)
                                    ELSE Koly(end[s], job[s].length)]

Lstat(s) ==
  /\ pc[s] = "lstat"
  /\ entry = source[s]
  /\ Goto(s, "open")
  /\ UNCHANGED <<job, entry, blocks, mtime, sourceVars, outVars, ghosts>>

\* Mutant of OpenFile: the file that was opened is not compared.
OpenAnyFile(s) ==
  /\ pc[s] = "open"
  /\ out' = [out EXCEPT ![s] = entry]
  /\ Goto(s, "verify")
  /\ UNCHANGED <<job, entry, blocks, mtime, sourceVars, written, ghosts>>

OpenFile(s) ==
  /\ pc[s] = "open"
  /\ entry = source[s]
  /\ out' = [out EXCEPT ![s] = entry]
  /\ Goto(s, "verify")
  /\ UNCHANGED <<job, entry, blocks, mtime, sourceVars, written, ghosts>>

\* Mutant of VerifySource: the payload is compared, but not the file's state.
VerifyPayload(s) ==
  /\ pc[s] = "verify"
  /\ SubSeq(Held(s), 1, end[s]) = plan[s]
  /\ Goto(s, "write")
  /\ UNCHANGED <<job, entry, blocks, mtime, sourceVars, outVars, ghosts>>

VerifySource(s) ==
  /\ pc[s] = "verify"
  /\ sourceUnchanged(s)
  /\ Goto(s, "write")
  /\ UNCHANGED <<job, entry, blocks, mtime, sourceVars, outVars, ghosts>>

\* The contents f gets, from a signer or from another program; by is the signer.
Change(f, new, by) ==
  /\ blocks' = [blocks EXCEPT ![f] = new]
  /\ mtime' = [mtime EXCEPT ![f] = @ + 1]
  /\ early' = early \cup {s \in Signers \ by : pc[s] \in {"probe", "stat"} /\ source[s] = f
                                               /\ Len(new) > size[s]}
  /\ late' = late \cup {s \in Signers \ by : pc[s] \in {"write", "sync", "done"} /\ source[s] = f}

\* Contents of length n: the old ones, with zeros past their end.
Resized(f, n) == [k \in 1..n |-> IF k \in DOMAIN blocks[f] THEN blocks[f][k] ELSE Hole]

Longer(m, n) == IF m > n THEN m ELSE n

\* The contents after block b is written at a place that may be past the end.
Put(f, at, b) == [Resized(f, Longer(at, Len(blocks[f]))) EXCEPT ![at] = b]

\* One WriteAt of tailOutput, relative to the end of the payload.
WriteAt(s) ==
  LET k == written[s] + 1 IN
  /\ pc[s] = "write"
  /\ k \in DOMAIN TailOf(s)
  /\ Change(out[s], Put(out[s], end[s] + k, TailOf(s)[k]), {s})
  /\ written' = [written EXCEPT ![s] = k]
  /\ UNCHANGED <<job, pc, entry, sourceVars, out, writes>>

\* A short write: the header of a torn signature no longer parses.
WriteAtFails(s) ==
  /\ pc[s] = "write"
  /\ written[s] < Len(TailOf(s))
  /\ Change(out[s], Put(out[s], end[s] + (written[s] + 1), Torn), {s})
  /\ Goto(s, "failed")
  /\ UNCHANGED <<job, entry, sourceVars, outVars, writes>>

\* Mutant of Truncate: the length is not relative to the end of the payload.
TruncateToTail(s) ==
  /\ pc[s] = "write" /\ written[s] = Len(TailOf(s))
  /\ Change(out[s], Resized(out[s], Len(TailOf(s))), {s})
  /\ Goto(s, "sync")
  /\ UNCHANGED <<job, entry, sourceVars, outVars, writes>>

\* Mutant of Truncate: the file is only ever made longer.
KeepLength(s) ==
  /\ pc[s] = "write" /\ written[s] = Len(TailOf(s))
  /\ Change(out[s], Resized(out[s], Longer(Len(blocks[out[s]]), end[s] + Len(TailOf(s)))), {s})
  /\ Goto(s, "sync")
  /\ UNCHANGED <<job, entry, sourceVars, outVars, writes>>

Truncate(s) ==
  /\ pc[s] = "write" /\ written[s] = Len(TailOf(s))
  /\ Change(out[s], Resized(out[s], end[s] + Len(TailOf(s))), {s})
  /\ Goto(s, "sync")
  /\ UNCHANGED <<job, entry, sourceVars, outVars, writes>>

Sync(s) ==
  /\ pc[s] = "sync"
  /\ Goto(s, "done")
  /\ UNCHANGED <<job, entry, blocks, mtime, sourceVars, outVars, ghosts>>

\* A refusal, a failed call, a cancellation or a crash: nothing is undone.
Fail(s) ==
  /\ pc[s] \notin {"done", "failed"}
  /\ Goto(s, "failed")
  /\ UNCHANGED <<job, entry, blocks, mtime, sourceVars, outVars, ghosts>>

---------------------------------------------------------------------------
(* Other programs *)

Overwrite(k) ==
  /\ writes < MaxWrites
  /\ writes' = writes + 1
  /\ Change(Image, [blocks[Image] EXCEPT ![k] = Data(writes + 1)], {})
  /\ UNCHANGED <<job, pc, entry, sourceVars, outVars>>

Grow ==
  /\ writes < MaxWrites
  /\ writes' = writes + 1
  /\ Change(Image, Append(blocks[Image], Data(writes + 1)), {})
  /\ UNCHANGED <<job, pc, entry, sourceVars, outVars>>

Replace ==
  /\ writes < MaxWrites
  /\ writes' = writes + 1
  /\ entry' = Other
  /\ UNCHANGED <<job, pc, blocks, mtime, sourceVars, outVars, early, late>>

---------------------------------------------------------------------------

Init ==
  /\ job \in [Signers -> Jobs]
  /\ pc = [s \in Signers |-> "start"]
  /\ entry = Image
  /\ blocks \in [Files -> Starts \cup {Substitute}]
  /\ blocks[Image] \in Starts /\ blocks[Other] = Substitute
  /\ mtime = [f \in Files |-> 0]
  /\ source = [s \in Signers |-> Image]
  /\ size = [s \in Signers |-> 0]
  /\ before = [s \in Signers |-> [size |-> 0, mtime |-> 0]]
  /\ end = [s \in Signers |-> 0]
  /\ plan = [s \in Signers |-> <<>>]
  /\ out = [s \in Signers |-> Image]
  /\ written = [s \in Signers |-> 0]
  /\ writes = 0 /\ early = {} /\ late = {}

Step(s) ==
  \/ openCodeSource(s) \/ isDMG(s) \/ signDMGFile(s) \/ ParseImage(s)
  \/ signDMGTailSource(s) \/ Lstat(s) \/ OpenFile(s) \/ VerifySource(s)
  \/ WriteAt(s) \/ WriteAtFails(s) \/ Truncate(s) \/ Sync(s) \/ Fail(s)

OtherPrograms == (\E k \in 1..Payload : Overwrite(k)) \/ Grow \/ Replace

Next == (\E s \in Signers : Step(s)) \/ OtherPrograms

Spec == Init /\ [][Next]_vars

---------------------------------------------------------------------------
(* Properties *)

BySigner == writes' = writes

\* "The writer leaves the payload alone": no step of a signer changes a block
\* of the payload, whatever partial tails of failed or concurrent operations
\* the signer found in the image, and whatever it parsed from them.
PayloadUntouched ==
  [][BySigner => \A f \in Files, k \in 1..Payload :
       k \in DOMAIN blocks'[f] /\ blocks'[f][k] = blocks[f][k]]_vars

\* "The destination must still identify the same regular file": a file that
\* was put in the image's place during the operation is not written.
OnlyTheImage ==
  [][\A s \in Signers : written'[s] # written[s] /\ blocks'[Other] # blocks[Other]
        => source[s] = Other]_vars

\* The state of a signed image: the payload that was hashed, all of one
\* signature over it, and a trailer that locates it; nothing after that.
Complete(s) == blocks[source[s]] = plan[s] \o TailOf(s)

CompleteOnSuccess ==
  \A s \in Signers : pc[s] = "done" /\ s \notin late => Complete(s)

Signed(f) ==
  LET n == Len(blocks[f]) IN
  /\ blocks[f][n].kind = "koly" /\ ParsesAt(blocks[f], n) /\ SignedAt(blocks[f], n)

\* Without Force the first write never hits a signed image, even one that
\* another process signed while this operation was planning.  An image that
\* grew before the first check may have been signed beyond the size measured.
SignedNeedsForce ==
  [][\A s \in Signers : /\ written[s] = 0 /\ written'[s] = 1
                        /\ s \notin late \cup early /\ ~job[s].force
       => ~Signed(out[s])]_vars

Labels == {"start", "probe", "stat", "parse", "hash", "lstat", "open", "verify",
           "write", "sync", "done", "failed"}

ControlType == job \in [Signers -> Jobs] /\ pc \in [Signers -> Labels]
FileType ==
  entry \in Files /\ blocks \in [Files -> Seq(Block)] /\ mtime \in [Files -> Nat]
SourceType ==
  /\ source \in [Signers -> Files] /\ size \in [Signers -> Nat]
  /\ before \in [Signers -> [size : Nat, mtime : Nat]]
  /\ end \in [Signers -> Nat] /\ plan \in [Signers -> Seq(Block)]
  /\ \A s \in Signers : Len(plan[s]) <= end[s]
OutType == out \in [Signers -> Files] /\ written \in [Signers -> Nat]
GhostType == writes \in 0..MaxWrites /\ early \subseteq Signers /\ late \subseteq Signers

\* The type of every variable; hashing stops at the parsed end of the payload.
TypeOK == ControlType /\ FileType /\ SourceType /\ OutType /\ GhostType

\* An operation that succeeds leaves a complete image, after failed operations
\* too, unless the image changed after the last check; every variable has its type.
SuccessIsComplete == TypeOK /\ CompleteOnSuccess
=============================================================================
