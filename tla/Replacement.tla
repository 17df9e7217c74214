---------------------------- MODULE Replacement ----------------------------
(***************************************************************************)
(* Signing, re-signing and stripping standalone Mach-O files: Sign and      *)
(* Remove up to mutateMachOFile, and replaceSource.  Operations of several  *)
(* processes run on names that may be hard links of one file, while other   *)
(* programs write into, extend or truncate the files.                       *)
(*                                                                          *)
(* A payload is a sequence of pages; a page is the number of the write that *)
(* produced it.  A signature is the payload it was computed over.  The      *)
(* private file of operation s is called s.  A linker signature, which      *)
(* signing replaces without Force, counts as none.                          *)
(***************************************************************************)
EXTENDS Integers, Sequences, FiniteSets

CONSTANTS
  Signers,    \* operations, each in its own process
  Names,      \* directory entries
  Originals,  \* the files those names may refer to at the start
  Jobs,       \* the paths and options that the operations may be given
  Unsigned,   \* no signature
  Pages,      \* the payload every file starts with
  MaxWrites   \* bound: writes by other programs

ASSUME ReplacementAssumption ==
  /\ Signers \cap Originals = {}
  /\ Jobs \subseteq [name : Names, remove : BOOLEAN, force : BOOLEAN, dryRun : BOOLEAN,
                  strip : BOOLEAN, noStrict : BOOLEAN]
  /\ Pages \in Seq(Nat)
  /\ Unsigned \notin Seq(Nat)
  /\ MaxWrites \in Nat

Files == Originals \cup Signers

VARIABLES
  job,     \* job[s]: path and options
  pc,      \* pc[s]: the call in progress
  entry,   \* entry[n]: the file that name n refers to
  pages,   \* pages[f]: the payload
  seal,    \* seal[f]: the signature
  mtime,   \* mtime[f]: the last write by another program
  attrs,   \* attrs[f]: it has a prohibited extended attribute
  source,  \* source[s]: the file that s opened
  size,    \* size[s]: source.source.size, from openCodeSource
  before,  \* before[s]: the size and mtime that mutateMachOFile found
  plan,    \* plan[s]: the pages hashed so far
  writes,  \* writes by other programs so far
  early,   \* operations whose source grew between the two Stat calls
  late,    \* operations whose target changed after its last check
  tagged   \* operations whose source got an attribute after the check for it

planVars == <<source, size, before, plan>>
fileVars == <<pages, seal, mtime>>
ghosts == <<writes, early, late, tagged>>
vars == <<job, pc, entry, fileVars, attrs, planVars, ghosts>>

Goto(s, label) == pc' = [pc EXCEPT ![s] = label]

Target(s) == job[s].name

\* SameFile of an Lstat of the path.
SameFile(s) == entry[Target(s)] = source[s]

sourceUnchanged(s) ==
  /\ Len(pages[source[s]]) = before[s].size
  /\ mtime[source[s]] = before[s].mtime

\* The names through which others may open a file.
Named(f) == \E n \in Names : entry[n] = f

---------------------------------------------------------------------------
(* Sign and Remove *)

Open(s) ==
  /\ pc[s] = "start"
  /\ source' = [source EXCEPT ![s] = entry[Target(s)]]
  /\ Goto(s, "open")
  /\ UNCHANGED <<job, entry, fileVars, attrs, size, before, plan, ghosts>>

\* openCodeSource fixes the size of every later read.
openCodeSource(s) ==
  /\ pc[s] = "open"
  /\ size' = [size EXCEPT ![s] = Len(pages[source[s]])]
  /\ Goto(s, "stat")
  /\ UNCHANGED <<job, entry, fileVars, attrs, source, before, plan, ghosts>>

\* mutateMachOFile: the state that all later checks compare with, then the
\* refusal of signed code.
mutateMachOFile(s) ==
  /\ pc[s] = "stat"
  /\ before' = [before EXCEPT ![s] = [size  |-> Len(pages[source[s]]),
                                      mtime |-> mtime[source[s]]]]
  /\ Goto(s, "signed")
  /\ UNCHANGED <<job, entry, fileVars, attrs, source, size, plan, ghosts>>

\* signingSignatures: code that is already signed needs Force.
CheckSigned(s) ==
  /\ pc[s] = "signed"
  /\ job[s].remove \/ job[s].force \/ seal[source[s]] = Unsigned
  /\ Goto(s, IF job[s].remove \/ job[s].noStrict THEN "hash"
             ELSE IF job[s].strip THEN "strip" ELSE "first")
  /\ UNCHANGED <<job, entry, fileVars, attrs, planVars, ghosts>>

\* signingSideband removes prohibited attributes from the source itself, so
\* that every link of it, and a dry run or a failure, shows the removal.
Strip(s) ==
  /\ pc[s] = "strip"
  /\ attrs' = [attrs EXCEPT ![source[s]] = FALSE]
  /\ Goto(s, "first")
  /\ UNCHANGED <<job, entry, fileVars, planVars, ghosts>>

\* Mutant of First: after stripping, the attributes are not looked at.
FirstUnlessStripped(s) ==
  /\ pc[s] = "first"
  /\ ~job[s].strip => ~attrs[source[s]]
  /\ Goto(s, "hash")
  /\ UNCHANGED <<job, entry, fileVars, attrs, planVars, ghosts>>

\* Any that are left are refused.
First(s) ==
  /\ pc[s] = "first"
  /\ ~attrs[source[s]]
  /\ Goto(s, "hash")
  /\ UNCHANGED <<job, entry, fileVars, attrs, planVars, ghosts>>

\* Mutant of mutateSource: hashing ends at the end of the file.
HashToEnd(s) ==
  LET k == Len(plan[s]) + 1 IN
  /\ pc[s] = "hash"
  /\ IF k > Len(pages[source[s]])
     THEN Goto(s, "allocate") /\ UNCHANGED plan
     ELSE /\ plan' = [plan EXCEPT ![s] = Append(@, pages[source[s]][k])]
          /\ UNCHANGED pc
  /\ UNCHANGED <<job, entry, fileVars, attrs, source, size, before, ghosts>>

\* mutateSource reads the payload page by page; a read past the end fails.
mutateSource(s) ==
  LET k == Len(plan[s]) + 1 IN
  /\ pc[s] = "hash"
  /\ IF k > size[s]
     THEN Goto(s, "allocate") /\ UNCHANGED plan
     ELSE /\ k <= Len(pages[source[s]])
          /\ plan' = [plan EXCEPT ![s] = Append(@, pages[source[s]][k])]
          /\ UNCHANGED pc
  /\ UNCHANGED <<job, entry, fileVars, attrs, source, size, before, ghosts>>

---------------------------------------------------------------------------
(* replaceSource *)

\* The checks before PrepareReplacement, and the empty private file.  A dry
\* run ends here and discards it.
PrepareReplacement(s) ==
  /\ pc[s] = "allocate"
  /\ SameFile(s) /\ sourceUnchanged(s)
  /\ Goto(s, IF job[s].dryRun THEN "dry" ELSE "transfer")
  /\ UNCHANGED <<job, entry, fileVars, attrs, planVars, ghosts>>

\* Mutant of Transfer: copying ends at the end of the file.
CopyToEnd(s) ==
  LET k == Len(pages[s]) + 1 IN
  /\ pc[s] = "transfer"
  /\ IF k > Len(pages[source[s]])
     THEN /\ seal' = [seal EXCEPT ![s] = IF job[s].remove THEN Unsigned ELSE plan[s]]
          /\ Goto(s, "verify")
          /\ UNCHANGED pages
     ELSE /\ pages' = [pages EXCEPT ![s] = Append(@, pages[source[s]][k])]
          /\ UNCHANGED <<pc, seal>>
  /\ UNCHANGED <<job, entry, mtime, attrs, planVars, ghosts>>

\* transferOutput reads the source a second time, and last the new signature.
Transfer(s) ==
  LET k == Len(pages[s]) + 1 IN
  /\ pc[s] = "transfer"
  /\ IF k > size[s]
     THEN /\ seal' = [seal EXCEPT ![s] = IF job[s].remove THEN Unsigned ELSE plan[s]]
          /\ Goto(s, "verify")
          /\ UNCHANGED pages
     ELSE /\ k <= Len(pages[source[s]])
          /\ pages' = [pages EXCEPT ![s] = Append(@, pages[source[s]][k])]
          /\ UNCHANGED <<pc, seal>>
  /\ UNCHANGED <<job, entry, mtime, attrs, planVars, ghosts>>

\* The callback of populateOutput: the last look at the source, then its
\* metadata, the sync, and both handles closed.
VerifySource(s) ==
  /\ pc[s] = "verify"
  /\ sourceUnchanged(s)
  /\ attrs' = [attrs EXCEPT ![s] = attrs[source[s]]]
  /\ Goto(s, "check")
  /\ UNCHANGED <<job, entry, fileVars, planVars, ghosts>>

\* Mutant of CheckTarget: the name is not looked up again.
CheckNothing(s) ==
  /\ pc[s] = "check"
  /\ Goto(s, "rename")
  /\ UNCHANGED <<job, entry, fileVars, attrs, planVars, ghosts>>

\* The last Lstat.
CheckTarget(s) ==
  /\ pc[s] = "check"
  /\ SameFile(s)
  /\ Goto(s, "rename")
  /\ UNCHANGED <<job, entry, fileVars, attrs, planVars, ghosts>>

\* Mutant of Rename: the contents are copied over the old file.
CopyOver(s) ==
  /\ pc[s] = "rename"
  /\ pages' = [pages EXCEPT ![source[s]] = pages[s]]
  /\ seal' = [seal EXCEPT ![source[s]] = seal[s]]
  /\ Goto(s, "recompress")
  /\ UNCHANGED <<job, entry, mtime, attrs, planVars, ghosts>>

Rename(s) ==
  /\ pc[s] = "rename"
  /\ entry' = [entry EXCEPT ![Target(s)] = s]
  /\ late' = late \cup {r \in Signers \ {s} : pc[r] = "rename" /\ Target(r) = Target(s)}
  /\ Goto(s, "recompress")
  /\ UNCHANGED <<job, fileVars, attrs, planVars, writes, early, tagged>>

\* recompressNativePath may fail when the file is already in place.
Recompress(s) ==
  /\ pc[s] = "recompress"
  /\ Goto(s, "done") \/ Goto(s, "done with error")
  /\ UNCHANGED <<job, entry, fileVars, attrs, planVars, ghosts>>

\* A failed check or call, a cancellation or a crash before the rename.
Fail(s) ==
  /\ pc[s] \in {"start", "open", "stat", "signed", "strip", "first", "hash",
                "allocate", "transfer", "verify", "check", "rename"}
  /\ Goto(s, "failed")
  /\ UNCHANGED <<job, entry, fileVars, attrs, planVars, ghosts>>

---------------------------------------------------------------------------
(* Other programs *)

\* An ordinary write into a file that has a name: it changes the modification
\* time.
Write(f, new) ==
  /\ Named(f) /\ writes < MaxWrites
  /\ writes' = writes + 1
  /\ mtime' = [mtime EXCEPT ![f] = writes + 1]
  /\ pages' = [pages EXCEPT ![f] = new]
  /\ late' = late \cup {s \in Signers : pc[s] \in {"check", "rename", "recompress"}
                                        /\ source[s] = f}
  /\ early' = early \cup {s \in Signers : pc[s] = "stat" /\ source[s] = f
                                          /\ Len(new) > size[s]}
  /\ UNCHANGED <<job, pc, entry, seal, attrs, planVars, tagged>>

Overwrite(f, k) == Write(f, [pages[f] EXCEPT ![k] = writes + 1])
Grow(f) == Write(f, Append(pages[f], writes + 1))
Truncate(f) == pages[f] # <<>> /\ Write(f, SubSeq(pages[f], 1, Len(pages[f]) - 1))

\* A new attribute does not change the modification time.
Tag(f) ==
  /\ Named(f) /\ writes < MaxWrites
  /\ writes' = writes + 1
  /\ attrs' = [attrs EXCEPT ![f] = TRUE]
  /\ tagged' = tagged \cup
       {s \in Signers : /\ f \in {source[s], s}
                        /\ pc[s] \notin {"start", "open", "stat", "signed", "strip", "first"}}
  /\ UNCHANGED <<job, pc, entry, fileVars, planVars, early, late>>

---------------------------------------------------------------------------

Init ==
  /\ job \in [Signers -> Jobs]
  /\ pc = [s \in Signers |-> "start"]
  /\ entry \in [Names -> Originals]
  /\ pages = [f \in Files |-> IF f \in Originals THEN Pages ELSE <<>>]
  /\ seal \in [Files -> {Unsigned, Pages}]
  /\ \A s \in Signers : seal[s] = Unsigned
  /\ mtime = [f \in Files |-> 0]
  /\ attrs \in [Files -> BOOLEAN] /\ \A s \in Signers : ~attrs[s]
  /\ source \in [Signers -> Originals]
  /\ \A s \in Signers : source[s] = entry[Target(s)]
  /\ size = [s \in Signers |-> 0]
  /\ before = [s \in Signers |-> [size |-> 0, mtime |-> 0]]
  /\ plan = [s \in Signers |-> <<>>]
  /\ writes = 0 /\ early = {} /\ late = {} /\ tagged = {}

Step(s) ==
  \/ Open(s) \/ openCodeSource(s) \/ mutateMachOFile(s) \/ CheckSigned(s)
  \/ Strip(s) \/ First(s)
  \/ mutateSource(s) \/ PrepareReplacement(s) \/ Transfer(s) \/ VerifySource(s)
  \/ CheckTarget(s) \/ Rename(s) \/ Recompress(s) \/ Fail(s)

OtherPrograms ==
  \E f \in Files :
    Grow(f) \/ Truncate(f) \/ Tag(f) \/ \E k \in DOMAIN pages[f] : Overwrite(f, k)

Next == (\E s \in Signers : Step(s)) \/ OtherPrograms

Spec == Init /\ [][Next]_vars

---------------------------------------------------------------------------
(* Properties *)

Labels == {"start", "open", "stat", "signed", "strip", "first", "hash",
           "allocate", "transfer", "verify", "check", "rename", "recompress", "done",
           "done with error", "failed", "dry"}

\* The type of every variable of the operations and of the files; hashing
\* never passes the size that openCodeSource fixed.
TypeOK ==
  /\ job \in [Signers -> Jobs]
  /\ pc \in [Signers -> Labels]
  /\ entry \in [Names -> Files]
  /\ pages \in [Files -> Seq(Nat)]
  /\ seal \in [Files -> Seq(Nat) \cup {Unsigned}]
  /\ mtime \in [Files -> Nat]
  /\ attrs \in [Files -> BOOLEAN]
  /\ source \in [Signers -> Files]
  /\ size \in [Signers -> Nat]
  /\ before \in [Signers -> [size : Nat, mtime : Nat]]
  /\ plan \in [Signers -> Seq(Nat)]
  /\ \A s \in Signers : Len(plan[s]) <= size[s]
  /\ writes \in 0..MaxWrites /\ early \cup late \cup tagged \subseteq Signers

Published == {s \in Signers : pc[s] \in {"recompress", "done", "done with error"}}

\* replaceSource hashes the source and reads it again to copy it; what it puts
\* in place is what it hashed, even if the source changed between the two.
SealMatchesPayload ==
  \A s \in Published : mtime[s] = 0 => /\ pages[s] = plan[s]
                                        /\ seal[s] \in {Unsigned, pages[s]}

\* The rename discards a file that has the payload that was signed, unless the
\* name or the file changed after their last checks, or the file grew before
\* its first.
NoLostUpdate ==
  [][\A s \in Signers : pc[s] = "rename" /\ pc'[s] = "recompress" =>
       \/ s \in late \cup early
       \/ SameFile(s) /\ pages[source[s]] = plan[s]]_vars

\* The replacement inherits the attributes of the source.  A strict signer
\* publishes none that is prohibited, with or without strip, unless another
\* program adds one after the check.
AttributesChecked ==
  \A s \in Published :
    ~job[s].remove /\ ~job[s].noStrict /\ s \notin tagged => ~attrs[s]

\* What replaceSource puts in place is the payload that was hashed, under a seal over
\* it, without prohibited attributes (io.go:67-126, signing_sideband.go:120-140).
PublishedIsChecked == TypeOK /\ SealMatchesPayload /\ AttributesChecked

\* "These checks detect ordinary changes": as long as it was not changed after
\* the last check, a replaced source has the payload that was signed.
ChangesDetected ==
  \A s \in Signers : pc[s] = "recompress" /\ s \notin late => pages[source[s]] = plan[s]

\* The abstract publication: every name shows the payload and seal of the file
\* it refers to.
Status(s) == IF s \in Published THEN "published"
             ELSE IF pc[s] \in {"failed", "dry"} THEN "failed" ELSE "pending"

Abstract == INSTANCE Publication WITH
  target  <- [s \in Signers |-> Target(s)],
  status  <- [s \in Signers |-> Status(s)],
  content <- [n \in Names |-> [pages |-> pages[entry[n]], seal |-> seal[entry[n]]]]

\* Concurrent operations, failures and writers included, every name changes
\* only by whole publications on that name and by writes of other programs.
Publishes == Abstract!Spec
=============================================================================
