--------------------------- MODULE BundleCommit ---------------------------
(***************************************************************************)
(* The writing half of bundle signing and removal: applyBundleWrites, with  *)
(* prepareBundleExecutable, commit, createSignatureDirectory, writeResource *)
(* and purgeSignatureFiles, and the appBundle.close that follows it.        *)
(*                                                                          *)
(* Every executable is staged in a private file before the first name is    *)
(* changed; then envelopes are written in place and staged files renamed,   *)
(* in plan order.  Any call into the file system may fail, the context may  *)
(* be canceled between any two steps, and another process may rename a file *)
(* over an executable or write into it.                                     *)
(***************************************************************************)
EXTENDS BundleTree

CONSTANTS
  Requests,        \* what signBundle and removeBundle ask for
  Entries,         \* names in _CodeSignature, in the APFS order of the purge
  Irregular,       \* those of them that are directories or symbolic links
  SidecarChoices,  \* what may lie in a _CodeSignature besides CodeResources
  MaxInterference  \* bound: interferences by other processes

Written(ws, n) == \E j \in DOMAIN ws : ws[j].kind = "macho" /\ ws[j].node = n

\* One write per node, one envelope per bundle, and an envelope just before its
\* bundle's executable, whose old signature files are purged.  Both come after
\* everything below the bundle; what is written at a greater depth is below a
\* nested bundle that is written as well.
PlanShape(ws) ==
  /\ \A j, k \in DOMAIN ws : ws[j].kind = ws[k].kind /\ ws[j].node = ws[k].node => j = k
  /\ \A j \in DOMAIN ws :
       LET b == ws[j].bundle IN
       /\ ws[j].node \in Helpers => ws[j].node \in NestedIn(b) /\ ws[j].cleanup = "none"
       /\ ws[j].kind = "macho" /\ ws[j].node \in Bundles =>
            ws[j].node = b /\ ws[j].cleanup # "none"
       /\ ws[j].kind = "resource" =>
            /\ ws[j].node = b /\ j + 1 \in DOMAIN ws
            /\ ws[j + 1].kind = "macho" /\ ws[j + 1].node = b
            /\ ws[j + 1].cleanup = "keep"
       /\ ws[j].node \in Bundles =>
            \A k \in DOMAIN ws :
              ws[k].node \in Below[b] =>
                /\ k < j
                /\ \/ ws[k].node \in NestedIn(b)
                   \/ \E c \in Children(b) : Written(ws, c) /\ ws[k].node \in Below[c]

\* An envelope seals as new exactly the nested code that the plan writes, and
\* the sources of the rest are held.
SealsMatch(r) ==
  \A j \in DOMAIN r.writes :
    r.writes[j].kind = "resource" =>
      \A n \in NestedIn(r.writes[j].bundle) :
        /\ n \in r.writes[j].seals <=> Written(r.writes, n)
        /\ n \notin r.writes[j].seals => n \in r.held

ASSUME CommitAssumption ==
  /\ \A r \in Requests :
       /\ r.writes \in Seq(Write) /\ r.dryRun \in BOOLEAN /\ r.failure \in BOOLEAN
       /\ r.held \subseteq Nodes
       /\ PlanShape(r.writes)
       /\ ~r.dryRun => SealsMatch(r)
  /\ Entries \in Seq(STRING)
  /\ "CodeResources" \in Range(Entries) \ Irregular
  /\ SidecarChoices \subseteq SUBSET (Range(Entries) \ {"CodeResources"})
  /\ MaxInterference \in Nat

VARIABLES
  request,      \* the writes, dryRun, the failure of the plan, held sources
  pc,           \* the call in progress
  i,            \* the loop index of applyBundleWrites
  canceled,     \* ctx.Err() # nil
  result,       \* "none" until decided, then "nil", "allocation" or "error"
  allocated,    \* writes whose allocation was refused: allocationErrors
  failed,       \* failed
  blocked,      \* blocked
  prepared,     \* writes with a staged file and staging directory
  mixed,        \* staged files whose bytes were read from a modified source
  handles,      \* open descriptors <<write, "source" | "file" | "reader">>
  held,         \* nodes whose bundleSource is not released
  target,       \* what each executable's name refers to
  modified,     \* nodes whose original file another process wrote into
  late,         \* nodes changed after the last check before their rename
  envelope,     \* the bytes of each CodeResources
  directory,    \* bundles that have a _CodeSignature directory
  sidecars,     \* the other entries of each _CodeSignature
  interference  \* interferences so far

stagingVars == <<allocated, failed, blocked, prepared, mixed>>
diskVars    == <<envelope, directory, sidecars>>
worldVars   == <<modified, late, interference>>
vars == <<request, pc, i, canceled, result, stagingVars, handles, held, target,
          diskVars, worldVars>>

writes == request.writes
write  == writes[i]
bundle == write.bundle
node   == write.node
isMain == write.kind = "macho" /\ node = bundle

\* Mutant of Intact: the identity of the file without its size and times.
SameFileOnly(n) == target[n] = "old"

\* No rename over the name, no write into the file.
Intact(n) == target[n] = "old" /\ n \notin modified

Continue(label) == pc' = label /\ UNCHANGED <<i, result>>
\* Mutant of NextWrite: the loop advances twice.
NextWriteTwice(label) == pc' = label /\ i' = i + 2 /\ UNCHANGED result
NextWrite(label) == pc' = label /\ i' = i + 1 /\ UNCHANGED result
Return(r) == pc' = "cleanup" /\ result' = r /\ UNCHANGED i

\* The step in progress fails, or finds the context canceled, and returns.
Fail(label) ==
  /\ pc = label
  /\ Return("error")
  /\ UNCHANGED <<request, canceled, stagingVars, handles, held, target,
                 diskVars, worldVars>>

---------------------------------------------------------------------------
(* The preparation loop *)

SkipResource ==
  /\ pc = "prepare" /\ i <= Len(writes) /\ write.kind # "macho"
  /\ NextWrite("prepare")
  /\ UNCHANGED <<request, canceled, stagingVars, handles, held, target,
                 diskVars, worldVars>>

ChildFailed == isMain /\ \E c \in Children(bundle) : c \in failed

\* A failure below, or of a helper, keeps the main executable from staging.
Block ==
  /\ pc = "prepare" /\ i <= Len(writes) /\ isMain
  /\ ChildFailed \/ bundle \in blocked
  /\ failed' = IF ChildFailed THEN failed \cup {bundle} ELSE failed
  /\ blocked' = blocked \cup {bundle}
  /\ NextWrite("prepare")
  /\ UNCHANGED <<request, canceled, allocated, prepared, mixed, handles, held,
                 target, diskVars, worldVars>>

MayStage ==
  /\ pc = "prepare" /\ i <= Len(writes) /\ write.kind = "macho"
  /\ ~(ChildFailed \/ (isMain /\ bundle \in blocked))

\* prepareBundleExecutable up to PrepareReplacementAt: identity checks against
\* the held source, then the private file.  A dry run discards it at once.
Allocate ==
  /\ MayStage
  /\ ~canceled /\ Intact(node)
  /\ IF request.dryRun
     THEN NextWrite("prepare") /\ UNCHANGED <<prepared, handles>>
     ELSE /\ prepared' = prepared \cup {i}
          /\ handles' = handles \cup {<<i, "source">>, <<i, "file">>}
          /\ Continue("transfer")
  /\ UNCHANGED <<request, canceled, allocated, failed, blocked, mixed, held,
                 target, diskVars, worldVars>>

\* Mutant of AllocationRefused: the bundle of a refused main executable is
\* blocked as well, so that its envelope is not written.
RefusedBlocksEnvelope ==
  /\ MayStage
  /\ ~canceled /\ Intact(node)
  /\ allocated' = allocated \cup {i}
  /\ failed' = failed \cup {bundle}
  /\ blocked' = blocked \cup {bundle}
  /\ NextWrite("prepare")
  /\ UNCHANGED <<request, canceled, prepared, mixed, handles, held, target,
                 diskVars, worldVars>>

\* PrepareReplacementAt is refused permission.
AllocationRefused ==
  /\ MayStage
  /\ ~canceled /\ Intact(node)
  /\ allocated' = allocated \cup {i}
  /\ failed' = failed \cup {bundle}
  /\ blocked' = IF isMain THEN blocked ELSE blocked \cup {bundle}
  /\ NextWrite("prepare")
  /\ UNCHANGED <<request, canceled, prepared, mixed, handles, held, target,
                 diskVars, worldVars>>

AllocateFails == MayStage /\ Fail("prepare")

\* transferOutput reads the source again, after the plan has hashed it.
Transfer ==
  /\ pc = "transfer" /\ ~canceled
  /\ mixed' = IF node \in modified THEN mixed \cup {i} ELSE mixed
  /\ Continue("verify")
  /\ UNCHANGED <<request, canceled, allocated, failed, blocked, prepared,
                 handles, held, target, diskVars, worldVars>>

\* The callback of populateOutput checks the source after the last read and
\* releases the held descriptor; the staged file is synced.
VerifySource ==
  /\ pc = "verify" /\ ~canceled
  /\ Intact(node)
  /\ held' = held \ {node}
  /\ NextWrite("prepare")
  /\ UNCHANGED <<request, canceled, stagingVars, handles, target, diskVars,
                 worldVars>>

\* Mutant of EndPrepare: the commit loop runs in a dry run too.
EndPrepareCommits ==
  /\ pc = "prepare" /\ i > Len(writes)
  /\ pc' = "commit" /\ i' = 1
  /\ UNCHANGED <<request, canceled, result, stagingVars, handles, held, target,
                 diskVars, worldVars>>

EndPrepare ==
  /\ pc = "prepare" /\ i > Len(writes)
  /\ IF request.dryRun
     THEN Return(IF allocated = {} THEN "nil" ELSE "allocation")
     ELSE pc' = "commit" /\ i' = 1 /\ UNCHANGED result
  /\ UNCHANGED <<request, canceled, stagingVars, handles, held, target,
                 diskVars, worldVars>>

---------------------------------------------------------------------------
(* The commit loop *)

\* Mutant of Skipped: a blocked bundle still gets its envelope.
SkippedMainOnly == bundle \in blocked /\ isMain

Skipped == bundle \in blocked /\ (write.kind # "macho" \/ isMain)

\* The head of the loop: the context, then what kind of write this is.
BeginCommit ==
  /\ pc = "commit" /\ i <= Len(writes) /\ ~canceled
  /\ CASE Skipped -> NextWrite("commit")
       [] ~Skipped /\ i \in allocated -> Continue("original")
       [] ~Skipped /\ i \in prepared -> Continue("access")
       [] OTHER -> Continue("directory")
  /\ UNCHANGED <<request, canceled, stagingVars, handles, held, target,
                 diskVars, worldVars>>

\* recordBundleReadAccess of an executable that could not be staged.
RecordOriginal ==
  /\ pc = "original"
  /\ target[node] = "old"
  /\ NextWrite("commit")
  /\ UNCHANGED <<request, canceled, stagingVars, handles, held, target,
                 diskVars, worldVars>>

\* Mutant of CopySourceAccess: the source stays open over the rename.
CopySourceKeepsSource ==
  /\ pc = "access" /\ ~canceled
  /\ Intact(node)
  /\ handles' = (handles \ {<<i, "file">>}) \cup {<<i, "reader">>}
  /\ Continue("check")
  /\ UNCHANGED <<request, canceled, stagingVars, held, target, diskVars,
                 worldVars>>

\* Mutant of CopySourceAccess: stale signature files go before the rename.
CopySourcePurges ==
  /\ pc = "access" /\ ~canceled
  /\ Intact(node)
  /\ handles' = (handles \ {<<i, "source">>, <<i, "file">>}) \cup {<<i, "reader">>}
  /\ sidecars' = [sidecars EXCEPT ![bundle] = @ \cap Irregular]
  /\ Continue("check")
  /\ UNCHANGED <<request, canceled, stagingVars, held, target, envelope,
                 directory, worldVars>>

\* copySourceAccess: checks, metadata, sync, and both handles closed.
CopySourceAccess ==
  /\ pc = "access" /\ ~canceled
  /\ Intact(node)
  /\ handles' = (handles \ {<<i, "source">>, <<i, "file">>}) \cup {<<i, "reader">>}
  /\ Continue("check")
  /\ UNCHANGED <<request, canceled, stagingVars, held, target, diskVars,
                 worldVars>>

\* Mutant of CheckTarget: the name is not checked again.
CheckNothing ==
  /\ pc = "check" /\ ~canceled
  /\ Continue("rename")
  /\ UNCHANGED <<request, canceled, stagingVars, handles, held, target,
                 diskVars, worldVars>>

\* The last Lstat before the rename.
CheckTarget ==
  /\ pc = "check" /\ ~canceled
  /\ target[node] = "old"
  /\ Continue("rename")
  /\ UNCHANGED <<request, canceled, stagingVars, handles, held, target,
                 diskVars, worldVars>>

Rename ==
  /\ pc = "rename"
  /\ target' = [target EXCEPT ![node] = "new"]
  /\ Continue("recompress")
  /\ UNCHANGED <<request, canceled, stagingVars, handles, held, diskVars,
                 worldVars>>

\* Mutant of Recompress: only a removal purges the old signature files.
RecompressPurgesRemoved ==
  /\ pc = "recompress"
  /\ Continue(IF write.cleanup = "all" THEN "purge" ELSE "record")
  /\ UNCHANGED <<request, canceled, stagingVars, handles, held, target,
                 diskVars, worldVars>>

Recompress ==
  /\ pc = "recompress"
  /\ Continue(IF write.cleanup = "none" THEN "record" ELSE "purge")
  /\ UNCHANGED <<request, canceled, stagingVars, handles, held, target,
                 diskVars, worldVars>>

\* The directory listing of a bundle's _CodeSignature.
Listing(b) ==
  sidecars[b] \cup IF envelope[b] = "absent" THEN {} ELSE {"CodeResources"}

\* purgeSignatureFiles unlinks what the listing has of the first k entries and
\* fails on the next, or reaches the end.  It never passes an entry that is not
\* a regular file.
Purge(k) ==
  LET keep == write.cleanup = "keep"
      gone == {Entries[e] : e \in 1..k} \cap Listing(bundle)
  IN /\ pc = "purge"
     /\ gone \cap Irregular = {}
     /\ sidecars' = [sidecars EXCEPT ![bundle] = @ \ gone]
     /\ envelope' = IF "CodeResources" \in gone /\ ~keep
                    THEN [envelope EXCEPT ![bundle] = "absent"] ELSE envelope
     /\ \/ k = Len(Entries) /\ ~canceled /\ Continue("record")
        \/ Return("error")
     /\ UNCHANGED <<request, canceled, stagingVars, handles, held, target,
                    directory, worldVars>>

\* recordReadAccess reopens the committed executable by name.
RecordAccess ==
  /\ pc = "record"
  /\ target[node] = "new"
  /\ handles' = handles \ {<<i, "reader">>}
  /\ NextWrite("commit")
  /\ UNCHANGED <<request, canceled, stagingVars, held, target, diskVars,
                 worldVars>>

\* createSignatureDirectory: an existing directory is left alone; a new one may
\* remain although its metadata could not be copied.
CreateDirectory ==
  /\ pc = "directory" /\ ~canceled
  /\ directory' = directory \cup {bundle}
  /\ \/ Continue("envelope")
     \/ bundle \notin directory /\ Return("error")
  /\ UNCHANGED <<request, canceled, stagingVars, handles, held, target,
                 envelope, sidecars, worldVars>>

\* writeResource writes in place: completed, or cut short by a failure, or
\* completed with a failure of the close or the recompression.
WriteResource ==
  /\ pc = "envelope" /\ ~canceled
  /\ \/ /\ envelope' = [envelope EXCEPT ![bundle] = "new"]
        /\ NextWrite("commit") \/ Return("error")
     \/ /\ envelope' = [envelope EXCEPT ![bundle] = "partial"]
        /\ Return("error")
  /\ UNCHANGED <<request, canceled, stagingVars, handles, held, target,
                 directory, sidecars, worldVars>>

EndCommit ==
  /\ pc = "commit" /\ i > Len(writes)
  /\ Return(IF allocated = {} THEN "nil" ELSE "allocation")
  /\ UNCHANGED <<request, canceled, stagingVars, handles, held, target,
                 diskVars, worldVars>>

---------------------------------------------------------------------------
(* The deferred calls *)

\* Every replacement is closed; a staging directory that cannot be removed is
\* an error of the operation.
CloseReplacements ==
  /\ pc = "cleanup"
  /\ \E left \in {{}, prepared} :
       /\ prepared' = left
       /\ result' = IF left = {} THEN result ELSE "error"
  /\ handles' = {}
  /\ pc' = "close"
  /\ UNCHANGED <<request, i, canceled, allocated, failed, blocked, mixed, held,
                 target, diskVars, worldVars>>

\* Mutant of CloseBundle: sources are closed without being checked.
CloseUnchecked ==
  /\ pc = "close"
  /\ held' = {}
  /\ result' = IF result = "nil" /\ request.failure THEN "error" ELSE result
  /\ pc' = "done"
  /\ UNCHANGED <<request, i, canceled, stagingVars, handles, target, diskVars,
                 worldVars>>

\* appBundle.close checks every source that was not released, and the error of
\* the plan is returned when the writes gave none.
CloseBundle ==
  /\ pc = "close"
  /\ held' = {}
  /\ result' = IF \E n \in held : ~Intact(n) THEN "error"
               ELSE IF result = "nil" /\ request.failure THEN "error"
               ELSE result
  /\ pc' = "done"
  /\ UNCHANGED <<request, i, canceled, stagingVars, handles, target, diskVars,
                 worldVars>>

---------------------------------------------------------------------------
(* The environment *)

Cancel ==
  /\ ~canceled /\ pc # "done"
  /\ canceled' = TRUE
  /\ UNCHANGED <<request, pc, i, result, stagingVars, handles, held, target,
                 diskVars, worldVars>>

Current(n) == i <= Len(writes) /\ node = n

\* Another process renames a file of its own over an executable.
Substitute(n) ==
  /\ pc # "done" /\ interference < MaxInterference
  /\ interference' = interference + 1
  /\ target' = [target EXCEPT ![n] = "foreign"]
  /\ late' = IF pc = "rename" /\ Current(n) THEN late \cup {n} ELSE late
  /\ UNCHANGED <<request, pc, i, canceled, result, stagingVars, handles, held,
                 modified, diskVars>>

\* Another process writes into the original file of an executable.
Modify(n) ==
  /\ pc # "done" /\ interference < MaxInterference
  /\ interference' = interference + 1
  /\ modified' = modified \cup {n}
  /\ late' = IF pc \in {"check", "rename"} /\ Current(n) THEN late \cup {n} ELSE late
  /\ UNCHANGED <<request, pc, i, canceled, result, stagingVars, handles, held,
                 target, diskVars>>

---------------------------------------------------------------------------

Init ==
  /\ request \in Requests
  /\ pc = "prepare" /\ i = 1 /\ canceled = FALSE /\ result = "none"
  /\ allocated = {} /\ failed = {} /\ blocked = {} /\ prepared = {} /\ mixed = {}
  /\ handles = {} /\ held = request.held
  /\ target = [n \in Nodes |-> "old"]
  /\ modified = {} /\ late = {} /\ interference = 0
  /\ \E choice \in SidecarChoices :
       /\ sidecars = [b \in Bundles |-> choice]
       /\ \/ /\ directory = Bundles
             /\ envelope = [b \in Bundles |-> "old"]
          \/ /\ directory = {} /\ choice = {}
             /\ envelope = [b \in Bundles |-> "absent"]

CallFails ==
  \/ AllocateFails
  \/ \E label \in {"transfer", "verify", "commit", "original", "access", "check",
                   "rename", "recompress", "record", "directory", "envelope"} :
       (label = "commit" => canceled /\ i <= Len(writes)) /\ Fail(label)

Step ==
  \/ SkipResource \/ Block \/ Allocate \/ AllocationRefused
  \/ Transfer \/ VerifySource \/ EndPrepare
  \/ BeginCommit \/ RecordOriginal \/ CopySourceAccess \/ CheckTarget \/ Rename
  \/ Recompress \/ RecordAccess \/ CreateDirectory \/ WriteResource \/ EndCommit
  \/ \E k \in 0..Len(Entries) : Purge(k)
  \/ CallFails
  \/ CloseReplacements \/ CloseBundle

Environment == Cancel \/ \E n \in Nodes : Substitute(n) \/ Modify(n)

Next == Step \/ Environment

Spec == Init /\ [][Next]_vars

---------------------------------------------------------------------------
(* Properties *)

Labels == {"prepare", "transfer", "verify", "commit", "original", "access",
           "check", "rename", "recompress", "purge", "record", "directory",
           "envelope", "cleanup", "close", "done"}

\* The type of every variable of applyBundleWrites and of the names on disk.
TypeOK ==
  /\ writes \in Seq(Write) /\ request.dryRun \in BOOLEAN
  /\ pc \in Labels /\ i \in 1..(Len(writes) + 1) /\ canceled \in BOOLEAN
  /\ result \in {"none", "nil", "allocation", "error"}
  /\ allocated \subseteq DOMAIN writes /\ prepared \subseteq DOMAIN writes
  /\ mixed \subseteq DOMAIN writes
  /\ failed \subseteq Bundles /\ blocked \subseteq Bundles
  /\ handles \subseteq (DOMAIN writes) \X {"source", "file", "reader"}
  /\ held \subseteq Nodes /\ modified \subseteq Nodes /\ late \subseteq Nodes
  /\ target \in [Nodes -> {"old", "new", "foreign"}]
  /\ envelope \in [Bundles -> {"old", "absent", "partial", "new"}]
  /\ directory \subseteq Bundles
  /\ sidecars \in [Bundles -> SUBSET Range(Entries)]
  /\ interference \in 0..MaxInterference

Envelopes == {j \in DOMAIN writes : writes[j].kind = "resource"}

\* At every instant, so also after a crash: once a bundle's executable is
\* published its new envelope is complete, the nested code it seals as replaced
\* has been replaced and cleaned up, and the rest has not been touched.
PublishedSealsHold ==
  \A j \in Envelopes :
    LET b == writes[j].bundle IN
    target[b] = "new" =>
      /\ envelope[b] = "new"
      /\ \A n \in NestedIn(b) \cap writes[j].seals : target[n] # "old"
      /\ \A n \in NestedIn(b) \ writes[j].seals : target[n] # "new"
      /\ \A c \in Children(b) \cap writes[j].seals : sidecars[c] = {}

Refused == {writes[j].node : j \in allocated}
Tainted(b) == Refused \cap Below[b] # {}

\* "Ancestor envelopes and executables remain unchanged" when an executable
\* anywhere below could not be allocated, whatever else goes wrong.
FailureContained ==
  \A b \in Bundles :
    /\ Tainted(b) => target[b] # "new" /\ envelope[b] \in {"old", "absent"}
    /\ b \in Refused => target[b] # "new"

\* applyBundleWrites returned nil or only allocation errors: exactly the writes
\* outside the ancestors of a refused executable have been performed, the
\* envelope of a bundle whose own executable was refused among them.
Outcome ==
  pc = "done" /\ result \in {"nil", "allocation"} /\ ~request.dryRun =>
    \A j \in DOMAIN writes :
      LET b == writes[j].bundle
          n == writes[j].node
      IN /\ writes[j].kind = "resource" /\ ~Tainted(b) =>
              envelope[b] = "new"
         /\ writes[j].kind = "macho" /\ n \notin Refused
              /\ (n \in Bundles => ~Tainted(b)) =>
              /\ target[n] # "old"
              /\ writes[j].cleanup # "none" => sidecars[b] = {}
              /\ writes[j].cleanup = "all" => envelope[b] = "absent"

\* "Dry runs ... preserve all names and contents": only other processes change
\* anything.
DryRunPreserves ==
  [][request.dryRun => /\ UNCHANGED diskVars
                       /\ \A n \in Nodes : target'[n] \in {target[n], "foreign"}]_vars

\* A rename never discards a file that another process put in place, or wrote
\* into, before the last check of that executable.
NoLostUpdate ==
  [][\A n \in Nodes : target[n] # "new" /\ target'[n] = "new"
                        => Intact(n) \/ n \in late]_vars

\* Bytes read from a source that changed after it was hashed are not published.
MixedNeverPublished == \A j \in mixed : target[writes[j].node] # "new"

\* No source, staging or held descriptor is open at the rename, which Windows
\* would refuse; none survives the operation.
HandlesClosed ==
  /\ pc = "rename" => /\ node \notin held
                      /\ \A h \in {"source", "file"} : <<i, h>> \notin handles
  /\ pc = "done" => handles = {} /\ held = {}

\* Signature files are unlinked only after their executable was replaced, and a
\* directory or link never is.
CleanupFollowsCommit ==
  [][\A b \in Bundles :
       /\ sidecars'[b] # sidecars[b] => target[b] # "old"
       /\ envelope'[b] = "absent" /\ envelope[b] # "absent" => target[b] # "old"
       /\ sidecars[b] \cap Irregular \subseteq sidecars'[b]]_vars

\* When signing succeeds, nested code that was sealed as found is still as it
\* was found: appBundle.close checks what no write released.
NilMeansSealed ==
  pc = "done" /\ result = "nil" =>
    \A j \in Envelopes :
      target[writes[j].bundle] = "new" =>
        \A n \in NestedIn(writes[j].bundle) \ writes[j].seals : Intact(n)

\* Whatever is published holds, at every instant: its seals, and the contents that
\* were hashed (bundle_writer.go:97-130, 396-470).
PublishedHolds == PublishedSealsHold /\ MixedNeverPublished

\* A refused allocation stops its ancestors and nothing else, and no descriptor is
\* open when Windows would refuse the rename (bundle_writer.go:97-108, 537-545).
FailureIsContained == TypeOK /\ FailureContained /\ HandlesClosed

\* What applyBundleWrites returns says which writes have been performed, and that
\* what was sealed as found is still so.
ResultIsTrue == Outcome /\ NilMeansSealed

\* A dry run changes nothing, and a real one removes old signature files only after
\* the executable they belonged to was replaced (bundle_writer.go:105, 463).
CommitOrder == DryRunPreserves /\ CleanupFollowsCommit
=============================================================================
