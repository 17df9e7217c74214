--------------------------- MODULE SignedBundle ---------------------------
(***************************************************************************)
(* A tree of signed code, and what verification makes of one code and of one *)
(* resource of a bundle.  Code is signed one at a time, and is changed before *)
(* and after it is; an envelope seals the files of its bundle, and the code in *)
(* it by what that code requires of itself.  A hash is what it is of.          *)
(***************************************************************************)
EXTENDS Integers, Sequences, SequencesExt, FiniteSets

CONSTANTS
  Top,          \* the bundle that is verified
  Codes,        \* all code: bundles and plain executables
  Children,     \* the code directly in a bundle
  Bundles,
  Architectures,\* a sequence
  Required, Optional, Omitted,   \* file names of a bundle by the rule that applies
  InitialFiles, \* sets of names a bundle may have at first
  InsideOut,    \* all code, what is in a bundle before it
  MaxSteps

VARIABLES
  disk,     \* of each code: its pages, Info.plist, files, envelope, directories
  sealed,   \* history: what the disk was when the code was signed
  first,    \* code that is still to be signed at first
  steps

bundleVars == <<disk, sealed, first, steps>>

Names == Required \cup Optional \cup Omitted
Sealable == Required \cup Optional
Arch == ToSet(Architectures)
Signers == {"adhoc", "certificate"}

\* One rule applies to a name, and a name is not of a file and of code; "" is for every
\* architecture, of which code has at least one.
ASSUME BundleAssumption ==
  /\ Top \in Bundles /\ Bundles \subseteq Codes /\ Children \in [Codes -> SUBSET Codes]
  /\ \A c \in Codes \ Bundles : Children[c] = {}
  /\ Required \cap Optional = {} /\ Omitted \cap Sealable = {} /\ Names \cap Codes = {}
  /\ Architectures \in Seq(STRING \ {""}) /\ Len(Architectures) > 0
  /\ InsideOut \in Seq(Codes) /\ MaxSteps \in Nat

---------------------------------------------------------------------------
(* What signing makes *)

\* What code on a disk D requires of itself: to be signed by its signer, or, ad hoc, to be
\* one of its own directories.
designated(D, c) ==
  LET d == D[c].dirs[1]
  IN IF d[Architectures[1]].signer = "certificate" THEN [signer |-> "certificate", hashes |-> {}]
     ELSE [signer |-> "", hashes |-> {d[a] : a \in Arch}]

Present(D, c) == {k \in Children[c] : D[k].present}

\* Mutant of Envelope: omitted files are sealed too.
EnvelopeAll(D, c) ==
  [files |-> [n \in {m \in Names : D[c].files[m] # "absent"} |-> D[c].files[n]],
   kids |-> [k \in Present(D, c) |-> designated(D, k)]]

Envelope(D, c) ==
  [files |-> [n \in {m \in Sealable : D[c].files[m] # "absent"} |-> D[c].files[n]],
   kids |-> [k \in Present(D, c) |-> designated(D, k)]]

Directory(code, a, signer, env) ==
  [arch |-> a, signer |-> signer, page |-> code.pages[a], info |-> code.info, resources |-> env]

Signable(D, c) == D[c].present /\ \A k \in Present(D, c) : D[k].dirs # <<>>

\* Mutant of Sealing: the envelope of the last signature is kept.
SealingStale(c) == IF c \in Bundles THEN IF disk[c].env # <<>> THEN disk[c].env ELSE <<Envelope(disk, c)>> ELSE <<>>

Sealing(c) == IF c \in Bundles THEN <<Envelope(disk, c)>> ELSE <<>>

\* Code in a bundle is not verified when the bundle is signed.  The history has what code
\* was, and what the code in it was signed as.
Signed(c, signer) ==
  /\ Signable(disk, c)
  /\ disk' = [disk EXCEPT ![c] = [@ EXCEPT !.env = Sealing(c),
                                           !.dirs = <<[a \in Arch |-> Directory(disk[c], a, signer, Sealing(c))]>>]]
  /\ sealed' = [sealed EXCEPT ![c] =
       [signer |-> signer, pages |-> disk[c].pages, info |-> disk[c].info, env |-> Sealing(c),
        files |-> [n \in Sealable |-> disk[c].files[n]], kids |-> [k \in Present(disk, c) |-> sealed[k]]]]

\* The whole tree at first, from the inside out.
SignNext(signer) ==
  /\ first # <<>> /\ Signed(Head(first), signer)
  /\ first' = Tail(first) /\ UNCHANGED steps

Sign(c, signer) ==
  /\ first = <<>> /\ steps < MaxSteps /\ Signed(c, signer)
  /\ steps' = steps + 1 /\ UNCHANGED first

---------------------------------------------------------------------------
(* What else happens to code *)

Edit(c, new) ==
  /\ first = <<>> /\ steps < MaxSteps /\ disk[c].present /\ new # disk[c]
  /\ disk' = [disk EXCEPT ![c] = new]
  /\ steps' = steps + 1
  /\ UNCHANGED <<sealed, first>>

EditPage(c) == \E a \in Arch : Edit(c, [disk[c] EXCEPT !.pages[a] = 1 - @])
EditInfo(c) == c \in Bundles /\ Edit(c, [disk[c] EXCEPT !.info = 1 - @])
EditFile(c) ==
  /\ c \in Bundles
  /\ \E n \in Names, v \in {"absent", "old", "new"} : Edit(c, [disk[c] EXCEPT !.files[n] = v])
EditEnvelope(c) ==
  /\ c \in Bundles /\ Signable(disk, c)
  /\ \E env \in {<<>>, <<Envelope(disk, c)>>} : Edit(c, [disk[c] EXCEPT !.env = env])
Unsign(c) == Edit(c, [disk[c] EXCEPT !.dirs = <<>>])
Move(c) ==
  /\ first = <<>> /\ steps < MaxSteps /\ c # Top
  /\ disk' = [disk EXCEPT ![c].present = ~@]
  /\ steps' = steps + 1
  /\ UNCHANGED <<sealed, first>>

Unsigned ==
  [present |-> TRUE, pages |-> [a \in Arch |-> 0], info |-> 0, files |-> [n \in Names |-> "absent"], env |-> <<>>, dirs |-> <<>>]

\* The tree is unsigned, and is signed from the inside out or not; bundles have some files.
BundleInit ==
  /\ \E have \in InitialFiles :
       disk = [c \in Codes |->
                 [Unsigned EXCEPT !.files = [n \in Names |-> IF n \in have /\ c \in Bundles THEN "old" ELSE "absent"]]]
  /\ sealed = [c \in Codes |-> [signer |-> ""]]
  /\ first \in {<<>>, InsideOut} /\ steps = 0

BundleNext ==
  \/ \E signer \in Signers : SignNext(signer)
  \/ \E c \in Codes :
       \/ \E signer \in Signers : Sign(c, signer)
       \/ EditPage(c) \/ EditInfo(c) \/ EditFile(c) \/ EditEnvelope(c) \/ Unsign(c) \/ Move(c)

BundleSpec == BundleInit /\ [][BundleNext]_bundleVars

---------------------------------------------------------------------------
(* Verification of one code *)

\* Mutant of Selected: every architecture is verified.
SelectedAll(arch) == Architectures

Selected(arch) == IF arch = "" THEN Architectures ELSE <<arch>>

\* Mutant of PagesChecked: pages are checked at the top only.
PagesCheckedTop(c, directoryOnly) == c = Top

PagesChecked(c, directoryOnly) == ~directoryOnly

\* The failure of one architecture: pages first, then the slots of the directory.
SliceFailure(c, a, directoryOnly, ignore) ==
  LET d == disk[c].dirs[1][a]
  IN IF disk[c].dirs = <<>> THEN "unsigned"
     ELSE IF PagesChecked(c, directoryOnly) /\ d.page # disk[c].pages[a] THEN "page"
     ELSE IF d.info # disk[c].info THEN "info"
     ELSE IF ~directoryOnly /\ ~ignore /\ d.resources # disk[c].env THEN "resources"
     ELSE ""

\* Mutant of Satisfies: only the first architecture is tested.
SatisfiesOne(c, requirement) ==
  LET d == disk[c].dirs[1][Architectures[1]]
  IN IF requirement.signer # "" THEN d.signer = requirement.signer ELSE d \in requirement.hashes

Satisfies(c, requirement) ==
  \A a \in Arch :
    LET d == disk[c].dirs[1][a]
    IN IF requirement.signer # "" THEN d.signer = requirement.signer ELSE d \in requirement.hashes

\* verifyInput, which ends at the first architecture that fails; the requirement is tested
\* last.
verifyInput(c, arch, directoryOnly, ignore) ==
  LET all == [i \in DOMAIN Selected(arch) |-> SliceFailure(c, Selected(arch)[i], directoryOnly, ignore)]
      bad == {i \in DOMAIN all : all[i] # ""}
  IN IF bad = {} THEN "" ELSE all[CHOOSE i \in bad : \A j \in bad : i <= j]

---------------------------------------------------------------------------
(* Verification of one resource of a bundle *)

\* A verification is ended by a failure of the code at some place, or it lists the
\* resources that are not as they were sealed.
Nothing == [failure |-> "", at |-> "", added |-> {}, modified |-> {}, missing |-> {}]
Fails(failure, at) == [Nothing EXCEPT !.failure = failure, !.at = at]

\* Code in a bundle, when own is what became of its own resources.  Code that does not
\* satisfy the requirement of its parent is a modified resource; any other failure in it
\* ends the verification, and names the innermost code.
verifyNested(k, requirement, deep, own) ==
  LET code == verifyInput(k, "", ~deep, FALSE)
  IN IF code # "" THEN Fails(code, k)
     ELSE IF ~Satisfies(k, requirement) THEN [Nothing EXCEPT !.modified = {k}]
     ELSE IF own = Nothing THEN Nothing
     ELSE Fails("nested", IF own.at = "" THEN k ELSE own.at)

verifyResource(c, n, env, deep, own) ==
  LET isFile == n \in Names
      present == IF isFile THEN disk[c].files[n] # "absent" /\ n \in Sealable ELSE n \in Present(disk, c)
      inEnvelope == IF isFile THEN n \in DOMAIN env.files ELSE n \in DOMAIN env.kids
  IN IF ~present /\ ~inEnvelope THEN Nothing
     ELSE IF ~inEnvelope THEN [Nothing EXCEPT !.added = {n}]
     ELSE IF ~present THEN IF n \in Optional THEN Nothing ELSE [Nothing EXCEPT !.missing = {n}]
     ELSE IF isFile
       THEN IF disk[c].files[n] = env.files[n] THEN Nothing ELSE [Nothing EXCEPT !.modified = {n}]
     ELSE verifyNested(n, env.kids[n], deep, own)

---------------------------------------------------------------------------
(* What became of code since it was signed *)

\* Code is what it is by what its directories cover.
SameCode(k, l) == k.signer = l.signer /\ k.pages = l.pages /\ k.info = l.info /\ k.env = l.env

\* What became of the files and the code in a bundle since it was signed.
AddedTo(c) ==
  {n \in Sealable : disk[c].files[n] # "absent" /\ sealed[c].files[n] = "absent"} \cup (Present(disk, c) \ DOMAIN sealed[c].kids)
MissingFrom(c) ==
  {n \in Required : disk[c].files[n] = "absent" /\ sealed[c].files[n] # "absent"} \cup (DOMAIN sealed[c].kids \ Present(disk, c))
Replaced(c) ==
  {n \in Sealable : "absent" \notin {disk[c].files[n], sealed[c].files[n]} /\ disk[c].files[n] # sealed[c].files[n]}
  \cup {k \in DOMAIN sealed[c].kids \cap Present(disk, c) :
          IF sealed[c].kids[k].signer = "certificate" THEN sealed[k].signer # "certificate" ELSE ~SameCode(sealed[k], sealed[c].kids[k])}

\* Code that is as it was signed, in the given architectures; its directory alone, or
\* with its pages and its envelope.
CodeKept(c, archs, directoryOnly, ignore) ==
  /\ disk[c].dirs # <<>> /\ disk[c].info = sealed[c].info
  /\ ~directoryOnly => /\ \A a \in archs : disk[c].pages[a] = sealed[c].pages[a]
                       /\ ignore \/ disk[c].env = sealed[c].env

---------------------------------------------------------------------------
(* Properties *)

\* Type invariant: an envelope has only files that can be sealed, and code that is signed
\* has a directory for each architecture and a history.
BundleTypes ==
  /\ steps \in 0..MaxSteps
  /\ \A c \in Codes :
       /\ disk[c].pages \in [Arch -> 0..1] /\ disk[c].info \in 0..1 /\ disk[c].present \in BOOLEAN
       /\ disk[c].files \in [Names -> {"absent", "old", "new"}]
       /\ disk[c].env # <<>> => /\ c \in Bundles /\ DOMAIN disk[c].env[1].files \subseteq Sealable
                                /\ DOMAIN disk[c].env[1].kids \subseteq Children[c]
       /\ disk[c].dirs # <<>> => DOMAIN disk[c].dirs[1] = Arch /\ sealed[c].signer \in Signers

\* Code verifies exactly when it is as it was signed, for any selection of architectures
\* and also when only its directory is looked at (verify.go:187-364).
CodeJudged ==
  \A c \in Codes, arch \in {""} \cup Arch, directoryOnly, ignore \in BOOLEAN :
    verifyInput(c, arch, directoryOnly, ignore) = ""
      <=> CodeKept(c, IF arch = "" THEN Arch ELSE {arch}, directoryOnly, ignore)

\* A resource of a bundle whose envelope is the one that was sealed is reported exactly as
\* what became of it; it passes when it is as it was and, for code, when that code and its
\* own resources do (resource_verification.go:62-102, bundle_tree.go:238-261).
Judged(c, n, deep, own, added, missing, replaced) ==
  LET r == verifyResource(c, n, disk[c].env[1], deep, own)
  IN /\ r.failure = "" => r.added = added \cap {n} /\ r.missing = missing \cap {n} /\ r.modified = replaced \cap {n}
     /\ r = Nothing <=> /\ n \notin added \cup missing \cup replaced
                        /\ n \in Present(disk, c) => CodeKept(n, Arch, ~deep, FALSE) /\ own = Nothing

ResourcesJudged ==
  \A c \in Bundles :
    disk[c].dirs # <<>> /\ disk[c].env = sealed[c].env =>
      LET added == AddedTo(c)
          missing == MissingFrom(c)
          replaced == Replaced(c)
      IN \A n \in Names \cup Children[c], deep \in BOOLEAN, own \in {Nothing, Fails("page", "")} :
           Judged(c, n, deep, own, added, missing, replaced)

\* What verification makes of each code and each resource is what became of it since it
\* was signed, whatever was signed, edited and moved in whatever order.
JudgementHolds == BundleTypes /\ CodeJudged /\ ResourcesJudged
=============================================================================
