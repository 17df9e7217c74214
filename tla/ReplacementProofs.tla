------------------------- MODULE ReplacementProofs -------------------------
(***************************************************************************)
(* Proofs about Replacement for any number of operations, names, hard links *)
(* and writes of other programs, and that it implements Publication.        *)
(*                                                                          *)
(* The argument: a private file has no name, so only its operation touches  *)
(* it until the rename; an ordinary write gives a file a time that it has   *)
(* never had, so a source whose time is still the one of the first check    *)
(* has been the same for the hashing and for the copy.                      *)
(***************************************************************************)
EXTENDS Replacement, SequenceTheorems, TLAPS

Unhashed == {"start", "open", "stat", "signed", "strip", "first"}
Empty    == Unhashed \cup {"hash", "allocate"}
Hashed   == {"allocate", "transfer", "verify", "check", "rename"}
Reading  == {"signed", "strip", "first", "hash", "allocate", "transfer", "verify"}
Attested == {"hash", "allocate", "transfer", "verify"}
Copied   == {"check", "rename", "recompress", "done", "done with error"}

\* The files that other programs, and operations that start, can reach.
Public == Originals \cup Published

\* A name never leads to a file that is still private, and no operation reads one.
PublicFiles ==
  /\ \A n \in Names : entry[n] \in Public
  /\ \A s \in Signers : source[s] \in Public /\ source[s] # s

\* Times are counts of writes; nobody has written into a private file.
Dated ==
  /\ \A f \in Files : mtime[f] <= writes
  /\ \A s \in Signers : before[s].mtime <= writes
  /\ \A s \in Signers : s \notin Published => mtime[s] = 0

\* How far the hashing and the copying have come.
Progress ==
  \A s \in Signers :
    /\ pc[s] \in Unhashed => plan[s] = <<>>
    /\ pc[s] \in Empty => pages[s] = <<>>
    /\ pc[s] \in Hashed => Len(plan[s]) = size[s]
    /\ pc[s] = "transfer" => Len(pages[s]) <= size[s]
    /\ pc[s] = "verify" => Len(pages[s]) = size[s] /\ seal[s] \in {Unsigned, plan[s]}

StartsWith(p, q) == Len(q) <= Len(p) /\ \A k \in 1..Len(q) : q[k] = p[k]

\* As long as the source keeps its time, both readings of it agree with it.
ReadsAgree ==
  \A s \in Signers :
    pc[s] \in Reading /\ mtime[source[s]] = before[s].mtime =>
      StartsWith(pages[source[s]], plan[s]) /\ StartsWith(pages[source[s]], pages[s])

\* What openCodeSource fixed is the whole file, unless it grew before the first check.
SizeIsWhole ==
  \A s \in Signers : s \notin early =>
    /\ pc[s] = "stat" => Len(pages[source[s]]) <= size[s]
    /\ pc[s] \in Reading => before[s].size <= size[s]

\* After the last look at the source the copy is what was hashed.
CopyIsPlan ==
  \A s \in Signers : pc[s] \in Copied /\ mtime[s] = 0 =>
    pages[s] = plan[s] /\ seal[s] \in {Unsigned, plan[s]}

\* ... and so is the source, until another program changes it.
SourceIsPlan ==
  \A s \in Signers : pc[s] \in {"check", "rename"} /\ s \notin late \cup early =>
    /\ pages[source[s]] = plan[s]
    /\ pc[s] = "rename" => SameFile(s)

Strict(s) == ~job[s].remove /\ ~job[s].noStrict /\ s \notin tagged

\* The source has no prohibited attribute after the check, the copy then inherits none.
Inherited ==
  \A s \in Signers : Strict(s) =>
    /\ pc[s] \in Attested => ~attrs[source[s]]
    /\ pc[s] \in Copied => ~attrs[s]

IInv ==
  /\ TypeOK /\ PublicFiles /\ Dated /\ Progress /\ ReadsAgree
  /\ SizeIsWhole /\ CopyIsPlan /\ SourceIsPlan /\ Inherited

---------------------------------------------------------------------------
(* Types *)

LEMMA InitType == Init => TypeOK
<1> SUFFICES ASSUME Init PROVE TypeOK
  OBVIOUS
<1> USE ReplacementAssumption DEF Init, Files
<1>1. job \in [Signers -> Jobs] /\ pc \in [Signers -> Labels]
  BY DEF Labels
<1>2. entry \in [Names -> Files] /\ source \in [Signers -> Files]
  OBVIOUS
<1>3. pages \in [Files -> Seq(Nat)] /\ seal \in [Files -> Seq(Nat) \cup {Unsigned}]
  OBVIOUS
<1>4. mtime \in [Files -> Nat] /\ attrs \in [Files -> BOOLEAN] /\ size \in [Signers -> Nat]
  OBVIOUS
<1>5. before \in [Signers -> [size : Nat, mtime : Nat]] /\ plan \in [Signers -> Seq(Nat)]
  OBVIOUS
<1>6. QED
  BY <1>1, <1>2, <1>3, <1>4, <1>5 DEF TypeOK

\* The label of an operation is one of the program, whatever step it takes.
LEMMA PcStep ==
  ASSUME TypeOK, NEW s \in Signers, NEW label \in Labels, Goto(s, label)
  PROVE  pc' \in [Signers -> Labels]
BY DEF TypeOK, Goto

LEMMA WriteType ==
  ASSUME TypeOK, NEW f \in Files, NEW new \in Seq(Nat), Write(f, new)
  PROVE  TypeOK'
<1> USE DEF TypeOK
<1>1. writes' \in 0..MaxWrites /\ writes + 1 \in Nat
  BY ReplacementAssumption DEF Write
<1>2. pages' \in [Files -> Seq(Nat)] /\ mtime' \in [Files -> Nat]
  BY <1>1 DEF Write
<1>3. early' \cup late' \cup tagged' \subseteq Signers
  BY DEF Write
<1>4. QED
  BY <1>1, <1>2, <1>3 DEF Write, planVars

LEMMA TypeStep == TypeOK /\ Progress /\ [Next]_vars => TypeOK'
<1> SUFFICES ASSUME TypeOK, Progress, [Next]_vars PROVE TypeOK'
  OBVIOUS
<1>1. ASSUME NEW s \in Signers, Open(s) PROVE TypeOK'
  <2>1. pc' \in [Signers -> Labels]
    BY <1>1, PcStep DEF Open, Labels
  <2>2. source' \in [Signers -> Files]
    BY <1>1, ReplacementAssumption DEF Open, TypeOK, Target
  <2>3. QED
    BY <1>1, <2>1, <2>2 DEF Open, TypeOK, fileVars, ghosts
<1>2. ASSUME NEW s \in Signers, openCodeSource(s) PROVE TypeOK'
  <2>1. pc' \in [Signers -> Labels]
    BY <1>2, PcStep DEF openCodeSource, Labels
  <2>2. size' \in [Signers -> Nat]
    BY <1>2 DEF openCodeSource, TypeOK
  <2>3. \A r \in Signers : Len(plan'[r]) <= size'[r]
    <3>1. plan[s] = <<>>
      BY <1>2 DEF openCodeSource, Progress, Unhashed
    <3>2. QED
      BY <1>2, <2>2, <3>1 DEF openCodeSource, TypeOK
  <2>4. QED
    BY <1>2, <2>1, <2>2, <2>3 DEF openCodeSource, TypeOK, fileVars, ghosts
<1>3. ASSUME NEW s \in Signers, mutateMachOFile(s) PROVE TypeOK'
  <2>1. pc' \in [Signers -> Labels]
    BY <1>3, PcStep DEF mutateMachOFile, Labels
  <2>2. Len(pages[source[s]]) \in Nat /\ mtime[source[s]] \in Nat
    BY DEF TypeOK
  <2>3. before' \in [Signers -> [size : Nat, mtime : Nat]]
    BY <1>3, <2>2 DEF mutateMachOFile, TypeOK
  <2>4. QED
    BY <1>3, <2>1, <2>3 DEF mutateMachOFile, TypeOK, fileVars, ghosts
<1>4. ASSUME NEW s \in Signers, CheckSigned(s) PROVE TypeOK'
  BY <1>4, PcStep DEF CheckSigned, TypeOK, Labels, fileVars, planVars, ghosts
<1>5. ASSUME NEW s \in Signers, Strip(s) PROVE TypeOK'
  BY <1>5, PcStep DEF Strip, TypeOK, Labels, fileVars, planVars, ghosts
<1>6. ASSUME NEW s \in Signers, First(s) PROVE TypeOK'
  BY <1>6, PcStep DEF First, TypeOK, Labels, fileVars, planVars, ghosts
<1>7. ASSUME NEW s \in Signers, mutateSource(s) PROVE TypeOK'
  <2>1. pc' \in [Signers -> Labels]
    BY <1>7, PcStep DEF mutateSource, Labels, TypeOK
  <2>2. plan[s] \in Seq(Nat) /\ pages[source[s]] \in Seq(Nat) /\ size[s] \in Nat
    BY DEF TypeOK
  <2>3. plan' \in [Signers -> Seq(Nat)] /\ \A r \in Signers : Len(plan'[r]) <= size'[r]
    <3>1. CASE UNCHANGED plan
      BY <1>7, <3>1 DEF mutateSource, TypeOK
    <3>2. CASE Len(plan[s]) + 1 <= size[s] /\ Len(plan[s]) + 1 <= Len(pages[source[s]])
      <4> DEFINE page == pages[source[s]][Len(plan[s]) + 1]
      <4>1. page \in Nat
        BY <2>2, <3>2
      <4>2. plan' = [plan EXCEPT ![s] = Append(@, page)]
        BY <1>7, <2>2, <3>2 DEF mutateSource
      <4> HIDE DEF page
      <4>3. Append(plan[s], page) \in Seq(Nat) /\ Len(Append(plan[s], page)) <= size[s]
        BY <2>2, <3>2, <4>1
      <4>4. QED
        BY <1>7, <4>2, <4>3 DEF mutateSource, TypeOK
    <3>3. QED
      BY <1>7, <2>2, <3>1, <3>2 DEF mutateSource
  <2>4. QED
    BY <1>7, <2>1, <2>3 DEF mutateSource, TypeOK, fileVars, ghosts
<1>8. ASSUME NEW s \in Signers, PrepareReplacement(s) PROVE TypeOK'
  BY <1>8, PcStep DEF PrepareReplacement, TypeOK, Labels, fileVars, planVars, ghosts
<1>9. ASSUME NEW s \in Signers, Transfer(s) PROVE TypeOK'
  <2>1. pc' \in [Signers -> Labels]
    BY <1>9, PcStep DEF Transfer, Labels, TypeOK
  <2>2. pages[s] \in Seq(Nat) /\ pages[source[s]] \in Seq(Nat) /\ size[s] \in Nat /\ s \in Files
    BY DEF TypeOK, Files
  <2>3. pages' \in [Files -> Seq(Nat)]
    <3>1. CASE UNCHANGED pages
      BY <3>1 DEF TypeOK
    <3>2. CASE Len(pages[s]) + 1 <= Len(pages[source[s]])
      <4> DEFINE page == pages[source[s]][Len(pages[s]) + 1]
      <4>1. page \in Nat
        BY <2>2, <3>2
      <4> HIDE DEF page
      <4>2. Append(pages[s], page) \in Seq(Nat)
        BY <2>2, <4>1
      <4>3. pages' = pages \/ pages' = [pages EXCEPT ![s] = Append(@, page)]
        BY <1>9 DEF Transfer, page
      <4>4. QED
        BY <4>2, <4>3 DEF TypeOK
    <3>3. QED
      BY <1>9, <3>1, <3>2 DEF Transfer
  <2>4. seal' \in [Files -> Seq(Nat) \cup {Unsigned}]
    BY <1>9, <2>2 DEF Transfer, TypeOK
  <2>5. QED
    BY <1>9, <2>1, <2>3, <2>4 DEF Transfer, TypeOK, planVars, ghosts
<1>10. ASSUME NEW s \in Signers, VerifySource(s) PROVE TypeOK'
  BY <1>10, PcStep DEF VerifySource, TypeOK, Labels, fileVars, planVars, ghosts
<1>11. ASSUME NEW s \in Signers, CheckTarget(s) PROVE TypeOK'
  BY <1>11, PcStep DEF CheckTarget, TypeOK, Labels, fileVars, planVars, ghosts
<1>12. ASSUME NEW s \in Signers, Rename(s) PROVE TypeOK'
  BY <1>12, PcStep DEF Rename, TypeOK, Labels, fileVars, planVars, Files
<1>13. ASSUME NEW s \in Signers, Recompress(s) PROVE TypeOK'
  BY <1>13, PcStep DEF Recompress, TypeOK, Labels, fileVars, planVars, ghosts
<1>14. ASSUME NEW s \in Signers, Fail(s) PROVE TypeOK'
  BY <1>14, PcStep DEF Fail, TypeOK, Labels, fileVars, planVars, ghosts
<1>15. ASSUME NEW f \in Files, Grow(f) \/ Truncate(f) \/ \E k \in DOMAIN pages[f] : Overwrite(f, k)
       PROVE  TypeOK'
  <2>1. pages[f] \in Seq(Nat) /\ writes + 1 \in Nat
    BY ReplacementAssumption DEF TypeOK
  <2>2. Append(pages[f], writes + 1) \in Seq(Nat)
    BY <2>1
  <2>3. pages[f] # <<>> => SubSeq(pages[f], 1, Len(pages[f]) - 1) \in Seq(Nat)
    BY <2>1
  <2>4. ASSUME NEW k \in DOMAIN pages[f] PROVE [pages[f] EXCEPT ![k] = writes + 1] \in Seq(Nat)
    BY <2>1
  <2>5. QED
    BY <1>15, <2>2, <2>3, <2>4, WriteType DEF Grow, Truncate, Overwrite
<1>16. ASSUME NEW f \in Files, Tag(f) PROVE TypeOK'
  BY <1>16, ReplacementAssumption DEF Tag, TypeOK, fileVars, planVars
<1>17. CASE UNCHANGED vars
  BY <1>17 DEF vars, TypeOK, fileVars, planVars, ghosts
<1>18. QED
  BY <1>1, <1>2, <1>3, <1>4, <1>5, <1>6, <1>7, <1>8, <1>9, <1>10, <1>11, <1>12, <1>13, <1>14, <1>15,
     <1>16, <1>17 DEF Next, Step, OtherPrograms

---------------------------------------------------------------------------
(* What the steps of the others do to one operation *)

\* A step publishes its operation, and only by the rename.
LEMMA PublishedStep ==
  ASSUME TypeOK, [Next]_vars
  PROVE  /\ Published \subseteq Published'
         /\ \A s \in Published' : s \in Published \/ Rename(s)
<1> USE DEF TypeOK, Published, Goto
<1>1. ASSUME NEW s \in Signers, Step(s)
      PROVE  /\ Published \subseteq Published'
             /\ \A r \in Published' : r \in Published \/ Rename(r)
  <2>1. Rename(s) => pc' = [pc EXCEPT ![s] = "recompress"]
    BY DEF Rename
  <2>2. Recompress(s) => pc[s] = "recompress" /\ pc' \in {[pc EXCEPT ![s] = l] : l \in {"done", "done with error"}}
    BY DEF Recompress
  <2>3. ASSUME ~Rename(s), ~Recompress(s)
        PROVE  /\ {pc[s], pc'[s]} \cap {"recompress", "done", "done with error"} = {}
               /\ \A r \in Signers \ {s} : pc'[r] = pc[r]
    BY <1>1, <2>3 DEF Step, Open, openCodeSource, mutateMachOFile, CheckSigned, Strip, First,
       mutateSource, PrepareReplacement, Transfer, VerifySource, CheckTarget, Fail, Labels
  <2>4. QED
    BY <1>1, <2>1, <2>2, <2>3
<1>2. CASE UNCHANGED pc
  BY <1>2
<1>3. OtherPrograms \/ UNCHANGED vars => UNCHANGED pc
  BY DEF OtherPrograms, Grow, Truncate, Tag, Overwrite, Write, vars
<1>4. QED
  BY <1>1, <1>2, <1>3 DEF Next

\* What an operation keeps to itself.
Own(s) == <<job[s], pc[s], source[s], size[s], before[s], plan[s]>>

\* A step of the program that does not write into a file.
Quiet(s) ==
  /\ pages'[s] = pages[s] /\ seal'[s] = seal[s]
  /\ pages'[source[s]] = pages[source[s]]
  /\ mtime' = mtime /\ writes' = writes
  /\ attrs'[s] => attrs[s]
  /\ attrs'[source[s]] => attrs[source[s]]
  /\ early' = early /\ late \subseteq late' /\ tagged' = tagged

Writing == \E f \in Files, new \in Seq(Nat) : Write(f, new)

LEMMA WritingStep ==
  ASSUME TypeOK, NEW f \in Files,
         Grow(f) \/ Truncate(f) \/ \E k \in DOMAIN pages[f] : Overwrite(f, k)
  PROVE  Writing
<1>1. pages[f] \in Seq(Nat) /\ writes + 1 \in Nat
  BY ReplacementAssumption DEF TypeOK
<1>2. Append(pages[f], writes + 1) \in Seq(Nat)
  BY <1>1
<1>3. pages[f] # <<>> => SubSeq(pages[f], 1, Len(pages[f]) - 1) \in Seq(Nat)
  BY <1>1
<1>4. ASSUME NEW k \in DOMAIN pages[f] PROVE [pages[f] EXCEPT ![k] = writes + 1] \in Seq(Nat)
  BY <1>1
<1>5. QED
  BY <1>2, <1>3, <1>4 DEF Grow, Truncate, Overwrite, Writing

\* Any step is one of s, a quiet one, a write or a new attribute.
LEMMA OtherStep ==
  ASSUME TypeOK, PublicFiles, NEW s \in Signers, [Next]_vars, ~Step(s)
  PROVE  /\ Own(s)' = Own(s)
         /\ Quiet(s) \/ Writing \/ \E f \in Files : Tag(f)
<1> USE DEF TypeOK, Own, Quiet, Goto
<1>1. ASSUME NEW r \in Signers, Step(r), r # s
      PROVE  Own(s)' = Own(s) /\ Quiet(s)
  <2>1. r \in Files /\ s \in Files /\ source[r] \in Files
    BY DEF Files
  <2>2. Own(s)' = Own(s)
    BY <1>1 DEF Step, Open, openCodeSource, mutateMachOFile, CheckSigned, Strip, First,
       mutateSource, PrepareReplacement, Transfer, VerifySource, CheckTarget, Rename, Recompress,
       Fail, fileVars, planVars, ghosts
  <2>3. source[s] # r \/ r \in Published
    BY ReplacementAssumption DEF PublicFiles, Public
  <2>4. CASE Transfer(r)
    <3>1. source[s] # r
      BY <2>3, <2>4 DEF Transfer, Published
    <3>2. QED
      BY <1>1, <2>1, <2>4, <3>1 DEF Transfer, planVars, ghosts
  <2>5. CASE VerifySource(r)
    <3>1. source[s] # r
      BY <2>3, <2>5 DEF VerifySource, Published
    <3>2. QED
      BY <1>1, <2>1, <2>5, <3>1 DEF VerifySource, fileVars, planVars, ghosts
  <2>6. CASE Strip(r)
    BY <1>1, <2>1, <2>6 DEF Strip, fileVars, planVars, ghosts
  <2>7. CASE ~Transfer(r) /\ ~VerifySource(r) /\ ~Strip(r)
    BY <1>1, <2>7 DEF Step, Open, openCodeSource, mutateMachOFile, CheckSigned, First,
       mutateSource, PrepareReplacement, CheckTarget, Rename, Recompress,
       Fail, fileVars, planVars, ghosts
  <2>8. QED
    BY <2>2, <2>4, <2>5, <2>6, <2>7
<1>2. ASSUME NEW f \in Files, NEW new \in Seq(Nat), Write(f, new)
      PROVE  Own(s)' = Own(s)
  BY <1>2 DEF Write, planVars
<1>3. ASSUME NEW f \in Files, Tag(f) PROVE Own(s)' = Own(s)
  BY <1>3 DEF Tag, planVars
<1>4. CASE UNCHANGED vars
  BY <1>4 DEF vars, fileVars, planVars, ghosts
<1>5. QED
  BY <1>1, <1>2, <1>3, <1>4, WritingStep DEF Next, OtherPrograms, Writing

---------------------------------------------------------------------------
(* The conjuncts of the invariant *)

LEMMA PublicStep ==
  ASSUME TypeOK, PublicFiles, [Next]_vars
  PROVE  PublicFiles'
<1>1. Published \subseteq Published'
  BY PublishedStep
<1>2. ASSUME NEW n \in Names PROVE entry'[n] \in Public'
  <2>1. UNCHANGED entry \/ \E s \in Signers : Rename(s)
    BY DEF Next, Step, Open, openCodeSource, mutateMachOFile, CheckSigned, Strip, First,
       mutateSource, PrepareReplacement, Transfer, VerifySource, CheckTarget, Recompress, Fail,
       OtherPrograms, Grow, Truncate, Overwrite, Write, Tag, vars
  <2>2. ASSUME NEW s \in Signers, Rename(s) PROVE entry'[n] = entry[n] \/ entry'[n] \in Published'
    BY <2>2 DEF Rename, TypeOK, Published, Goto
  <2>3. QED
    BY <1>1, <2>1, <2>2 DEF PublicFiles, Public
<1>3. ASSUME NEW s \in Signers PROVE source'[s] \in Public' /\ source'[s] # s
  <2>1. source' = source \/ \E r \in Signers : Open(r)
    BY DEF Next, Step, openCodeSource, mutateMachOFile, CheckSigned, Strip, First, mutateSource,
       PrepareReplacement, Transfer, VerifySource, CheckTarget, Rename, Recompress, Fail,
       OtherPrograms, Grow, Truncate, Overwrite, Write, Tag, vars, planVars
  <2>2. CASE source'[s] = source[s]
    BY <1>1, <2>2 DEF PublicFiles, Public
  <2>3. CASE Open(s)
    <3>1. source'[s] = entry[Target(s)] /\ Target(s) \in Names /\ s \notin Public
      BY <2>3, ReplacementAssumption DEF Open, TypeOK, Target, Public, Published
    <3>2. QED
      BY <1>1, <3>1 DEF PublicFiles, Public
  <2>4. QED
    BY <2>1, <2>2, <2>3 DEF Open, TypeOK
<1>4. QED
  BY <1>2, <1>3 DEF PublicFiles

\* Only a file that has a name is written by others.
LEMMA WrittenIsPublic ==
  ASSUME TypeOK, PublicFiles, NEW f \in Files, NEW new, Write(f, new)
  PROVE  f \in Public
BY DEF Write, Named, PublicFiles

\* A private file is left alone by the others.
LEMMA PrivateKept ==
  ASSUME TypeOK, PublicFiles, NEW s \in Signers, [Next]_vars, ~Step(s), s \notin Published
  PROVE  pages'[s] = pages[s] /\ seal'[s] = seal[s] /\ mtime'[s] = mtime[s]
<1>1. s \in Files /\ s \notin Public
  BY ReplacementAssumption DEF Files, Public
<1>2. ASSUME NEW f \in Files, NEW new \in Seq(Nat), Write(f, new)
      PROVE  pages'[s] = pages[s] /\ seal'[s] = seal[s] /\ mtime'[s] = mtime[s]
  BY <1>1, <1>2, WrittenIsPublic DEF Write, TypeOK
<1>3. QED
  BY <1>2, OtherStep DEF Quiet, Writing, Tag, fileVars

\* A source that has its old time has not been written.
LEMMA SourceKept ==
  ASSUME TypeOK, PublicFiles, Dated, NEW s \in Signers, [Next]_vars, ~Step(s),
         mtime'[source[s]] = before[s].mtime
  PROVE  pages'[source[s]] = pages[source[s]] /\ mtime'[source[s]] = mtime[source[s]]
<1>1. source[s] \in Files /\ before[s].mtime \in Nat /\ before[s].mtime <= writes /\ writes \in Nat
  BY ReplacementAssumption DEF TypeOK, Dated
<1>2. ASSUME NEW f \in Files, NEW new \in Seq(Nat), Write(f, new)
      PROVE  pages'[source[s]] = pages[source[s]] /\ mtime'[source[s]] = mtime[source[s]]
  BY <1>1, <1>2 DEF Write, TypeOK
<1>3. QED
  BY <1>2, OtherStep DEF Quiet, Writing, Tag, fileVars

LEMMA DatedStep ==
  ASSUME TypeOK, PublicFiles, Dated, [Next]_vars
  PROVE  Dated'
<1> USE DEF TypeOK
<1>0. writes \in Nat
  BY ReplacementAssumption
<1>1. UNCHANGED <<mtime, writes>> \/ Writing \/ \E f \in Files : Tag(f)
  BY WritingStep DEF Next, Step, Open, openCodeSource, mutateMachOFile, CheckSigned, Strip, First,
     mutateSource, PrepareReplacement, Transfer, VerifySource, CheckTarget, Rename, Recompress, Fail,
     OtherPrograms, vars, fileVars, ghosts
<1>2. UNCHANGED before \/ \E s \in Signers : mutateMachOFile(s)
  BY DEF Next, Step, Open, openCodeSource, CheckSigned, Strip, First, mutateSource,
     PrepareReplacement, Transfer, VerifySource, CheckTarget, Rename, Recompress, Fail,
     OtherPrograms, Grow, Truncate, Overwrite, Write, Tag, vars, planVars
<1>3. ASSUME NEW f \in Files, NEW new \in Seq(Nat), Write(f, new)
      PROVE  Dated'
  <2>1. mtime' = [mtime EXCEPT ![f] = writes + 1] /\ writes' = writes + 1 /\ UNCHANGED <<before, pc>>
    BY <1>3 DEF Write, planVars
  <2>2. \A s \in Signers : s \notin Published => s # f
    BY <1>3, WrittenIsPublic, ReplacementAssumption DEF Public
  <2>3. \A g \in Files : mtime'[g] <= writes'
    BY <1>0, <2>1 DEF Dated
  <2>4. \A s \in Signers : before'[s].mtime <= writes'
    BY <1>0, <2>1 DEF Dated
  <2>5. \A s \in Signers : s \notin Published' => mtime'[s] = 0
    BY <2>1, <2>2 DEF Dated, Published, Files
  <2>6. QED
    BY <2>3, <2>4, <2>5 DEF Dated
<1>4. ASSUME NEW f \in Files, Tag(f) PROVE Dated'
  <2>1. writes' = writes + 1 /\ UNCHANGED <<mtime, before, pc>>
    BY <1>4 DEF Tag, fileVars, planVars
  <2>2. \A g \in Files : mtime'[g] <= writes'
    BY <1>0, <2>1 DEF Dated
  <2>3. \A s \in Signers : before'[s].mtime <= writes'
    BY <1>0, <2>1 DEF Dated
  <2>4. \A s \in Signers : s \notin Published' => mtime'[s] = 0
    BY <2>1 DEF Dated, Published
  <2>5. QED
    BY <2>2, <2>3, <2>4 DEF Dated
<1>5. CASE UNCHANGED <<mtime, writes>>
  <2>1. \A s \in Signers : s \notin Published' => mtime'[s] = 0
    BY <1>5, PublishedStep DEF Dated
  <2>2. ASSUME NEW s \in Signers PROVE before'[s].mtime <= writes
    <3>1. ASSUME NEW r \in Signers, mutateMachOFile(r)
          PROVE  before'[s] = before[s] \/ before'[s].mtime = mtime[source[r]]
      BY <3>1 DEF mutateMachOFile
    <3>2. QED
      BY <1>2, <3>1 DEF Dated
  <2>3. QED
    BY <1>5, <2>1, <2>2 DEF Dated
<1>6. QED
  BY <1>1, <1>3, <1>4, <1>5 DEF Writing

LEMMA ProgressStep ==
  ASSUME TypeOK, PublicFiles, Progress, [Next]_vars
  PROVE  Progress'
<1> DEFINE P(s) ==
      /\ pc[s] \in Unhashed => plan[s] = <<>>
      /\ pc[s] \in Empty => pages[s] = <<>>
      /\ pc[s] \in Hashed => Len(plan[s]) = size[s]
      /\ pc[s] = "transfer" => Len(pages[s]) <= size[s]
      /\ pc[s] = "verify" => Len(pages[s]) = size[s] /\ seal[s] \in {Unsigned, plan[s]}
<1> SUFFICES ASSUME NEW s \in Signers PROVE P(s)'
  BY DEF Progress
<1>0. P(s) /\ s \in Files
  BY DEF Progress, Files
<1> USE DEF Unhashed, Empty, Hashed
<1>1. CASE ~Step(s)
  <2>1. Own(s)' = Own(s)
    BY <1>1, OtherStep
  <2>2. CASE s \in Published
    BY <1>0, <2>1, <2>2 DEF Own, Published
  <2>3. CASE s \notin Published
    BY <1>0, <1>1, <2>1, <2>3, PrivateKept DEF Own
  <2>4. QED
    BY <2>2, <2>3
<1>2. CASE Step(s)
  <2> USE <1>0 DEF TypeOK, Goto
  <2>1. CASE Open(s)
    BY <2>1 DEF Open, fileVars
  <2>2. CASE openCodeSource(s)
    BY <2>2 DEF openCodeSource, fileVars
  <2>3. CASE mutateMachOFile(s)
    BY <2>3 DEF mutateMachOFile, fileVars
  <2>4. CASE CheckSigned(s) \/ Strip(s) \/ First(s)
    BY <2>4 DEF CheckSigned, Strip, First, fileVars, planVars
  <2>5. CASE mutateSource(s)
    <3>1. Len(plan[s]) <= size[s] /\ Len(plan[s]) \in Nat /\ size[s] \in Nat
      OBVIOUS
    <3>2. pc[s] = "hash" /\ UNCHANGED <<pages, seal, size>>
      BY <2>5 DEF mutateSource, fileVars
    <3>3. UNCHANGED pc \/ (pc'[s] = "allocate" /\ plan' = plan /\ Len(plan[s]) + 1 > size[s])
      BY <2>5 DEF mutateSource
    <3>4. CASE UNCHANGED pc
      BY <3>2, <3>4
    <3>5. CASE pc'[s] = "allocate" /\ plan' = plan /\ Len(plan[s]) + 1 > size[s]
      <4>1. Len(plan[s]) = size[s]
        BY <3>1, <3>5
      <4>2. QED
        BY <3>2, <3>5, <4>1
    <3>6. QED
      BY <3>3, <3>4, <3>5
  <2>6. CASE PrepareReplacement(s)
    BY <2>6 DEF PrepareReplacement, fileVars, planVars
  <2>7. CASE Transfer(s)
    <3>1. /\ pages[s] \in Seq(Nat) /\ Len(pages[s]) \in Nat /\ size[s] \in Nat
          /\ pc[s] = "transfer" /\ Len(pages[s]) <= size[s]
      BY <2>7 DEF Transfer
    <3>2. Len(plan'[s]) = size'[s] /\ plan'[s] = plan[s] /\ size'[s] = size[s]
      BY <2>7 DEF Transfer, planVars
    <3>3. CASE Len(pages[s]) + 1 > size[s]
      <4>1. pc'[s] = "verify" /\ pages'[s] = pages[s] /\ seal'[s] \in {Unsigned, plan[s]}
        BY <2>7, <3>3 DEF Transfer
      <4>2. Len(pages[s]) = size[s]
        BY <3>1, <3>3
      <4>3. QED
        BY <3>2, <4>1, <4>2
    <3>4. CASE Len(pages[s]) + 1 <= size[s]
      <4> DEFINE page == pages[source[s]][Len(pages[s]) + 1]
      <4>1. pc'[s] = "transfer" /\ Len(pages[s]) + 1 <= Len(pages[source[s]])
            /\ pages'[s] = Append(pages[s], page)
        <5>1. ~(Len(pages[s]) + 1 > size[s])
          BY <3>1, <3>4
        <5>2. /\ Len(pages[s]) + 1 <= Len(pages[source[s]]) /\ pc' = pc
              /\ pages' = [pages EXCEPT ![s] = Append(@, page)]
          BY <2>7, <5>1 DEF Transfer
        <5> HIDE DEF page
        <5>3. QED
          BY <3>1, <5>2
      <4>2. page \in Nat
        BY <3>1, <4>1
      <4> HIDE DEF page
      <4>3. Len(pages'[s]) = Len(pages[s]) + 1
        BY <3>1, <4>1, <4>2
      <4>4. QED
        BY <3>2, <3>4, <4>1, <4>3
    <3>5. QED
      BY <3>1, <3>3, <3>4
  <2>8. CASE VerifySource(s) \/ CheckTarget(s) \/ Rename(s) \/ Recompress(s) \/ Fail(s)
    BY <2>8 DEF VerifySource, CheckTarget, Rename, Recompress, Fail, fileVars, planVars
  <2>9. QED
    BY <1>2, <2>1, <2>2, <2>3, <2>4, <2>5, <2>6, <2>7, <2>8 DEF Step
<1>3. QED
  BY <1>1, <1>2

LEMMA StartsWithAppend ==
  ASSUME NEW p \in Seq(Nat), NEW q \in Seq(Nat), StartsWith(p, q), Len(q) + 1 <= Len(p)
  PROVE  StartsWith(p, Append(q, p[Len(q) + 1]))
<1>1. p[Len(q) + 1] \in Nat
  OBVIOUS
<1> DEFINE r == Append(q, p[Len(q) + 1])
<1>2. Len(r) = Len(q) + 1 /\ \A k \in 1..Len(r) : r[k] = IF k <= Len(q) THEN q[k] ELSE p[Len(q) + 1]
  BY <1>1
<1>3. \A k \in 1..Len(r) : r[k] = p[k]
  BY <1>2 DEF StartsWith
<1>4. QED
  BY <1>2, <1>3 DEF StartsWith

LEMMA StartsWithAll ==
  ASSUME NEW p \in Seq(Nat), NEW q \in Seq(Nat), NEW r \in Seq(Nat),
         StartsWith(p, q), StartsWith(p, r), Len(q) = Len(r)
  PROVE  q = r
<1>1. \A k \in 1..Len(q) : q[k] = r[k]
  BY DEF StartsWith
<1>2. QED
  BY <1>1, SeqEqual

LEMMA ReadsAgreeStep ==
  ASSUME TypeOK, PublicFiles, Dated, Progress, ReadsAgree, [Next]_vars
  PROVE  ReadsAgree'
<1> SUFFICES ASSUME NEW s \in Signers, (pc[s] \in Reading /\ mtime[source[s]] = before[s].mtime)'
             PROVE  (StartsWith(pages[source[s]], plan[s]) /\ StartsWith(pages[source[s]], pages[s]))'
  BY DEF ReadsAgree
<1>0. s \in Files /\ source[s] \in Files /\ source[s] # s
  BY DEF Files, TypeOK, PublicFiles
<1>1. CASE ~Step(s)
  <2>1. Own(s)' = Own(s)
    BY <1>1, OtherStep
  <2>2. pages'[s] = pages[s]
    BY <1>1, <2>1, PrivateKept DEF Own, Published, Reading
  <2>3. pages'[source[s]] = pages[source[s]] /\ mtime'[source[s]] = mtime[source[s]]
    BY <1>1, <2>1, SourceKept DEF Own
  <2>4. QED
    BY <2>1, <2>2, <2>3 DEF Own, ReadsAgree
<1>2. CASE Step(s)
  <2> USE <1>0 DEF Goto, TypeOK
  <2>1. CASE Open(s) \/ openCodeSource(s)
    BY <2>1 DEF Open, openCodeSource, Reading
  <2>2. CASE mutateMachOFile(s)
    <3>1. plan'[s] = <<>> /\ pages'[s] = <<>>
      BY <2>2 DEF mutateMachOFile, Progress, Unhashed, Empty, fileVars
    <3>2. pages'[source'[s]] \in Seq(Nat)
      BY <2>2 DEF mutateMachOFile, fileVars
    <3>3. QED
      BY <3>1, <3>2 DEF StartsWith
  <2>3. CASE CheckSigned(s) \/ Strip(s) \/ First(s) \/ PrepareReplacement(s)
    BY <2>3 DEF CheckSigned, Strip, First, PrepareReplacement, ReadsAgree, Reading, fileVars, planVars
  <2>4. CASE mutateSource(s)
    <3>1. /\ UNCHANGED <<pages, mtime, source, before>>
          /\ plan' = plan \/ /\ Len(plan[s]) + 1 <= Len(pages[source[s]])
                             /\ plan' = [plan EXCEPT ![s] = Append(@, pages[source[s]][Len(plan[s]) + 1])]
          /\ pc[s] \in Reading
      BY <2>4 DEF mutateSource, fileVars, Reading
    <3>2. StartsWith(pages[source[s]], plan[s]) /\ StartsWith(pages[source[s]], pages[s])
      BY <3>1 DEF ReadsAgree
    <3>3. StartsWith(pages[source[s]], plan'[s])
      <4> DEFINE p == pages[source[s]]
      <4>1. p \in Seq(Nat) /\ plan[s] \in Seq(Nat)
        OBVIOUS
      <4>2. plan'[s] = plan[s] \/ /\ Len(plan[s]) + 1 <= Len(p)
                                  /\ plan'[s] = Append(plan[s], p[Len(plan[s]) + 1])
        BY <1>0, <3>1
      <4> HIDE DEF p
      <4>3. StartsWith(p, plan'[s])
        <5>1. StartsWith(p, plan[s])
          BY <3>2 DEF p
        <5>2. QED
          BY <4>1, <4>2, <5>1, StartsWithAppend
      <4>4. QED
        BY <4>3 DEF p
    <3>4. QED
      BY <3>1, <3>2, <3>3
  <2>5. CASE Transfer(s)
    <3>1. /\ UNCHANGED <<mtime, source, before, plan>>
          /\ pages' = pages \/ /\ Len(pages[s]) + 1 <= Len(pages[source[s]])
                               /\ pages' = [pages EXCEPT ![s] = Append(@, pages[source[s]][Len(pages[s]) + 1])]
          /\ pc[s] \in Reading
      BY <2>5 DEF Transfer, planVars, Reading
    <3>2. StartsWith(pages[source[s]], plan[s]) /\ StartsWith(pages[source[s]], pages[s])
      BY <3>1 DEF ReadsAgree
    <3>3. pages'[source[s]] = pages[source[s]]
      BY <3>1
    <3>4. StartsWith(pages[source[s]], pages'[s])
      <4> DEFINE p == pages[source[s]]
      <4>1. p \in Seq(Nat) /\ pages[s] \in Seq(Nat)
        OBVIOUS
      <4>2. pages'[s] = pages[s] \/ /\ Len(pages[s]) + 1 <= Len(p)
                                    /\ pages'[s] = Append(pages[s], p[Len(pages[s]) + 1])
        BY <1>0, <3>1
      <4> HIDE DEF p
      <4>3. StartsWith(p, pages'[s])
        <5>1. StartsWith(p, pages[s])
          BY <3>2 DEF p
        <5>2. QED
          BY <4>1, <4>2, <5>1, StartsWithAppend
      <4>4. QED
        BY <4>3 DEF p
    <3>5. QED
      BY <3>1, <3>2, <3>3, <3>4
  <2>6. CASE VerifySource(s) \/ CheckTarget(s) \/ Rename(s) \/ Recompress(s) \/ Fail(s)
    BY <2>6 DEF VerifySource, CheckTarget, Rename, Recompress, Fail, Reading
  <2>7. QED
    BY <1>2, <2>1, <2>2, <2>3, <2>4, <2>5, <2>6 DEF Step
<1>3. QED
  BY <1>1, <1>2

LEMMA SizeIsWholeStep ==
  ASSUME TypeOK, PublicFiles, SizeIsWhole, [Next]_vars
  PROVE  SizeIsWhole'
<1> DEFINE P(s) ==
      /\ pc[s] = "stat" => Len(pages[source[s]]) <= size[s]
      /\ pc[s] \in Reading => before[s].size <= size[s]
<1> SUFFICES ASSUME NEW s \in Signers, s \notin early' PROVE P(s)'
  BY DEF SizeIsWhole
<1>0. source[s] \in Files /\ (s \notin early => P(s))
  BY DEF TypeOK, SizeIsWhole
<1>1. CASE ~Step(s)
  <2>1. Own(s)' = Own(s)
    BY <1>1, OtherStep
  <2>2. CASE Quiet(s) \/ \E f \in Files : Tag(f)
    BY <1>0, <2>1, <2>2 DEF Own, Quiet, Tag, fileVars
  <2>3. ASSUME NEW f \in Files, NEW new \in Seq(Nat), Write(f, new) PROVE P(s)'
    <3>1. s \notin early /\ (pc[s] = "stat" /\ source[s] = f => Len(new) <= size[s])
      BY <2>3 DEF Write, TypeOK
    <3>2. pages'[source[s]] = IF source[s] = f THEN new ELSE pages[source[s]]
      BY <1>0, <2>3 DEF Write, TypeOK
    <3>3. QED
      BY <1>0, <2>1, <3>1, <3>2 DEF Own
  <2>4. QED
    BY <1>1, <2>2, <2>3, OtherStep DEF Writing
<1>2. CASE Step(s)
  <2> USE <1>0 DEF TypeOK, Goto, Reading
  <2>1. CASE Open(s) \/ openCodeSource(s)
    BY <2>1 DEF Open, openCodeSource, fileVars, ghosts
  <2>2. CASE mutateMachOFile(s)
    BY <2>2 DEF mutateMachOFile, fileVars, ghosts
  <2>3. CASE CheckSigned(s) \/ Strip(s) \/ First(s) \/ PrepareReplacement(s)
    BY <2>3 DEF CheckSigned, Strip, First, PrepareReplacement, fileVars, planVars, ghosts
  <2>4. CASE mutateSource(s)
    BY <2>4 DEF mutateSource, fileVars, ghosts
  <2>5. CASE Transfer(s)
    BY <2>5 DEF Transfer, planVars, ghosts
  <2>6. CASE VerifySource(s) \/ CheckTarget(s) \/ Rename(s) \/ Recompress(s) \/ Fail(s)
    BY <2>6 DEF VerifySource, CheckTarget, Rename, Recompress, Fail
  <2>7. QED
    BY <1>2, <2>1, <2>2, <2>3, <2>4, <2>5, <2>6 DEF Step
<1>3. QED
  BY <1>1, <1>2

LEMMA CopyIsPlanStep ==
  ASSUME TypeOK, PublicFiles, Progress, ReadsAgree, CopyIsPlan, [Next]_vars
  PROVE  CopyIsPlan'
<1> SUFFICES ASSUME NEW s \in Signers, (pc[s] \in Copied /\ mtime[s] = 0)'
             PROVE  (pages[s] = plan[s] /\ seal[s] \in {Unsigned, plan[s]})'
  BY DEF CopyIsPlan
<1>0. /\ s \in Files /\ writes \in Nat
      /\ pc[s] \in Copied /\ mtime[s] = 0 => pages[s] = plan[s] /\ seal[s] \in {Unsigned, plan[s]}
  BY ReplacementAssumption DEF Files, TypeOK, CopyIsPlan
<1>1. CASE ~Step(s)
  <2>1. Own(s)' = Own(s)
    BY <1>1, OtherStep
  <2>2. CASE Quiet(s) \/ \E f \in Files : Tag(f)
    BY <1>0, <2>1, <2>2 DEF Own, Quiet, Tag, fileVars
  <2>3. ASSUME NEW f \in Files, NEW new \in Seq(Nat), Write(f, new)
        PROVE  f # s /\ pages'[s] = pages[s] /\ seal'[s] = seal[s] /\ mtime'[s] = mtime[s]
    BY <1>0, <2>3 DEF Write, TypeOK
  <2>4. QED
    BY <1>0, <1>1, <2>1, <2>2, <2>3, OtherStep DEF Own, Writing
<1>2. CASE Step(s)
  <2> USE DEF Goto, TypeOK, Copied
  <2>1. CASE VerifySource(s)
    <3>1. UNCHANGED <<pages, seal, plan>> /\ pc[s] = "verify" /\ mtime[source[s]] = before[s].mtime
      BY <2>1 DEF VerifySource, sourceUnchanged, fileVars, planVars
    <3>2. Len(plan[s]) = size[s] /\ Len(pages[s]) = size[s] /\ seal[s] \in {Unsigned, plan[s]}
      BY <3>1 DEF Progress, Hashed
    <3>3. StartsWith(pages[source[s]], plan[s]) /\ StartsWith(pages[source[s]], pages[s])
      BY <3>1 DEF ReadsAgree, Reading
    <3>4. pages[source[s]] \in Seq(Nat) /\ plan[s] \in Seq(Nat) /\ pages[s] \in Seq(Nat)
      BY <1>0
    <3>5. pages[s] = plan[s]
      BY <3>2, <3>3, <3>4, StartsWithAll
    <3>6. QED
      BY <3>1, <3>2, <3>5
  <2>2. CASE CheckTarget(s) \/ Rename(s) \/ Recompress(s)
    BY <1>0, <2>2 DEF CheckTarget, Rename, Recompress, fileVars, planVars
  <2>3. CASE Open(s) \/ openCodeSource(s) \/ mutateMachOFile(s) \/ CheckSigned(s) \/ Strip(s)
             \/ First(s) \/ mutateSource(s) \/ PrepareReplacement(s) \/ Transfer(s) \/ Fail(s)
    BY <2>3 DEF Open, openCodeSource, mutateMachOFile, CheckSigned, Strip, First, mutateSource,
       PrepareReplacement, Transfer, Fail
  <2>4. QED
    BY <1>2, <2>1, <2>2, <2>3 DEF Step
<1>3. QED
  BY <1>1, <1>2

\* Whoever renames over the target of an operation that is about to do so makes it late.
LEMMA TargetKept ==
  ASSUME TypeOK, NEW s \in Signers, [Next]_vars, ~Step(s), pc[s] = "rename", s \notin late'
  PROVE  entry'[Target(s)] = entry[Target(s)] /\ late \subseteq late'
<1>1. ASSUME NEW r \in Signers, Rename(r), r # s PROVE entry'[Target(s)] = entry[Target(s)]
  BY <1>1, ReplacementAssumption DEF Rename, TypeOK, Target
<1>2. UNCHANGED entry \/ \E r \in Signers \ {s} : Rename(r)
  BY DEF Next, Step, Open, openCodeSource, mutateMachOFile, CheckSigned, Strip, First,
     mutateSource, PrepareReplacement, Transfer, VerifySource, CheckTarget, Recompress, Fail,
     OtherPrograms, Grow, Truncate, Overwrite, Write, Tag, vars
<1>3. late \subseteq late'
  BY DEF Next, Step, Open, openCodeSource, mutateMachOFile, CheckSigned, Strip, First,
     mutateSource, PrepareReplacement, Transfer, VerifySource, CheckTarget, Rename, Recompress, Fail,
     OtherPrograms, Grow, Truncate, Overwrite, Write, Tag, vars, ghosts
<1>4. QED
  BY <1>1, <1>2, <1>3

LEMMA SourceIsPlanStep ==
  ASSUME TypeOK, PublicFiles, Progress, ReadsAgree, SizeIsWhole, SourceIsPlan, [Next]_vars
  PROVE  SourceIsPlan'
<1> SUFFICES ASSUME NEW s \in Signers, (pc[s] \in {"check", "rename"} /\ s \notin late \cup early)'
             PROVE  (pages[source[s]] = plan[s] /\ (pc[s] = "rename" => SameFile(s)))'
  BY DEF SourceIsPlan
<1>0. source[s] \in Files
  BY DEF TypeOK
<1>1. CASE ~Step(s)
  <2>1. Own(s)' = Own(s)
    BY <1>1, OtherStep
  <2>2. CASE Quiet(s) \/ \E f \in Files : Tag(f)
    <3>1. pages'[source[s]] = pages[source[s]] /\ s \notin late \cup early
      BY <2>2 DEF Quiet, Tag, fileVars
    <3>2. QED
      BY <1>1, <2>1, <3>1, TargetKept DEF Own, SourceIsPlan, SameFile, Target
  <2>3. ASSUME NEW f \in Files, NEW new \in Seq(Nat), Write(f, new)
        PROVE  /\ pages'[source[s]] = pages[source[s]] /\ s \notin late \cup early
               /\ UNCHANGED <<entry, job>>
    BY <1>0, <2>1, <2>3 DEF Write, TypeOK, Own
  <2>4. CASE Writing
    BY <2>1, <2>3, <2>4 DEF Writing, Own, SourceIsPlan, SameFile, Target
  <2>5. QED
    BY <1>1, <2>2, <2>4, OtherStep
<1>2. CASE Step(s)
  <2> USE DEF Goto, TypeOK
  <2>1. CASE VerifySource(s)
    <3>1. /\ UNCHANGED <<pages, plan, source>> /\ pc[s] = "verify" /\ s \notin early
          /\ mtime[source[s]] = before[s].mtime /\ Len(pages[source[s]]) = before[s].size
          /\ pc'[s] = "check"
      BY <2>1 DEF VerifySource, sourceUnchanged, fileVars, planVars, ghosts
    <3>2. Len(plan[s]) = size[s] /\ before[s].size <= size[s]
      BY <3>1 DEF Progress, Hashed, SizeIsWhole, Reading
    <3>3. StartsWith(pages[source[s]], plan[s])
      BY <3>1 DEF ReadsAgree, Reading
    <3>4. pages[source[s]] \in Seq(Nat) /\ plan[s] \in Seq(Nat) /\ size[s] \in Nat
      BY <1>0
    <3>5. StartsWith(pages[source[s]], pages[source[s]]) /\ Len(plan[s]) = Len(pages[source[s]])
      BY <3>1, <3>2, <3>3, <3>4 DEF StartsWith
    <3>6. pages[source[s]] = plan[s]
      BY <3>3, <3>4, <3>5, StartsWithAll
    <3>7. QED
      BY <3>1, <3>6
  <2>2. CASE CheckTarget(s)
    BY <2>2 DEF CheckTarget, SourceIsPlan, SameFile, Target, fileVars, planVars, ghosts
  <2>3. CASE Open(s) \/ openCodeSource(s) \/ mutateMachOFile(s) \/ CheckSigned(s) \/ Strip(s)
             \/ First(s) \/ mutateSource(s) \/ PrepareReplacement(s) \/ Transfer(s) \/ Rename(s)
             \/ Recompress(s) \/ Fail(s)
    BY <2>3 DEF Open, openCodeSource, mutateMachOFile, CheckSigned, Strip, First, mutateSource,
       PrepareReplacement, Transfer, Rename, Recompress, Fail
  <2>4. QED
    BY <1>2, <2>1, <2>2, <2>3 DEF Step
<1>3. QED
  BY <1>1, <1>2

LEMMA InheritedStep ==
  ASSUME TypeOK, PublicFiles, Inherited, [Next]_vars
  PROVE  Inherited'
<1> DEFINE P(s) == /\ pc[s] \in Attested => ~attrs[source[s]]
                   /\ pc[s] \in Copied => ~attrs[s]
<1> SUFFICES ASSUME NEW s \in Signers, Strict(s)' PROVE P(s)'
  BY DEF Inherited
<1>0. source[s] \in Files /\ s \in Files /\ (Strict(s) => P(s))
  BY DEF Files, TypeOK, Inherited
<1>1. CASE ~Step(s)
  <2>1. Own(s)' = Own(s)
    BY <1>1, OtherStep
  <2>2. CASE Quiet(s)
    BY <1>0, <2>1, <2>2 DEF Own, Quiet, Strict
  <2>3. CASE Writing
    BY <1>0, <2>1, <2>3 DEF Own, Writing, Write, Strict
  <2>4. ASSUME NEW f \in Files, Tag(f) PROVE P(s)'
    <3>1. s \notin tagged
      BY <2>4 DEF Tag, Strict
    <3>2. CASE f \in {source[s], s}
      <4>1. pc[s] \notin Attested \cup Copied
        BY <2>4, <3>2 DEF Tag, Strict, Attested, Copied
      <4>2. QED
        BY <2>1, <4>1 DEF Own
    <3>3. CASE f \notin {source[s], s}
      <4>1. attrs'[s] = attrs[s] /\ attrs'[source[s]] = attrs[source[s]]
        BY <1>0, <2>4, <3>3 DEF Tag, TypeOK
      <4>2. Strict(s)
        BY <2>1, <3>1 DEF Strict, Own
      <4>3. QED
        BY <1>0, <2>1, <4>1, <4>2 DEF Own
    <3>4. QED
      BY <3>2, <3>3
  <2>5. QED
    BY <1>1, <2>2, <2>3, <2>4, OtherStep
<1>2. CASE Step(s)
  <2> USE <1>0 DEF TypeOK, Goto, Attested, Copied, Strict
  <2>1. CASE Open(s) \/ openCodeSource(s) \/ mutateMachOFile(s)
    <3>1. pc'[s] \notin Attested \cup Copied
      <4>1. CASE Open(s)
        BY <4>1 DEF Open
      <4>2. CASE openCodeSource(s)
        BY <4>2 DEF openCodeSource
      <4>3. CASE mutateMachOFile(s)
        BY <4>3 DEF mutateMachOFile
      <4>4. QED
        BY <2>1, <4>1, <4>2, <4>3
    <3>2. QED
      BY <3>1
  <2>2. CASE CheckSigned(s)
    BY <2>2 DEF CheckSigned, fileVars, planVars, ghosts
  <2>3. CASE Strip(s) \/ First(s)
    BY <2>3 DEF Strip, First, fileVars, planVars, ghosts
  <2>4. CASE mutateSource(s) \/ PrepareReplacement(s)
    BY <2>4 DEF mutateSource, PrepareReplacement, fileVars, planVars, ghosts
  <2>5. CASE Transfer(s)
    BY <2>5 DEF Transfer, planVars, ghosts
  <2>6. CASE VerifySource(s)
    BY <2>6 DEF VerifySource, fileVars, planVars, ghosts
  <2>7. CASE CheckTarget(s) \/ Rename(s) \/ Recompress(s) \/ Fail(s)
    BY <2>7 DEF CheckTarget, Rename, Recompress, Fail, fileVars, planVars, ghosts
  <2>8. QED
    BY <1>2, <2>1, <2>2, <2>3, <2>4, <2>5, <2>6, <2>7 DEF Step
<1>3. QED
  BY <1>1, <1>2

---------------------------------------------------------------------------
(* The theorems *)

LEMMA InitIInv == Init => IInv
<1> SUFFICES ASSUME Init PROVE IInv
  OBVIOUS
<1>1. TypeOK
  BY InitType
<1>2. PublicFiles
  BY ReplacementAssumption DEF Init, PublicFiles, Public
<1>3. Dated /\ Progress
  BY ReplacementAssumption DEF Init, Dated, Progress, Files, Unhashed, Empty, Hashed
<1>4. ReadsAgree /\ SizeIsWhole /\ CopyIsPlan /\ SourceIsPlan /\ Inherited
  BY DEF Init, ReadsAgree, SizeIsWhole, CopyIsPlan, SourceIsPlan, Inherited, Reading, Copied, Attested
<1>5. QED
  BY <1>1, <1>2, <1>3, <1>4 DEF IInv

LEMMA StepIInv == IInv /\ [Next]_vars => IInv'
  BY TypeStep, PublicStep, DatedStep, ProgressStep, ReadsAgreeStep, SizeIsWholeStep, CopyIsPlanStep,
     SourceIsPlanStep, InheritedStep DEF IInv

\* The inductive invariant: files stay private until the rename, and as long as a source
\* keeps its time both of its readings agree (replaceSource, io.go:67-126).
THEOREM InductiveInvariant == Spec => []IInv
  BY InitIInv, StepIInv, PTL DEF Spec

\* For any number of operations, links and writes: what is put in place is the payload that
\* was hashed, under a seal over it or unsigned, and without an attribute that the strict
\* signer refuses (io.go:67-126, signing_sideband.go:120-140).
THEOREM PublishedIsCheckedHolds == Spec => []PublishedIsChecked
<1>1. IInv => PublishedIsChecked
  <2> SUFFICES ASSUME IInv PROVE PublishedIsChecked
    OBVIOUS
  <2>1. SealMatchesPayload
    BY DEF IInv, CopyIsPlan, SealMatchesPayload, Published, Copied
  <2>2. AttributesChecked
    BY DEF IInv, Inherited, Strict, AttributesChecked, Published, Copied
  <2>3. QED
    BY <2>1, <2>2 DEF IInv, PublishedIsChecked
<1>2. QED
  BY <1>1, InductiveInvariant, PTL

\* A rename discards a file that has the signed payload, unless name or file changed after
\* their last checks or the file grew before its first (replaceSource, io.go:67-126, and
\* mutateMachOFile, macho_source.go:87-91).
THEOREM NoLostUpdateHolds == Spec => NoLostUpdate
<1>1. IInv /\ [Next]_vars =>
        [\A s \in Signers : pc[s] = "rename" /\ pc'[s] = "recompress" =>
           \/ s \in late \cup early
           \/ SameFile(s) /\ pages[source[s]] = plan[s]]_vars
  BY DEF IInv, SourceIsPlan
<1>2. QED
  BY <1>1, InductiveInvariant, PTL DEF Spec, NoLostUpdate

---------------------------------------------------------------------------
(* The refinement of Publication *)

\* What the readers of names see in a step of the program.
LEMMA StepShows ==
  ASSUME IInv, NEW s \in Signers, Step(s), ~Rename(s)
  PROVE  Abstract!Fail(s) \/ UNCHANGED Abstract!vars
<1> DEFINE C == [n \in Names |-> [pages |-> pages[entry[n]], seal |-> seal[entry[n]]]]
           S == [r \in Signers |-> Status(r)]
           T == [r \in Signers |-> Target(r)]
<1> USE DEF IInv, TypeOK, Goto, Status, Published
<1>1. T' = T
  BY DEF Step, Open, openCodeSource, mutateMachOFile, CheckSigned, Strip, First, mutateSource,
     PrepareReplacement, Transfer, VerifySource, CheckTarget, Recompress, Fail, Target
<1>2. C' = C
  <2>1. CASE Transfer(s)
    <3>1. s \in Files /\ \A n \in Names : entry[n] \in Files /\ entry[n] # s
      BY <2>1, ReplacementAssumption DEF Transfer, PublicFiles, Public, Files
    <3>2. entry' = entry /\ \A f \in Files \ {s} : pages'[f] = pages[f] /\ seal'[f] = seal[f]
      BY <2>1 DEF Transfer
    <3>3. QED
      BY <3>1, <3>2
  <2>2. CASE ~Transfer(s)
    <3>1. UNCHANGED <<pages, seal, entry>>
      BY <2>2 DEF Step, Open, openCodeSource, mutateMachOFile, CheckSigned, Strip, First,
         mutateSource, PrepareReplacement, VerifySource, CheckTarget, Recompress, Fail, fileVars
    <3>2. QED
      BY <3>1
  <2>3. QED
    BY <2>1, <2>2
<1>3. \/ S' = S
      \/ S[s] = "pending" /\ S' = [S EXCEPT ![s] = "failed"]
  <2>1. CASE Fail(s)
    BY <2>1 DEF Fail
  <2>2. CASE PrepareReplacement(s)
    BY <2>2 DEF PrepareReplacement
  <2>3. CASE Recompress(s)
    BY <2>3 DEF Recompress
  <2>4. CASE ~Fail(s) /\ ~PrepareReplacement(s) /\ ~Recompress(s)
    BY <2>4 DEF Step, Open, openCodeSource, mutateMachOFile, CheckSigned, Strip, First, mutateSource,
       Transfer, VerifySource, CheckTarget, Labels
  <2>5. QED
    BY <2>1, <2>2, <2>3, <2>4
<1>4. QED
  BY <1>1, <1>2, <1>3 DEF Abstract!Fail, Abstract!vars

\* The rename shows the private file under its target, and nothing else.
LEMMA RenameShows ==
  ASSUME IInv, NEW s \in Signers, Rename(s)
  PROVE  Abstract!Publish(s)
<1> DEFINE C == [n \in Names |-> [pages |-> pages[entry[n]], seal |-> seal[entry[n]]]]
           S == [r \in Signers |-> Status(r)]
           T == [r \in Signers |-> Target(r)]
<1>1. T' = T /\ T[s] = Target(s) /\ Target(s) \in Names
  BY ReplacementAssumption DEF Rename, Target, IInv, TypeOK
<1>2. S[s] = "pending" /\ S' = [S EXCEPT ![s] = "published"]
  BY DEF Rename, Goto, Status, Published, IInv, TypeOK
<1>3. pc[s] = "rename" /\ mtime[s] = 0
  BY DEF Rename, IInv, Dated, Published
<1>4. seal[s] \in {Unsigned, pages[s]}
  BY <1>3 DEF IInv, CopyIsPlan, Copied
<1>5. UNCHANGED <<pages, seal>> /\ entry' = [entry EXCEPT ![Target(s)] = s] /\ entry \in [Names -> Files]
  BY DEF Rename, fileVars, IInv, TypeOK
<1>6. C'[Target(s)] = [pages |-> pages[s], seal |-> seal[s]]
  BY <1>1, <1>5
<1>7. C' = [C EXCEPT ![Target(s)] = C'[Target(s)]]
  BY <1>1, <1>5
<1>8. C'[Target(s)].seal \in {Unsigned, C'[Target(s)].pages}
  BY <1>4, <1>6
<1>9. QED
  BY <1>1, <1>2, <1>7, <1>8 DEF Abstract!Publish

\* A write shows under every name of its file.
LEMMA WriteShows ==
  ASSUME IInv, NEW f \in Files, NEW new \in Seq(Nat), Write(f, new)
  PROVE  Abstract!Write
<1> DEFINE C == [n \in Names |-> [pages |-> pages[entry[n]], seal |-> seal[entry[n]]]]
           linked == {n \in Names : entry[n] = f}
<1>1. UNCHANGED <<job, pc, entry, seal>> /\ pages' = [pages EXCEPT ![f] = new]
  BY DEF Write
<1>2. pages \in [Files -> Seq(Nat)] /\ entry \in [Names -> Files]
  BY DEF IInv, TypeOK
<1>3. PICK m \in Names : entry[m] = f
  BY DEF Write, Named
<1>4. C'[m].pages = new
  BY <1>1, <1>2, <1>3
<1>5. C' = [n \in Names |-> IF n \in linked THEN [C[n] EXCEPT !.pages = C'[m].pages] ELSE C[n]]
  BY <1>1, <1>2, <1>4
<1>6. linked \in SUBSET Names /\ C'[m] \in {C'[n] : n \in Names}
  BY <1>3
<1>7. [r \in Signers |-> Target(r)]' = [r \in Signers |-> Target(r)]
  BY <1>1 DEF Target
<1>8. [r \in Signers |-> Status(r)]' = [r \in Signers |-> Status(r)]
  BY <1>1 DEF Status, Published
<1> HIDE DEF linked
<1>9. QED
  BY <1>5, <1>6, <1>7, <1>8 DEF Abstract!Write

\* Concurrent operations, failures and writers included, every name changes only by whole
\* publications on that name and by writes of other programs (io.go:67-126).
THEOREM PublishesHolds == Spec => Publishes
<1>1. Init => Abstract!Init
  BY InitType, ReplacementAssumption DEF Init, Abstract!Init, Status, Published, Target
<1>2. IInv /\ [Next]_vars => [Abstract!Next]_Abstract!vars
  <2> SUFFICES ASSUME IInv, [Next]_vars PROVE [Abstract!Next]_Abstract!vars
    OBVIOUS
  <2>1. ASSUME NEW s \in Signers, Step(s) PROVE [Abstract!Next]_Abstract!vars
    BY <2>1, StepShows, RenameShows DEF Abstract!Next
  <2>2. CASE Writing
    BY <2>2, WriteShows DEF Writing, Abstract!Next
  <2>3. CASE UNCHANGED <<job, pc, entry, pages, seal>>
    BY <2>3 DEF Abstract!vars, Target, Status, Published
  <2>4. ASSUME NEW f \in Files, Tag(f) PROVE UNCHANGED <<job, pc, entry, pages, seal>>
    BY <2>4 DEF Tag, fileVars
  <2>5. QED
    BY <2>1, <2>2, <2>3, <2>4, WritingStep DEF Next, OtherPrograms, vars, fileVars, IInv
<1>3. QED
  BY <1>1, <1>2, InductiveInvariant, PTL DEF Spec, Publishes, Abstract!Spec

=============================================================================
