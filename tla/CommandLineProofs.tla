--------------------------- MODULE CommandLineProofs ---------------------------
(***************************************************************************)
(* Proofs about CommandLine for any number of operands.  The errors of the  *)
(* operand that is processed are joined while it is processed, and only its *)
(* end decides on the status: so the inductive invariant says what status,  *)
(* reports and list have to be for the operands that ended, and for the one *)
(* under way by how far it has come (Early, Late) and what was joined.      *)
(* And proofs about Options for any set of command lines: what each stage    *)
(* that is behind has read or refused (OptionsInv).                          *)
(***************************************************************************)
EXTENDS CommandLine, Options, SequenceTheorems, WellFoundedInduction, TLAPS

\* The stages before anything of the operand is counted, and those after.
Early == {"operand", "operate", "relist", "checks", "display", "certificates",
          "requirements", "entitlements", "list"}
Late == {"close", "after"}

LoopTypes ==
  /\ o \in Options /\ Meaningful(o)
  /\ k \in 1..o.paths /\ at \in Early \cup Late \cup {"done"}
  /\ errs \subseteq Kinds /\ before \in BOOLEAN
  /\ status \in {0, 1, 3} /\ code \in {0, 1, 3, 65, Running}
  /\ ended \in Seq(SUBSET Kinds)

OutputTypes ==
  /\ list \in Seq(Nat)
  /\ entitled \in Seq([operand : Nat, form : {"text", "xml"}])
  /\ reports \in Seq([operand : Nat, valid : BOOLEAN])

\* Every stage is of its operation, and so are the errors it may join.
Own(e) == IF o.operation = "verify" THEN "native" \notin e /\ "output" \notin e ELSE "requirement" \notin e
OwnStage(s) ==
  /\ s = "checks" => o.operation = "verify"
  /\ s = "relist" => o.operation = "sign"
  /\ s \in {"display", "certificates", "requirements", "entitlements"} => o.operation = "display"
  /\ s = "list" => o.operation \in {"sign", "display"}
Places ==
  /\ OwnStage(at)
  /\ at \notin Late => errs = {}
  /\ Own(errs)
  /\ \A i \in Positions : Own(ended[i])

\* The loop goes on after every operand but the last.
Loop ==
  /\ at # "done" => code = Running /\ Len(ended) = k - 1
  /\ at = "done" =>
       /\ Len(ended) = k
       /\ code = IF Terminates(ended[k]) THEN (IF "native" \in ended[k] THEN 65 ELSE 1) ELSE status
       /\ Terminates(ended[k]) \/ Stops(ended[k]) \/ k = o.paths
  /\ \A i \in 1..k - 1 : ~Terminates(ended[i]) /\ ~Stops(ended[i])

\* The retained status is that of the first operand that failed; a requirement that
\* was just missed counts already.
FirstFails(i) == i \in Failures /\ \A j \in Positions : j < i => ended[j] = {}
StatusSoFar ==
  ~(at = "done" /\ Terminates(ended[k])) =>
    /\ Failures = {} => status = IF "requirement" \in errs THEN 3 ELSE 0
    /\ Failures # {} => status # 0
    /\ \A i \in Positions : FirstFails(i) => status = Class(ended[i])

\* What was written is of operands that were met.
Written ==
  /\ \A j \in DOMAIN list : list[j] \in 1..k /\ (at \in Early => list[j] < k)
  /\ \A j \in DOMAIN reports : reports[j].operand \in 1..k /\ (at \in Early => reports[j].operand < k)
  /\ \A j \in DOMAIN entitled : entitled[j].operand \in 1..k

\* As long as all goes well there is one valid report for each operand; a missed
\* requirement has none.
Valid(n) == Len(reports) = n /\ \A i \in 1..n : reports[i] = [operand |-> i, valid |-> TRUE]
ReportsSoFar ==
  o.operation = "verify" /\ o.json =>
    /\ \A j \in DOMAIN reports : "requirement" \in errs /\ reports[j].operand = k => ~reports[j].valid
    /\ \A i \in Positions, j \in DOMAIN reports :
         "requirement" \in ended[i] /\ reports[j].operand = i => ~reports[j].valid
    /\ Failures = {} /\ at \in Early => Valid(k - 1)
    /\ Failures = {} /\ at \notin Early /\ errs = {} => Valid(k)

\* An operand is in the list as soon as its operation has succeeded.
Listed(i) == \E j \in DOMAIN list : list[j] = i
ListSoFar ==
  o.fileList =>
    /\ \A i, j \in DOMAIN list : i < j => list[i] < list[j]
    /\ \A j \in DOMAIN list : list[j] \in Positions => ended[list[j]] \subseteq {"output", "cleanup"}
    /\ \A i \in Positions : ended[i] = {} => Listed(i)
    /\ at \in Late /\ Listed(k) => errs \subseteq {"output", "cleanup"}
    /\ at \in Late /\ errs = {} => Listed(k)

\* Whatever was extracted consumed the colon.
Colon ==
  /\ entitled # <<>> => o.entitlements = "text"
  /\ ColonIsConsumed

CommandInv ==
  /\ LoopTypes /\ OutputTypes /\ Places /\ Loop /\ StatusSoFar
  /\ Written /\ ReportsSoFar /\ ListSoFar /\ Colon

---------------------------------------------------------------------------
(* What a step keeps *)

LEMMA InvParts ==
  ASSUME CommandInv
  PROVE  /\ LoopTypes /\ OutputTypes /\ Places /\ Loop /\ StatusSoFar
         /\ Written /\ ReportsSoFar /\ ListSoFar /\ Colon
BY DEF CommandInv

LEMMA Together ==
  ASSUME LoopTypes', OutputTypes', Places', Loop', StatusSoFar', Written', ReportsSoFar', ListSoFar', Colon'
  PROVE  CommandInv'
BY DEF CommandInv

\* Options that decide on the loop and on what is written.
SameCommand ==
  /\ o'.operation = o.operation /\ o'.continue = o.continue /\ o'.paths = o.paths
  /\ o'.json = o.json /\ o'.fileList = o.fileList

LEMMA LoopKept ==
  ASSUME CommandInv, SameCommand, at # "done", at' # "done", UNCHANGED <<k, code, ended>>
  PROVE  Loop'
BY InvParts DEF SameCommand, Loop, Terminates, Stops, IsError

LEMMA StatusKept ==
  ASSUME CommandInv, at # "done", at' # "done", UNCHANGED <<status, ended>>,
         "requirement" \in errs' <=> "requirement" \in errs
  PROVE  StatusSoFar'
BY InvParts DEF StatusSoFar, Failures, Positions, FirstFails, Class

LEMMA PlacesKept ==
  ASSUME CommandInv, SameCommand, OwnStage(at'), Own(errs'), at' \notin Late => errs' = {}, UNCHANGED ended
  PROVE  Places'
<1>1. OwnStage(at)'
  BY DEF SameCommand, OwnStage
<1>2. Own(errs)'
  BY DEF SameCommand, Own
<1>3. \A i \in Positions' : Own(ended[i])'
  BY InvParts DEF SameCommand, Own, Places, Positions
<1>4. QED
  BY <1>1, <1>2, <1>3 DEF Places

LEMMA WrittenKept ==
  ASSUME CommandInv, UNCHANGED <<k, list, entitled, reports>>, at' \in Early => at \in Early
  PROVE  Written'
BY InvParts DEF Written

LEMMA ReportsKept ==
  ASSUME CommandInv, SameCommand, UNCHANGED <<k, reports, ended>>, at' \in Early => at \in Early,
         "requirement" \in errs' <=> "requirement" \in errs,
         at' \notin Early /\ errs' = {} => o.operation # "verify" \/ (at \notin Early /\ errs = {})
  PROVE  ReportsSoFar'
BY InvParts DEF SameCommand, ReportsSoFar, Failures, Positions, Valid

LEMMA ListKept ==
  ASSUME CommandInv, SameCommand, UNCHANGED <<k, list, ended>>,
         at \in Early /\ at' \in Late => errs' # {} \/ ~o.fileList,
         at \in Late => errs \subseteq errs' /\ errs' \subseteq errs \cup {"cleanup"},
         at # "done", at' # "done"
  PROVE  ListSoFar'
<1>1. at \in Early => ~Listed(k)
  BY InvParts DEF Written, Listed, LoopTypes
<1>2. at \in Early \/ at \in Late
  BY InvParts DEF LoopTypes
<1>3. QED
  BY <1>1, <1>2, InvParts DEF SameCommand, ListSoFar, Positions, Listed

LEMMA ColonKept ==
  ASSUME CommandInv, UNCHANGED entitled, o'.entitlements \in {o.entitlements, "text"}
  PROVE  Colon'
BY InvParts DEF Colon, ColonIsConsumed

\* A stage that only moves on, or joins an error.
LEMMA QuietKeeps ==
  ASSUME CommandInv, at # "done", UNCHANGED <<o, k, status, code, list, entitled, reports, ended>>,
         at' \in Early \cup Late, before' \in BOOLEAN, errs' \subseteq Kinds,
         OwnStage(at'), Own(errs'), at' \in Early => at \in Early /\ errs' = {},
         "requirement" \in errs' <=> "requirement" \in errs,
         at \in Early /\ at' \in Late => errs' # {} \/ (~o.fileList /\ o.operation # "verify"),
         at \in Late => errs \subseteq errs' /\ errs' \subseteq errs \cup {"cleanup"}
  PROVE  CommandInv'
<1>1. at' # "done" /\ (at' \notin Late => errs' = {})
  BY DEF Early, Late
<1>2. SameCommand
  BY DEF SameCommand
<1>3. LoopTypes' /\ OutputTypes'
  BY InvParts DEF LoopTypes, OutputTypes, Meaningful
<1>4. at \in Early => errs = {}
  BY InvParts DEF Places, Early, Late
<1>5. at' \notin Early /\ errs' = {} => o.operation # "verify" \/ (at \notin Early /\ errs = {})
  BY InvParts DEF LoopTypes
<1>6. Places' /\ Loop' /\ StatusSoFar' /\ Written'
  BY <1>1, <1>2, PlacesKept, LoopKept, StatusKept, WrittenKept
<1>7. ReportsSoFar'
  BY <1>2, <1>5, ReportsKept
<1>8. ListSoFar'
  BY <1>1, <1>2, ListKept
<1>9. Colon'
  BY ColonKept
<1>10. QED
  BY <1>3, <1>6, <1>7, <1>8, <1>9, Together

---------------------------------------------------------------------------
(* The stages *)

\* What a stage of a given operation finds.
LEMMA StageFacts ==
  ASSUME CommandInv
  PROVE  /\ at \in Early \cup Late \cup {"done"} /\ errs \subseteq Kinds /\ before \in BOOLEAN
         /\ OwnStage(at) /\ Own(errs) /\ Meaningful(o) /\ o \in Options
         /\ at \notin Late => errs = {}
BY InvParts DEF LoopTypes, Places

LEMMA BeforeKeeps ==
  ASSUME CommandInv, InspectBefore \/ NoInspection
  PROVE  CommandInv'
<1>1. /\ at = "operand" /\ at' = "operate" /\ errs' = errs /\ before' \in BOOLEAN
      /\ UNCHANGED <<o, k, status, code, list, entitled, reports, ended>>
  BY StageFacts DEF InspectBefore, NoInspection, outputs
<1>2. OwnStage(at') /\ errs = {}
  BY <1>1, StageFacts DEF OwnStage, Late
<1>3. at \in Early /\ at' \in Early /\ at \notin Late /\ at' \notin Late
  BY <1>1 DEF Early, Late
<1>4. QED
  BY <1>1, <1>2, <1>3, StageFacts, QuietKeeps

LEMMA ChangeKeeps ==
  ASSUME CommandInv, Change
  PROVE  CommandInv'
<1>1. /\ at = "operate" /\ o.operation \in {"sign", "remove"}
      /\ at' \in {"relist", "after"} /\ before' = before
      /\ UNCHANGED <<o, k, status, code, list, entitled, reports, ended>>
  BY DEF Change, outputs, Succeeded, Failed
<1>2. errs = {} /\ at \in Early /\ at \notin Late /\ at # "done"
  BY <1>1, StageFacts DEF Early, Late
<1>3. /\ errs' \in {{}, {"ordinary"}}
      /\ at' = "relist" => o.operation = "sign" /\ errs' = {}
      /\ at' = "after" => errs' # {} \/ ~o.fileList
  BY <1>2, StageFacts DEF Change, Succeeded, Failed, Meaningful
<1>4. OwnStage(at') /\ Own(errs') /\ errs' \subseteq Kinds
  BY <1>1, <1>3 DEF OwnStage, Own, Kinds
<1>5. at' \in Early \cup Late /\ (at' \in Early => at' = "relist") /\ (at' \in Late => at' = "after")
  BY <1>1 DEF Early, Late
<1>6. QED
  BY <1>1, <1>2, <1>3, <1>4, <1>5, StageFacts, QuietKeeps

LEMMA RelistKeeps ==
  ASSUME CommandInv, Relist
  PROVE  CommandInv'
<1>1. /\ at = "relist" /\ before' = before
      /\ UNCHANGED <<o, k, status, code, list, entitled, reports, ended>>
      /\ \/ at' = "list" /\ errs' = errs
         \/ at' = "after" /\ errs' = errs \cup {"ordinary"}
  BY DEF Relist, outputs, Succeeded, Failed
<1>2. errs = {} /\ at \in Early /\ at \notin Late /\ at # "done" /\ o.operation = "sign"
  BY <1>1, StageFacts DEF Early, Late, OwnStage
<1>3. OwnStage(at') /\ Own(errs') /\ errs' \subseteq Kinds
  BY <1>1, <1>2 DEF OwnStage, Own, Kinds
<1>4. at' \in Early \cup Late /\ (at' \in Early => at' = "list") /\ (at' \in Late => at' = "after")
  BY <1>1 DEF Early, Late
<1>5. QED
  BY <1>1, <1>2, <1>3, <1>4, StageFacts, QuietKeeps

\* A stage of the display.
LEMMA DisplayStage ==
  ASSUME CommandInv, at \in Early, o.operation = "display", UNCHANGED <<o, k, before, status, code, list, entitled, reports, ended>>,
         \/ at' \in {"display", "certificates", "requirements", "entitlements", "list"} /\ errs' = errs
         \/ at' \in Late /\ errs' \in {errs \cup {"ordinary"}, errs \cup {"output"}}
  PROVE  CommandInv'
<1>1. errs = {} /\ at \notin Late /\ at # "done"
  BY StageFacts DEF Early, Late
<1>2. OwnStage(at') /\ Own(errs') /\ errs' \subseteq Kinds
  BY <1>1 DEF OwnStage, Own, Kinds, Late
<1>3. at' \in Early \cup Late /\ (at' \in Early => errs' = errs) /\ (at' \in Late => errs' # {})
  BY DEF Early, Late
<1>4. before' \in BOOLEAN
  BY StageFacts
<1>5. "requirement" \notin errs /\ "requirement" \notin errs'
  BY <1>1
<1>6. QED
  BY <1>1, <1>2, <1>3, <1>4, <1>5, QuietKeeps

LEMMA DisplayKeeps ==
  ASSUME CommandInv, Inspect \/ Display \/ ExtractCertificates \/ ExtractRequirements \/ NoEntitlements
  PROVE  CommandInv'
<1>1. at \in Early /\ UNCHANGED <<o, k, before, status, code, list, entitled, reports, ended>>
  BY DEF Inspect, Display, ExtractCertificates, ExtractRequirements, NoEntitlements, outputs, Early
<1>2. o.operation = "display"
  BY StageFacts DEF Inspect, Display, ExtractCertificates, ExtractRequirements, NoEntitlements, OwnStage
<1>3. VisitEnds \in Late /\ "after" \in Late
  BY DEF VisitEnds, Late
<1>4. \/ at' \in {"display", "certificates", "requirements", "entitlements", "list"} /\ errs' = errs
      \/ at' \in Late /\ errs' \in {errs \cup {"ordinary"}, errs \cup {"output"}}
  BY <1>3 DEF Inspect, Display, ExtractCertificates, ExtractRequirements, NoEntitlements, Succeeded, Failed, Left
<1>5. QED
  BY <1>1, <1>2, <1>4, DisplayStage

LEMMA CloseKeeps ==
  ASSUME CommandInv, Close
  PROVE  CommandInv'
<1>1. /\ at = "close" /\ at' = "after" /\ errs' \in {errs, errs \cup {"cleanup"}} /\ before' = before
      /\ UNCHANGED <<o, k, status, code, list, entitled, reports, ended>>
  BY DEF Close, outputs
<1>2. at \in Late /\ at' \in Late /\ at \notin Early /\ at' \notin Early /\ at # "done"
  BY <1>1 DEF Early, Late
<1>3. OwnStage(at') /\ Own(errs') /\ errs' \subseteq Kinds
  BY <1>1, StageFacts DEF OwnStage, Own, Kinds
<1>4. QED
  BY <1>1, <1>2, <1>3, StageFacts, QuietKeeps

---------------------------------------------------------------------------
(* The report of a verification *)

LEMMA AppendIs ==
  ASSUME NEW S, NEW s \in Seq(S), NEW e \in S
  PROVE  /\ Append(s, e) \in Seq(S) /\ Len(s) \in Nat
         /\ Len(Append(s, e)) = Len(s) + 1
         /\ DOMAIN s = 1..Len(s) /\ DOMAIN Append(s, e) = 1..Len(s) + 1
         /\ \A i \in 1..Len(s) : Append(s, e)[i] = s[i]
         /\ Append(s, e)[Len(s) + 1] = e
BY AppendProperties

\* The operands that ended are counted by Len(ended).
LEMMA EndedIs ==
  ASSUME CommandInv
  PROVE  /\ Len(ended) \in Nat /\ DOMAIN ended = 1..Len(ended) /\ \A i \in Positions : ended[i] \subseteq Kinds
         /\ k \in Nat /\ 1 <= k /\ k <= o.paths /\ o.paths \in Nat
         /\ at # "done" => Len(ended) = k - 1
         /\ at = "done" => Len(ended) = k
<1>1. ended \in Seq(SUBSET Kinds) /\ o \in Options /\ k \in 1..o.paths
  BY InvParts DEF LoopTypes
<1>2. o.paths \in Nat
  BY <1>1, OperandsAssumption DEF Options
<1>3. QED
  BY <1>1, <1>2, InvParts DEF Positions, Loop

\* One more report for the operand, or none.
LEMMA ReportWritten ==
  ASSUME CommandInv, at \in Early, at' \notin Early, NEW passed \in BOOLEAN,
         UNCHANGED <<o, k, ended>>, o.operation = "verify",
         reports' = reports \/ reports' = Append(reports, [operand |-> k, valid |-> passed]),
         passed => "requirement" \notin errs',
         errs' = {} /\ o.json => passed /\ reports' = Append(reports, [operand |-> k, valid |-> passed])
  PROVE  /\ reports' \in Seq([operand : Nat, valid : BOOLEAN])
         /\ \A j \in DOMAIN reports' : reports'[j].operand \in 1..k
         /\ ReportsSoFar'
<1> DEFINE new == [operand |-> k, valid |-> passed]
<1>1. reports \in Seq([operand : Nat, valid : BOOLEAN]) /\ new \in [operand : Nat, valid : BOOLEAN]
  BY InvParts, EndedIs DEF OutputTypes
<1>10. /\ Append(reports, new) \in Seq([operand : Nat, valid : BOOLEAN]) /\ Len(reports) \in Nat
      /\ Len(Append(reports, new)) = Len(reports) + 1
      /\ \A i \in 1..Len(reports) : Append(reports, new)[i] = reports[i]
      /\ Append(reports, new)[Len(reports) + 1] = new
  BY <1>1, AppendIs
<1>2. \A j \in DOMAIN reports : reports[j].operand \in 1..k /\ reports[j].operand < k
  BY InvParts DEF Written
<1>3. \A j \in DOMAIN reports' : (reports'[j].operand = k /\ reports'[j].valid = passed) \/ (j \in DOMAIN reports /\ reports'[j] = reports[j])
  BY <1>1, AppendIs, SMTT(30)
<1>4. errs = {} /\ at # "done"
  BY StageFacts DEF Early, Late
<1>5. Len(ended) = k - 1 /\ Positions' = Positions /\ Positions = 1..k - 1 /\ k \in Nat
  BY <1>4, EndedIs DEF Positions
<1>6. reports' \in Seq([operand : Nat, valid : BOOLEAN])
  BY <1>1, <1>10
<1>7. \A j \in DOMAIN reports' : reports'[j].operand \in 1..k
  BY <1>2, <1>3, EndedIs
<1>8. ASSUME o.json PROVE ReportsSoFar'
  <2>1. \A j \in DOMAIN reports' : "requirement" \in errs' /\ reports'[j].operand = k' => ~reports'[j].valid
    BY <1>2, <1>3, <1>5
  <2>2. \A i \in Positions', j \in DOMAIN reports' :
           "requirement" \in ended'[i] /\ reports'[j].operand = i => ~reports'[j].valid
    <3> SUFFICES ASSUME NEW i \in Positions, NEW j \in DOMAIN reports',
                        "requirement" \in ended[i], reports'[j].operand = i
                 PROVE  ~reports'[j].valid
      BY <1>5
    <3>1. i # k
      BY <1>5
    <3>2. j \in DOMAIN reports /\ reports'[j] = reports[j]
      BY <1>3, <3>1
    <3>3. QED
      BY <1>8, <3>2, InvParts DEF ReportsSoFar
  <2>3. ASSUME Failures' = {}, errs' = {} PROVE Valid(k)'
    <3>1. Failures = {}
      BY <1>5, <2>3 DEF Failures
    <3>2. Valid(k - 1)
      BY <1>8, <3>1, InvParts DEF ReportsSoFar
    <3>3. reports' = Append(reports, new) /\ passed = TRUE /\ Len(reports) = k - 1
      BY <1>8, <2>3, <3>2 DEF Valid
    <3>4. Len(reports') = k /\ reports'[k] = new
      BY <1>10, <1>5, <3>3
    <3>5. ASSUME NEW i \in 1..k PROVE reports'[i] = [operand |-> i, valid |-> TRUE]
      <4>1. CASE i = k
        BY <3>3, <3>4, <4>1
      <4>2. CASE i # k
        <5>1. i \in 1..Len(reports) /\ i \in 1..k - 1
          BY <1>5, <3>3, <4>2
        <5>2. reports'[i] = reports[i]
          BY <1>10, <3>3, <5>1
        <5>3. QED
          BY <3>2, <5>1, <5>2 DEF Valid
      <4>3. QED
        BY <4>1, <4>2
    <3>6. QED
      BY <3>4, <3>5 DEF Valid
  <2>4. QED
    BY <2>1, <2>2, <2>3 DEF ReportsSoFar
<1>9. QED
  BY <1>6, <1>7, <1>8 DEF ReportsSoFar

LEMMA VerifiedKeeps ==
  ASSUME CommandInv, at \in Early, o.operation = "verify", at' \in Late,
         UNCHANGED <<o, k, before, code, list, entitled, ended>>, NEW passed \in BOOLEAN,
         errs' \subseteq {"ordinary", "requirement"},
         status' = IF "requirement" \in errs' /\ status = 0 THEN 3 ELSE status,
         reports' = reports \/ reports' = Append(reports, [operand |-> k, valid |-> passed]),
         passed => "requirement" \notin errs',
         errs' = {} /\ o.json => passed /\ reports' = Append(reports, [operand |-> k, valid |-> passed])
  PROVE  CommandInv'
<1>1. at # "done" /\ at' # "done" /\ at \notin Late /\ at' \notin Early /\ errs = {}
  BY StageFacts DEF Early, Late
<1>2. SameCommand
  BY DEF SameCommand
<1>3. /\ reports' \in Seq([operand : Nat, valid : BOOLEAN])
      /\ \A j \in DOMAIN reports' : reports'[j].operand \in 1..k
      /\ ReportsSoFar'
  BY <1>1, ReportWritten
<1>4. LoopTypes'
  BY InvParts DEF LoopTypes, Meaningful, Kinds
<1>5. OutputTypes'
  BY <1>3, InvParts DEF OutputTypes
<1>6. Places'
  <2>1. OwnStage(at') /\ Own(errs')
    BY DEF OwnStage, Own, Late
  <2>2. QED
    BY <1>2, <2>1, PlacesKept
<1>7. Loop'
  BY <1>1, <1>2, LoopKept
<1>8. StatusSoFar'
  <2>1. Failures' = Failures /\ Positions' = Positions
    BY DEF Failures, Positions
  <2>2. /\ Failures = {} => status = 0
        /\ Failures # {} => status # 0
        /\ \A i \in Positions : FirstFails(i) => status = Class(ended[i])
    BY <1>1, InvParts DEF StatusSoFar
  <2>3. \A i \in Positions : FirstFails(i)' => FirstFails(i) /\ Failures # {}
    BY <2>1 DEF FirstFails
  <2>4. QED
    BY <1>1, <2>1, <2>2, <2>3 DEF StatusSoFar, Class
<1>9. Written'
  BY <1>1, <1>3, InvParts DEF Written
<1>10. ListSoFar'
  <2>1. ~o.fileList
    BY StageFacts DEF Meaningful
  <2>2. QED
    BY <2>1 DEF ListSoFar
<1>11. Colon'
  BY ColonKept
<1>12. QED
  BY <1>3, <1>4, <1>5, <1>6, <1>7, <1>8, <1>9, <1>10, <1>11, Together

LEMMA VerifyKeeps ==
  ASSUME CommandInv, Verify
  PROVE  CommandInv'
<1>1. /\ at = "operate" /\ o.operation = "verify"
      /\ UNCHANGED <<o, k, before, status, code, list, entitled, ended>>
  BY DEF Verify
<1>2. at \in Early /\ at \notin Late /\ at # "done" /\ errs = {}
  BY <1>1, StageFacts DEF Early, Late
<1>3. CASE at' = "checks" /\ errs' = errs /\ reports' = reports
  <2>1. OwnStage(at') /\ at' \in Early /\ at' \notin Late
    BY <1>1, <1>3 DEF OwnStage, Early, Late
  <2>2. QED
    BY <1>1, <1>2, <1>3, <2>1, StageFacts, QuietKeeps
<1>4. CASE /\ at' = "after" /\ errs' = errs \cup {"ordinary"}
           /\ reports' = reports \/ reports' = Append(reports, [operand |-> k, valid |-> FALSE])
  <2>1. at' \in Late /\ errs' = {"ordinary"}
    BY <1>2, <1>4 DEF Late
  <2>2. status' = IF "requirement" \in errs' /\ status = 0 THEN 3 ELSE status
    BY <1>1, <2>1
  <2>3. QED
    BY <1>1, <1>2, <1>4, <2>1, <2>2, VerifiedKeeps
<1>5. QED
  BY <1>3, <1>4 DEF Verify, Succeeded, Failed, Report

LEMMA CheckRequirementsKeeps ==
  ASSUME CommandInv, CheckRequirements
  PROVE  CommandInv'
<1>1. PICK passed \in BOOLEAN, outputErr \in BOOLEAN, encodes \in BOOLEAN :
         /\ outputErr => ~passed
         /\ ~o.json => encodes
         /\ status' = IF ~passed /\ ~outputErr /\ status = 0 THEN 3 ELSE status
         /\ reports' = IF o.json /\ encodes THEN Append(reports, Report(k, passed)) ELSE reports
         /\ errs' = errs \cup (IF outputErr \/ ~encodes THEN {"ordinary"} ELSE {})
                         \cup (IF ~passed /\ ~outputErr THEN {"requirement"} ELSE {})
  BY DEF CheckRequirements
<1>2. at = "checks" /\ at' \in Late /\ UNCHANGED <<o, k, before, code, list, entitled, ended>>
  BY DEF CheckRequirements, Late
<1>3. at \in Early /\ o.operation = "verify" /\ errs = {}
  BY <1>2, StageFacts DEF Early, Late, OwnStage
<1>4. /\ errs' \subseteq {"ordinary", "requirement"}
      /\ "requirement" \in errs' <=> ~passed /\ ~outputErr
      /\ errs' = {} => passed /\ encodes
  BY <1>1, <1>3
<1>5. Report(k, passed) = [operand |-> k, valid |-> passed]
  BY DEF Report
<1>6. QED
  BY <1>1, <1>2, <1>3, <1>4, <1>5, VerifiedKeeps

---------------------------------------------------------------------------
(* The colon, and the list *)

LEMMA ConsumedIs ==
  ASSUME CommandInv, o.operation = "display", o' = Consumed
  PROVE  o' \in Options /\ Meaningful(o)' /\ SameCommand /\ o'.entitlements = "text" /\ o'.operation = "display"
<1>1. o \in Options /\ Meaningful(o)
  BY StageFacts
<1>2. o' \in Options /\ o'.entitlements = "text"
  BY <1>1 DEF Consumed, Options
<1>3. /\ SameCommand /\ o'.operation = "display" /\ o'.dryrun = o.dryrun /\ o'.certificates = o.certificates
      /\ o'.requirements = o.requirements /\ o'.checks = o.checks
  BY <1>1 DEF Consumed, Options, SameCommand
<1>4. Meaningful(o)'
  BY <1>1, <1>3 DEF Meaningful, SameCommand
<1>5. QED
  BY <1>2, <1>3, <1>4

\* What consumes the colon writes nothing, or the one text in the form that was asked for.
LEMMA ConsumedKeeps ==
  ASSUME CommandInv, at = "entitlements", o.entitlements # "none", o' = Consumed,
         UNCHANGED <<k, before, status, code, list, reports, ended>>,
         entitled' = entitled \/ entitled' = Append(entitled, Extracted),
         \/ at' = "list" /\ errs' = errs
         \/ at' \in Late /\ errs' \in {errs \cup {"ordinary"}, errs \cup {"output"}, errs \cup {"native"}}
  PROVE  CommandInv'
<1>1. /\ o.operation = "display" /\ errs = {} /\ at \in Early /\ at \notin Late
      /\ at # "done" /\ at' # "done"
  BY StageFacts DEF OwnStage, Early, Late
<1>2. o' \in Options /\ Meaningful(o)' /\ SameCommand /\ o'.entitlements = "text" /\ o'.operation = "display"
  BY <1>1, ConsumedIs
<1>3. LoopTypes'
  BY <1>1, <1>2, InvParts DEF LoopTypes, SameCommand, Kinds, Early
<1>4. Extracted \in [operand : Nat, form : {"text", "xml"}] /\ Extracted.operand = k /\ Extracted.form = o.entitlements
  BY EndedIs, StageFacts DEF Extracted, Options
<1>5. entitled \in Seq([operand : Nat, form : {"text", "xml"}])
  BY InvParts DEF OutputTypes
<1>6. /\ Append(entitled, Extracted) \in Seq([operand : Nat, form : {"text", "xml"}]) /\ Len(entitled) \in Nat
      /\ DOMAIN entitled = 1..Len(entitled) /\ DOMAIN Append(entitled, Extracted) = 1..Len(entitled) + 1
      /\ \A i \in 1..Len(entitled) : Append(entitled, Extracted)[i] = entitled[i]
      /\ Append(entitled, Extracted)[Len(entitled) + 1] = Extracted
  BY <1>4, <1>5, AppendIs
<1>7. \A j \in DOMAIN entitled' : \/ j \in DOMAIN entitled /\ entitled'[j] = entitled[j]
                                  \/ j = Len(entitled) + 1 /\ entitled'[j] = Extracted
  BY <1>6
<1>8. OutputTypes'
  BY <1>5, <1>6, InvParts DEF OutputTypes
<1>9. Places'
  <2>1. OwnStage(at') /\ Own(errs')
    BY <1>1 DEF OwnStage, Own, Late
  <2>2. at' \notin Late => errs' = {}
    BY <1>1
  <2>3. QED
    BY <1>2, <2>1, <2>2, PlacesKept
<1>10. "requirement" \in errs' <=> "requirement" \in errs
  BY <1>1
<1>11. Loop' /\ StatusSoFar'
  BY <1>1, <1>2, <1>10, LoopKept, StatusKept
<1>12. Written'
  BY <1>1, <1>4, <1>7, InvParts, EndedIs DEF Written
<1>13. ReportsSoFar'
  BY <1>2 DEF ReportsSoFar
<1>14. ListSoFar'
  BY <1>1, <1>2, ListKept DEF Late
<1>15. Colon'
  <2>1. ASSUME NEW j \in DOMAIN entitled', entitled'[j].form = "xml" PROVE j = 1
    <3>1. CASE j \in DOMAIN entitled /\ entitled'[j] = entitled[j]
      BY <2>1, <3>1, InvParts DEF Colon, ColonIsConsumed
    <3>2. CASE j = Len(entitled) + 1 /\ entitled'[j] = Extracted
      <4>1. entitled = <<>>
        BY <1>4, <2>1, <3>2, InvParts DEF Colon
      <4>2. QED
        BY <3>2, <4>1
    <3>3. QED
      BY <1>7, <3>1, <3>2
  <2>2. QED
    BY <1>2, <2>1 DEF Colon, ColonIsConsumed
<1>16. QED
  BY <1>3, <1>8, <1>9, <1>11, <1>12, <1>13, <1>14, <1>15, Together

LEMMA ExtractEntitlementsKeeps ==
  ASSUME CommandInv, ExtractEntitlements
  PROVE  CommandInv'
<1>1. /\ at = "entitlements" /\ o.entitlements # "none"
      /\ UNCHANGED <<k, before, status, code, list, reports, ended>>
  BY DEF ExtractEntitlements
<1>2. at \in Early /\ o.operation = "display"
  BY <1>1, StageFacts DEF OwnStage, Early
<1>3. VisitEnds \in Late
  BY DEF VisitEnds, Late
<1>4. CASE Left("ordinary") /\ UNCHANGED <<o, entitled>>
  BY <1>1, <1>2, <1>3, <1>4, DisplayStage DEF Left
<1>5. CASE /\ o' = Consumed
           /\ entitled' = entitled \/ entitled' = Append(entitled, Extracted)
           /\ Succeeded("list") \/ Left("ordinary") \/ Left("output") \/ Left("native")
  BY <1>1, <1>3, <1>5, ConsumedKeeps DEF Succeeded, Left
<1>6. QED
  BY <1>4, <1>5 DEF ExtractEntitlements

LEMMA OutputFileListKeeps ==
  ASSUME CommandInv, OutputFileList
  PROVE  CommandInv'
<1>1. /\ at = "list" /\ at' \in Late /\ UNCHANGED <<o, k, before, status, code, entitled, reports, ended>>
      /\ \/ o.fileList /\ list' = Append(list, k) /\ errs' \in {errs, errs \cup {"output"}}
         \/ ~o.fileList /\ list' = list /\ errs' = errs
         \/ o.fileList /\ list' = list /\ errs' \in {errs \cup {"ordinary"}, errs \cup {"output"}}
  BY DEF OutputFileList, VisitEnds, Late
<1>2. /\ at \in Early /\ at \notin Late /\ at # "done" /\ at' # "done" /\ at' \notin Early
      /\ errs = {} /\ o.operation \in {"sign", "display"}
  BY <1>1, StageFacts DEF OwnStage, Early, Late
<1>3. SameCommand
  BY <1>1 DEF SameCommand
<1>4. k \in Nat /\ 1 <= k /\ Positions' = Positions /\ Positions = 1..k - 1
  BY <1>1, <1>2, EndedIs DEF Positions
<1>5. list \in Seq(Nat)
  BY InvParts DEF OutputTypes
<1>6. /\ Append(list, k) \in Seq(Nat) /\ Len(list) \in Nat
      /\ DOMAIN list = 1..Len(list) /\ DOMAIN Append(list, k) = 1..Len(list) + 1
      /\ \A i \in 1..Len(list) : Append(list, k)[i] = list[i]
      /\ Append(list, k)[Len(list) + 1] = k
  BY <1>4, <1>5, AppendIs
<1>7. \A j \in DOMAIN list' : \/ j \in DOMAIN list /\ list'[j] = list[j]
                              \/ j = Len(list) + 1 /\ list'[j] = k
  BY <1>1, <1>6
<1>8. \A j \in DOMAIN list : list[j] \in 1..k - 1
  BY <1>2, <1>4, InvParts DEF Written
<1>9. LoopTypes' /\ OutputTypes'
  <2>1. LoopTypes'
    <3>1. errs' \subseteq Kinds /\ (Meaningful(o)' <=> Meaningful(o))
      BY <1>1, InvParts DEF LoopTypes, Kinds, Meaningful
    <3>2. QED
      BY <1>1, <3>1, InvParts DEF LoopTypes
  <2>2. OutputTypes'
    BY <1>1, <1>5, <1>6, InvParts DEF OutputTypes
  <2>3. QED
    BY <2>1, <2>2
<1>10. Places'
  <2>1. OwnStage(at') /\ Own(errs')
    BY <1>1, <1>2 DEF OwnStage, Own, Late
  <2>2. QED
    BY <1>1, <1>3, <2>1, PlacesKept
<1>11. Loop' /\ StatusSoFar'
  BY <1>1, <1>2, <1>3, LoopKept, StatusKept
<1>12. Written'
  BY <1>1, <1>2, <1>4, <1>7, InvParts DEF Written
<1>13. ReportsSoFar'
  BY <1>1, <1>2 DEF ReportsSoFar
<1>14. ASSUME o.fileList PROVE ListSoFar'
  <2>1. \A i, j \in DOMAIN list' : i < j => list'[i] < list'[j]
    <3> SUFFICES ASSUME NEW i \in DOMAIN list', NEW j \in DOMAIN list', i < j PROVE list'[i] < list'[j]
      OBVIOUS
    <3>1. i \in DOMAIN list /\ list'[i] = list[i]
      BY <1>6, <1>7
    <3>2. CASE j \in DOMAIN list /\ list'[j] = list[j]
      BY <1>14, <3>1, <3>2, InvParts DEF ListSoFar
    <3>3. CASE list'[j] = k
      BY <1>4, <1>8, <3>1, <3>3
    <3>4. QED
      BY <1>7, <3>2, <3>3
  <2>2. \A j \in DOMAIN list' : list'[j] \in Positions' => ended'[list'[j]] \subseteq {"output", "cleanup"}
    BY <1>1, <1>4, <1>7, <1>14, InvParts DEF ListSoFar
  <2>3. \A i : Listed(i) => Listed(i)'
    BY <1>1, <1>6 DEF Listed
  <2>4. \A i \in Positions' : ended'[i] = {} => Listed(i)'
    BY <1>1, <1>4, <1>14, <2>3, InvParts DEF ListSoFar
  <2>5. CASE list' = Append(list, k) /\ errs' \in {errs, errs \cup {"output"}}
    <3>1. errs' \subseteq {"output", "cleanup"}
      BY <1>2, <2>5
    <3>2. Listed(k)'
      <4>1. Len(list) + 1 \in DOMAIN list' /\ list'[Len(list) + 1] = k
        BY <1>6, <2>5
      <4>2. k' = k
        BY <1>1
      <4>3. QED
        BY <4>1, <4>2 DEF Listed
    <3>3. QED
      BY <1>1, <2>1, <2>2, <2>4, <3>1, <3>2 DEF ListSoFar
  <2>6. CASE list' = list /\ errs' \in {errs \cup {"ordinary"}, errs \cup {"output"}}
    <3>1. \A j \in DOMAIN list' : list'[j] # k
      BY <1>4, <1>8, <2>6
    <3>2. ~Listed(k)'
      <4>1. k' = k
        BY <1>1
      <4>2. QED
        BY <3>1, <4>1 DEF Listed
    <3>3. errs' # {}
      BY <2>6
    <3>4. QED
      BY <1>1, <2>1, <2>2, <2>4, <3>2, <3>3 DEF ListSoFar
  <2>7. QED
    BY <1>1, <1>14, <2>5, <2>6
<1>15. ListSoFar'
  BY <1>1, <1>14 DEF ListSoFar
<1>16. Colon'
  BY <1>1, ColonKept
<1>17. QED
  BY <1>9, <1>10, <1>11, <1>12, <1>13, <1>15, <1>16, Together

---------------------------------------------------------------------------
(* The end of an operand *)

\* What FinishOperand does: it stops the command, or goes on with the next operand.
LEMMA FinishIs ==
  ASSUME CommandInv, FinishOperand
  PROVE  /\ at = "after" /\ errs' = {} /\ before' = FALSE /\ UNCHANGED <<o, list, entitled, reports>>
         /\ Len(ended) = k - 1 /\ Positions = 1..k - 1 /\ Positions' = 1..k
         /\ ended' \in Seq(SUBSET Kinds) /\ ended'[k] = errs /\ Len(ended') = k
         /\ \A i \in 1..k - 1 : ended'[i] = ended[i]
         /\ \/ /\ Terminates(errs) /\ at' = "done" /\ k' = k /\ status' = status
               /\ code' = IF "native" \in errs THEN 65 ELSE 1
            \/ /\ ~Terminates(errs) /\ at' = "done" /\ k' = k /\ status' = StatusAfter(errs) /\ code' = status'
               /\ Stops(errs) \/ k = o.paths
            \/ /\ ~Terminates(errs) /\ at' = "operand" /\ k' = k + 1 /\ status' = StatusAfter(errs) /\ code' = code
               /\ ~Stops(errs) /\ k # o.paths
<1>1. /\ at = "after" /\ errs' = {} /\ before' = FALSE /\ UNCHANGED <<o, list, entitled, reports>>
      /\ ended' = Append(ended, errs)
  BY DEF FinishOperand, outputs
<1>2. Len(ended) = k - 1 /\ k \in Nat
  BY <1>1, EndedIs
<1>3. ended \in Seq(SUBSET Kinds) /\ errs \in SUBSET Kinds
  BY InvParts DEF LoopTypes
<1>4. /\ ended' \in Seq(SUBSET Kinds) /\ ended'[k] = errs /\ Len(ended') = k
      /\ \A i \in 1..k - 1 : ended'[i] = ended[i]
  <2>1. /\ Append(ended, errs) \in Seq(SUBSET Kinds)
        /\ Len(Append(ended, errs)) = Len(ended) + 1
        /\ \A i \in 1..Len(ended) : Append(ended, errs)[i] = ended[i]
        /\ Append(ended, errs)[Len(ended) + 1] = errs
    BY <1>3, AppendIs
  <2>2. QED
    BY <1>1, <1>2, <2>1
<1>5. Positions = 1..k - 1 /\ Positions' = 1..k
  BY <1>2, <1>4 DEF Positions
<1>6. \/ /\ Terminates(errs) /\ at' = "done" /\ k' = k /\ status' = status
         /\ code' = IF "native" \in errs THEN 65 ELSE 1
      \/ /\ ~Terminates(errs) /\ at' = "done" /\ k' = k /\ status' = StatusAfter(errs) /\ code' = status'
         /\ Stops(errs) \/ k = o.paths
      \/ /\ ~Terminates(errs) /\ at' = "operand" /\ k' = k + 1 /\ status' = StatusAfter(errs) /\ code' = code
         /\ ~Stops(errs) /\ k # o.paths
  BY DEF FinishOperand
<1>7. QED
  BY <1>1, <1>2, <1>4, <1>5, <1>6

LEMMA FinishLoop ==
  ASSUME CommandInv, FinishOperand
  PROVE  Loop'
<1>1. k \in Nat /\ code = Running
  <2>1. at # "done"
    BY FinishIs
  <2>2. QED
    BY <2>1, EndedIs, InvParts DEF Loop
<1>2. \A i \in 1..k - 1 : ~Terminates(ended'[i]) /\ ~Stops(ended'[i])
  BY FinishIs, InvParts DEF Loop
<1>3. \A e : Stops(e)' <=> Stops(e)
  BY FinishIs DEF Stops
<1>4. CASE at' = "done" /\ k' = k
  <2>1. code' = IF Terminates(errs) THEN (IF "native" \in errs THEN 65 ELSE 1) ELSE status'
    BY <1>4, FinishIs
  <2>2. Terminates(errs) \/ Stops(errs) \/ k = o.paths
    BY <1>4, FinishIs
  <2>3. Len(ended') = k /\ ended'[k] = errs /\ o' = o
    BY FinishIs
  <2>4. QED
    BY <1>1, <1>2, <1>3, <1>4, <2>1, <2>2, <2>3 DEF Loop, Terminates, Stops, IsError
<1>5. CASE at' = "operand" /\ k' = k + 1
  <2>1. ~Terminates(errs) /\ ~Stops(errs) /\ code' = code /\ Len(ended') = k /\ ended'[k] = errs
    BY <1>5, FinishIs
  <2>2. \A i \in 1..k : ~Terminates(ended'[i]) /\ ~Stops(ended'[i])
    BY <1>1, <1>2, <2>1
  <2>3. k' - 1 = k /\ Len(ended') = k' - 1
    BY <1>1, <1>5, <2>1
  <2>4. QED
    BY <1>1, <1>3, <1>5, <2>1, <2>2, <2>3 DEF Loop, Terminates
<1>6. QED
  BY <1>4, <1>5, FinishIs

LEMMA FinishStatus ==
  ASSUME CommandInv, FinishOperand
  PROVE  StatusSoFar'
<1>1. CASE Terminates(errs)
  <2>1. at' = "done" /\ ended'[k'] = errs
    BY <1>1, FinishIs
  <2>2. QED
    BY <1>1, <2>1 DEF StatusSoFar, Terminates
<1>2. CASE ~Terminates(errs)
  <2>1. at # "done" /\ k \in Nat /\ 1 <= k
    BY FinishIs, EndedIs
  <2>2. /\ Failures = {} => status = IF "requirement" \in errs THEN 3 ELSE 0
        /\ Failures # {} => status # 0
        /\ \A i \in Positions : FirstFails(i) => status = Class(ended[i])
    BY <2>1, InvParts DEF StatusSoFar
  <2>3. status' = StatusAfter(errs) /\ errs' = {}
    BY <1>2, FinishIs
  <2>4. Failures' = Failures \cup (IF errs = {} THEN {} ELSE {k})
    BY <2>1, FinishIs DEF Failures
  <2>5. Failures' = {} => status' = 0
    BY <2>2, <2>3, <2>4 DEF StatusAfter, IsError
  <2>6. Failures' # {} => status' # 0
    BY <2>2, <2>3, <2>4 DEF StatusAfter, IsError
  <2>7. ASSUME NEW i \in Positions', FirstFails(i)' PROVE status' = Class(ended'[i])
    <3>1. i \in 1..k /\ ended'[i] # {} /\ \A j \in 1..k : j < i => ended'[j] = {}
      BY <2>7, FinishIs DEF FirstFails, Failures
    <3>2. CASE i = k
      <4>1. \A j \in 1..k - 1 : ended[j] = {}
        BY <2>1, <3>1, <3>2, FinishIs
      <4>2. Failures = {}
        BY <4>1, FinishIs DEF Failures
      <4>3. ended'[i] = errs /\ errs # {}
        BY <3>1, <3>2, FinishIs
      <4>4. CASE "requirement" \in errs
        <5>1. status = 3
          BY <2>2, <4>2, <4>4
        <5>2. QED
          BY <2>3, <4>3, <4>4, <5>1 DEF StatusAfter, Class
      <4>5. CASE "requirement" \notin errs
        <5>1. status = 0 /\ IsError(errs)
          BY <2>2, <4>2, <4>3, <4>5 DEF IsError
        <5>2. QED
          BY <2>3, <4>3, <4>5, <5>1 DEF StatusAfter, Class
      <4>6. QED
        BY <4>4, <4>5
    <3>3. CASE i # k
      <4>1. i \in 1..k - 1 /\ ended[i] # {} /\ \A j \in 1..k - 1 : j < i => ended[j] = {}
        BY <2>1, <3>1, <3>3, FinishIs
      <4>2. FirstFails(i) /\ i \in Positions
        BY <4>1, FinishIs DEF FirstFails, Failures
      <4>3. status = Class(ended[i]) /\ status # 0 /\ ended'[i] = ended[i]
        BY <2>2, <4>1, <4>2, FinishIs DEF Class
      <4>4. QED
        BY <2>3, <4>3 DEF StatusAfter
    <3>4. QED
      BY <3>2, <3>3
  <2>8. \A i \in Positions' : FirstFails(i)' => status' = Class(ended[i])'
    BY <2>7 DEF Class
  <2>9. QED
    BY <2>3, <2>5, <2>6, <2>8 DEF StatusSoFar
<1>3. QED
  BY <1>1, <1>2

LEMMA FinishReports ==
  ASSUME CommandInv, FinishOperand, o.operation = "verify", o.json
  PROVE  ReportsSoFar'
<1>1. at = "after" /\ at \notin Early /\ k \in Nat /\ 1 <= k
  BY FinishIs, EndedIs DEF Early
<1>2. /\ \A j \in DOMAIN reports : "requirement" \in errs /\ reports[j].operand = k => ~reports[j].valid
      /\ \A i \in Positions, j \in DOMAIN reports :
           "requirement" \in ended[i] /\ reports[j].operand = i => ~reports[j].valid
      /\ Failures = {} /\ errs = {} => Valid(k)
  BY <1>1, InvParts DEF ReportsSoFar
<1>3. \A j \in DOMAIN reports' : "requirement" \in errs' /\ reports'[j].operand = k' => ~reports'[j].valid
  BY FinishIs
<1>4. \A i \in Positions', j \in DOMAIN reports' :
        "requirement" \in ended'[i] /\ reports'[j].operand = i => ~reports'[j].valid
  <2> SUFFICES ASSUME NEW i \in 1..k, NEW j \in DOMAIN reports, "requirement" \in ended'[i], reports[j].operand = i
               PROVE  ~reports[j].valid
    BY FinishIs
  <2>1. CASE i = k
    BY <1>2, <2>1, FinishIs
  <2>2. CASE i # k
    <3>1. i \in 1..k - 1
      BY <1>1, <2>2
    <3>2. i \in Positions /\ ended'[i] = ended[i]
      BY <3>1, FinishIs
    <3>3. QED
      BY <1>2, <3>2
  <2>3. QED
    BY <2>1, <2>2
<1>5. ASSUME Failures' = {} PROVE Valid(k)
  <2>1. \A i \in 1..k : ended'[i] = {}
    BY <1>5, FinishIs DEF Failures
  <2>2. errs = {}
    BY <1>1, <2>1, FinishIs
  <2>3. \A i \in 1..k - 1 : ended[i] = {}
    BY <1>1, <2>1, FinishIs
  <2>4. Failures = {}
    BY <2>3, FinishIs DEF Failures
  <2>5. QED
    BY <1>2, <2>2, <2>4
<1>6. at' \in Early => k' = k + 1
  BY FinishIs DEF Early
<1>7. at' \notin Early => k' = k
  BY FinishIs DEF Early
<1>8. reports' = reports
  BY FinishIs
<1>9. Failures' = {} /\ at' \in Early => Valid(k - 1)'
  BY <1>1, <1>5, <1>6, <1>8 DEF Valid
<1>10. Failures' = {} /\ at' \notin Early => Valid(k)'
  BY <1>1, <1>5, <1>7, <1>8 DEF Valid
<1>11. QED
  BY <1>3, <1>4, <1>9, <1>10 DEF ReportsSoFar

LEMMA FinishList ==
  ASSUME CommandInv, FinishOperand, o.fileList
  PROVE  ListSoFar'
<1>1. at = "after" /\ at \in Late /\ at' \notin Late /\ k \in Nat /\ 1 <= k /\ list' = list
  BY FinishIs, EndedIs DEF Late
<1>2. /\ \A i, j \in DOMAIN list : i < j => list[i] < list[j]
      /\ \A j \in DOMAIN list : list[j] \in Positions => ended[list[j]] \subseteq {"output", "cleanup"}
      /\ \A i \in Positions : ended[i] = {} => Listed(i)
      /\ Listed(k) => errs \subseteq {"output", "cleanup"}
      /\ errs = {} => Listed(k)
  BY <1>1, InvParts DEF ListSoFar
<1>3. \A i : Listed(i) => \E j \in DOMAIN list' : list'[j] = i
  BY <1>1 DEF Listed
<1>4. ASSUME NEW j \in DOMAIN list, list[j] \in 1..k PROVE ended'[list[j]] \subseteq {"output", "cleanup"}
  <2>1. CASE list[j] = k
    <3>1. Listed(k)
      BY <2>1 DEF Listed
    <3>2. QED
      BY <1>2, <2>1, <3>1, FinishIs
  <2>2. CASE list[j] # k
    <3>1. list[j] \in 1..k - 1
      BY <1>1, <1>4, <2>2
    <3>2. list[j] \in Positions /\ ended'[list[j]] = ended[list[j]]
      BY <3>1, FinishIs
    <3>3. QED
      BY <1>2, <3>2
  <2>3. QED
    BY <2>1, <2>2
<1>5. ASSUME NEW i \in 1..k, ended'[i] = {} PROVE Listed(i)
  <2>1. CASE i = k
    BY <1>2, <1>5, <2>1, FinishIs
  <2>2. CASE i # k
    <3>1. i \in 1..k - 1
      BY <1>1, <2>2
    <3>2. i \in Positions /\ ended[i] = {}
      BY <1>5, <3>1, FinishIs
    <3>3. QED
      BY <1>2, <3>2
  <2>3. QED
    BY <2>1, <2>2
<1>6. \A i \in Positions' : ended'[i] = {} => Listed(i)'
  BY <1>3, <1>5, FinishIs DEF Listed
<1>7. \A j \in DOMAIN list' : list'[j] \in Positions' => ended'[list'[j]] \subseteq {"output", "cleanup"}
  BY <1>1, <1>4, FinishIs
<1>8. QED
  BY <1>1, <1>2, <1>6, <1>7 DEF ListSoFar

LEMMA FinishKeeps ==
  ASSUME CommandInv, FinishOperand
  PROVE  CommandInv'
<1>1. k \in Nat /\ 1 <= k /\ k <= o.paths /\ o.paths \in Nat
  BY EndedIs
<1>2. LoopTypes'
  <2>1. status \in {0, 1, 3} /\ code \in {0, 1, 3, 65, Running}
    BY InvParts DEF LoopTypes
  <2>2. status' \in {0, 1, 3}
    BY <2>1, FinishIs DEF StatusAfter
  <2>3. code' \in {0, 1, 3, 65, Running}
    BY <2>1, <2>2, FinishIs
  <2>4. k' \in 1..o'.paths
    BY <1>1, FinishIs
  <2>5. /\ o' = o /\ errs' \subseteq Kinds /\ before' \in BOOLEAN /\ ended' \in Seq(SUBSET Kinds)
        /\ at' \in Early \cup Late \cup {"done"}
    BY FinishIs DEF Early
  <2>6. o' \in Options /\ Meaningful(o)'
    BY <2>5, StageFacts DEF Meaningful
  <2>7. QED
    BY <2>2, <2>3, <2>4, <2>5, <2>6 DEF LoopTypes
<1>3. OutputTypes'
  BY FinishIs, InvParts DEF OutputTypes
<1>4. Places'
  <2>1. OwnStage(at)' /\ Own(errs)' /\ errs' = {}
    BY FinishIs DEF OwnStage, Own
  <2>2. \A i \in 1..k : Own(ended'[i])
    BY <1>1, StageFacts, FinishIs, InvParts DEF Places
  <2>3. \A i \in Positions' : Own(ended[i])'
    BY <2>2, FinishIs DEF Own
  <2>4. QED
    BY <2>1, <2>3 DEF Places
<1>5. Written'
  <2>1. k <= k' /\ (at' \in Early => k' = k + 1) /\ k' \in Nat
    BY <1>1, FinishIs DEF Early
  <2>2. UNCHANGED <<list, entitled, reports>>
    BY FinishIs
  <2>3. \A n \in 1..k : n \in 1..k' /\ (at' \in Early => n < k')
    BY <1>1, <2>1
  <2>4. QED
    BY <2>2, <2>3, InvParts DEF Written
<1>6. ReportsSoFar'
  BY FinishReports, FinishIs DEF ReportsSoFar
<1>7. ListSoFar'
  BY FinishList, FinishIs DEF ListSoFar
<1>8. Colon'
  BY FinishIs, ColonKept
<1>9. QED
  BY <1>2, <1>3, <1>4, <1>5, <1>6, <1>7, <1>8, FinishLoop, FinishStatus, Together

---------------------------------------------------------------------------
(* The invariant *)

LEMMA InitCommandInv == CommandInit => CommandInv
<1> SUFFICES ASSUME CommandInit PROVE CommandInv
  OBVIOUS
<1>1. /\ o \in Options /\ Meaningful(o) /\ k = 1 /\ at = "operand" /\ errs = {} /\ before = FALSE
      /\ status = 0 /\ code = Running /\ list = <<>> /\ entitled = <<>> /\ reports = <<>> /\ ended = <<>>
  BY DEF CommandInit
<1>2. o.paths \in Nat /\ 1 <= o.paths
  BY <1>1, OperandsAssumption DEF Options
<1>3. Len(ended) = 0 /\ Positions = {} /\ Failures = {} /\ DOMAIN list = {} /\ DOMAIN reports = {} /\ DOMAIN entitled = {}
  BY <1>1 DEF Positions, Failures
<1>4. LoopTypes
  <2>1. at \in Early \cup Late \cup {"done"} /\ ended \in Seq(SUBSET Kinds)
    BY <1>1 DEF Early
  <2>2. k \in 1..o.paths
    BY <1>1, <1>2
  <2>3. QED
    BY <1>1, <2>1, <2>2 DEF LoopTypes
<1>5. OutputTypes
  BY <1>1 DEF OutputTypes
<1>6. Places
  BY <1>1, <1>3 DEF Places, OwnStage, Own
<1>7. Loop
  BY <1>1, <1>3 DEF Loop
<1>8. StatusSoFar
  BY <1>1, <1>3 DEF StatusSoFar
<1>9. Written
  BY <1>3 DEF Written
<1>10. ReportsSoFar
  BY <1>1, <1>3 DEF ReportsSoFar, Valid, Early
<1>11. ListSoFar
  BY <1>1, <1>3 DEF ListSoFar, Late
<1>12. Colon
  BY <1>1, <1>3 DEF Colon, ColonIsConsumed
<1>13. QED
  BY <1>4, <1>5, <1>6, <1>7, <1>8, <1>9, <1>10, <1>11, <1>12 DEF CommandInv

LEMMA CommandStutters ==
  ASSUME CommandInv, UNCHANGED commandVars
  PROVE  CommandInv'
<1>1. UNCHANGED <<o, k, at, errs, before, status, code, list, entitled, reports, ended>>
  BY DEF commandVars
<1>2. LoopTypes' /\ OutputTypes'
  BY <1>1, InvParts DEF LoopTypes, OutputTypes, Meaningful
<1>3. Places'
  BY <1>1, InvParts DEF Places, OwnStage, Own, Positions
<1>4. Loop'
  BY <1>1, InvParts DEF Loop, Terminates, Stops, IsError
<1>5. StatusSoFar'
  BY <1>1, InvParts DEF StatusSoFar, Failures, Positions, FirstFails, Class, Terminates
<1>6. Written'
  BY <1>1, InvParts DEF Written
<1>7. ReportsSoFar'
  BY <1>1, InvParts DEF ReportsSoFar, Failures, Positions, Valid
<1>8. ListSoFar'
  BY <1>1, InvParts DEF ListSoFar, Positions, Listed
<1>9. Colon'
  BY <1>1, ColonKept
<1>10. QED
  BY <1>2, <1>3, <1>4, <1>5, <1>6, <1>7, <1>8, <1>9, Together

LEMMA CommandStep == CommandInv /\ [CommandNext]_commandVars => CommandInv'
<1> SUFFICES ASSUME CommandInv, [CommandNext]_commandVars PROVE CommandInv'
  OBVIOUS
<1>1. CASE InspectBefore \/ NoInspection
  BY <1>1, BeforeKeeps
<1>2. CASE Change \/ Relist \/ Close
  BY <1>2, ChangeKeeps, RelistKeeps, CloseKeeps
<1>3. CASE Verify \/ CheckRequirements
  BY <1>3, VerifyKeeps, CheckRequirementsKeeps
<1>4. CASE Inspect \/ Display \/ ExtractCertificates \/ ExtractRequirements \/ NoEntitlements
  BY <1>4, DisplayKeeps
<1>5. CASE ExtractEntitlements \/ OutputFileList
  BY <1>5, ExtractEntitlementsKeeps, OutputFileListKeeps
<1>6. CASE FinishOperand
  BY <1>6, FinishKeeps
<1>7. CASE Stay \/ UNCHANGED commandVars
  BY <1>7, CommandStutters DEF Stay
<1>8. QED
  BY <1>1, <1>2, <1>3, <1>4, <1>5, <1>6, <1>7 DEF CommandNext

\* The inductive invariant of a command's loop holds for any number of operands
\* (internal/cli/cli.go:577-696).
THEOREM CommandInvariant == CommandSpec => []CommandInv
BY InitCommandInv, CommandStep, PTL DEF CommandSpec

---------------------------------------------------------------------------
(* What the command reports *)

\* There is a first one among the operands that failed.
LEMMA FirstFailure ==
  ASSUME CommandInv, Failures # {}
  PROVE  \E i \in Failures : \A j \in Failures : i <= j
<1> DEFINE R == OpToRel(<, Nat)
<1>1. IsWellFoundedOn(R, Nat)
  BY NatLessThanWellFounded
<1>2. \A x, y \in Nat : x < y => <<x, y>> \in R
  BY DEF OpToRel
<1>3. Failures \subseteq Nat
  BY EndedIs DEF Failures, Positions
<1> HIDE DEF R
<1>4. PICK i \in Failures : \A j \in Failures : <<j, i>> \notin R
  BY <1>1, <1>3, WFMin
<1>5. ASSUME NEW j \in Failures PROVE i <= j
  <2>1. i \in Nat /\ j \in Nat
    BY <1>3
  <2>2. ~(j < i)
    BY <1>2, <1>4, <2>1
  <2>3. QED
    BY <2>1, <2>2
<1>6. QED
  BY <1>5

LEMMA ElementOf ==
  ASSUME NEW S, NEW s \in Seq(S)
  PROVE  \A j \in DOMAIN s : s[j] \in S
OBVIOUS

LEMMA CommandTypes == CommandInv => CommandTypeOK
<1> SUFFICES ASSUME CommandInv PROVE CommandTypeOK
  OBVIOUS
<1>1. /\ o \in Options /\ k \in 1..o.paths /\ errs \subseteq Kinds /\ before \in BOOLEAN
      /\ status \in {0, 1, 3} /\ code \in {0, 1, 3, 65, Running}
      /\ at \in Early \cup Late \cup {"done"}
  BY InvParts DEF LoopTypes
<1>2. /\ list \in Seq(Nat) /\ entitled \in Seq([operand : Nat, form : {"text", "xml"}])
      /\ reports \in Seq([operand : Nat, valid : BOOLEAN])
  BY InvParts DEF OutputTypes
<1>3. \A j \in DOMAIN list : list[j] \in 1..k
  BY InvParts DEF Written
<1>4. \A j \in DOMAIN entitled : entitled[j] \in [operand : 1..k, form : {"text", "xml"}]
  <2>1. \A j \in DOMAIN entitled : entitled[j] \in [operand : Nat, form : {"text", "xml"}]
    BY <1>2, ElementOf
  <2>2. \A j \in DOMAIN entitled : entitled[j].operand \in 1..k
    BY InvParts DEF Written
  <2>3. QED
    BY <2>1, <2>2
<1>5. \A j \in DOMAIN reports : reports[j] \in [operand : 1..k, valid : BOOLEAN]
  <2>1. \A j \in DOMAIN reports : reports[j] \in [operand : Nat, valid : BOOLEAN]
    BY <1>2, ElementOf
  <2>2. \A j \in DOMAIN reports : reports[j].operand \in 1..k
    BY InvParts DEF Written
  <2>3. QED
    BY <2>1, <2>2
<1>6. \A i \in Positions : ended[i] \subseteq Kinds
  BY EndedIs
<1>7. QED
  BY <1>1, <1>3, <1>4, <1>5, <1>6 DEF CommandTypeOK, Early, Late

\* Where a command that returned stands.
LEMMA ReturnedIs ==
  ASSUME CommandInv, Returned
  PROVE  /\ at = "done" /\ Len(ended) = k /\ Positions = 1..k /\ k \in Nat /\ k \in 1..k /\ Last(ended) = ended[k]
         /\ Terminates(ended[k]) \/ Stops(ended[k]) \/ k = o.paths
         /\ code = IF Terminates(ended[k]) THEN (IF "native" \in ended[k] THEN 65 ELSE 1) ELSE status
         /\ Terminates(ended[k]) => o.operation # "verify"
         /\ \A i \in 1..k - 1 : ~Terminates(ended[i]) /\ ~Stops(ended[i])
<1>1. at = "done"
  BY InvParts DEF Returned, Loop
<1>2. Len(ended) = k /\ k \in Nat /\ 1 <= k
  BY <1>1, EndedIs
<1>3. Positions = 1..k /\ Last(ended) = ended[k] /\ k \in 1..k
  BY <1>2 DEF Positions, Last
<1>4. Terminates(ended[k]) => o.operation # "verify"
  BY <1>3, InvParts DEF Places, Own, Terminates
<1>5. QED
  BY <1>1, <1>2, <1>3, <1>4, InvParts DEF Loop

LEMMA FirstStatus == CommandInv => StatusOfFirstFailure
<1> SUFFICES ASSUME CommandInv, Returned PROVE StatusOfFirstFailure
  BY DEF StatusOfFirstFailure
<1>1. CASE Terminates(ended[k])
  BY <1>1, ReturnedIs DEF StatusOfFirstFailure
<1>2. CASE ~Terminates(ended[k])
  <2>1. /\ Failures = {} => status = IF "requirement" \in errs THEN 3 ELSE 0
        /\ \A i \in Positions : FirstFails(i) => status = Class(ended[i])
    BY <1>2, InvParts DEF StatusSoFar
  <2>2. code = status /\ errs = {}
    BY <1>2, ReturnedIs, StageFacts DEF Late
  <2>3. CASE Failures = {}
    BY <1>2, <2>1, <2>2, <2>3, ReturnedIs DEF StatusOfFirstFailure
  <2>4. CASE Failures # {}
    <3> DEFINE first == CHOOSE i \in Failures : \A j \in Failures : i <= j
    <3>1. first \in Failures /\ \A j \in Failures : first <= j
      BY <2>4, FirstFailure
    <3> HIDE DEF first
    <3>2. first \in Positions /\ Positions \subseteq Nat
      BY <3>1, ReturnedIs DEF Failures
    <3>3. FirstFails(first)
      <4>1. ASSUME NEW j \in Positions, j < first PROVE ended[j] = {}
        <5>1. j \notin Failures
          BY <3>1, <3>2, <4>1
        <5>2. QED
          BY <5>1 DEF Failures
      <4>2. QED
        BY <3>1, <4>1 DEF FirstFails
    <3>4. code = Class(ended[first])
      BY <2>1, <2>2, <3>2, <3>3
    <3>5. QED
      BY <1>2, <2>4, <3>4, ReturnedIs DEF StatusOfFirstFailure, first
  <2>5. QED
    BY <2>3, <2>4
<1>3. QED
  BY <1>1, <1>2

LEMMA NoneSkipped == CommandInv => NobodySkipped
<1> SUFFICES ASSUME CommandInv, Returned PROVE NobodySkipped
  BY DEF NobodySkipped
<1>1. (o.operation = "verify" \/ o.continue) /\ ~Terminates(Last(ended)) => Len(ended) = o.paths
  BY ReturnedIs DEF Stops
<1>2. ASSUME o.operation # "verify", ~o.continue, Failures # {} PROVE Failures = {Len(ended)}
  <2>1. \A i \in 1..k - 1 : ended[i] = {}
    <3> SUFFICES ASSUME NEW i \in 1..k - 1 PROVE ended[i] = {}
      OBVIOUS
    <3>1. i \in Positions /\ ~Stops(ended[i])
      BY ReturnedIs
    <3>2. "requirement" \notin ended[i]
      BY <1>2, <3>1, InvParts DEF Places, Own
    <3>3. ~IsError(ended[i])
      BY <1>2, <3>1 DEF Stops
    <3>4. QED
      BY <3>2, <3>3 DEF IsError
  <2>2. Failures \subseteq {k}
    BY <2>1, ReturnedIs DEF Failures
  <2>3. QED
    BY <1>2, <2>2, ReturnedIs
<1>3. ASSUME Failures = {} PROVE Len(ended) = o.paths
  <2>1. ended[k] = {}
    BY <1>3, ReturnedIs DEF Failures
  <2>2. ~Terminates(ended[k]) /\ ~Stops(ended[k])
    BY <2>1 DEF Terminates, Stops, IsError
  <2>3. QED
    BY <2>2, ReturnedIs
<1>4. QED
  BY <1>1, <1>2, <1>3 DEF NobodySkipped

LEMMA ReportsAgree == CommandInv => ReportsMatchStatus
<1> SUFFICES ASSUME CommandInv, Returned, o.operation = "verify", o.json PROVE ReportsMatchStatus
  BY DEF ReportsMatchStatus
<1>1. ~Terminates(ended[k]) /\ code = status /\ errs = {} /\ at \notin Early
  BY ReturnedIs, StageFacts DEF Early, Late
<1>2. /\ Failures = {} => status = 0
      /\ Failures # {} => status # 0
      /\ \A i \in Positions : FirstFails(i) => status = Class(ended[i])
  BY <1>1, InvParts DEF StatusSoFar
<1>3. ASSUME code = 0
      PROVE  Len(reports) = o.paths /\ \A i \in 1..o.paths : reports[i] = [operand |-> i, valid |-> TRUE]
  <2>1. Failures = {}
    BY <1>1, <1>2, <1>3
  <2>2. Valid(k)
    BY <1>1, <2>1, InvParts DEF ReportsSoFar
  <2>3. k = o.paths
    <3>1. ended[k] = {}
      BY <2>1, ReturnedIs DEF Failures
    <3>2. QED
      BY <3>1, ReturnedIs DEF Terminates, Stops, IsError
  <2>4. QED
    BY <2>2, <2>3 DEF Valid
<1>4. ASSUME code = 3
      PROVE  \E i \in Failures : /\ "requirement" \in ended[i]
                                 /\ \A j \in DOMAIN reports : reports[j].operand = i => ~reports[j].valid
  <2>1. Failures # {}
    BY <1>1, <1>2, <1>4
  <2>2. PICK i \in Failures : \A j \in Failures : i <= j
    BY <2>1, FirstFailure
  <2>3. i \in Positions /\ Positions \subseteq Nat
    BY <2>2, ReturnedIs DEF Failures
  <2>4. FirstFails(i)
    BY <2>2, <2>3 DEF FirstFails, Failures
  <2>5. Class(ended[i]) = 3
    BY <1>1, <1>2, <1>4, <2>3, <2>4
  <2>6. "requirement" \in ended[i]
    BY <2>5 DEF Class
  <2>7. \A j \in DOMAIN reports : reports[j].operand = i => ~reports[j].valid
    BY <2>3, <2>6, InvParts DEF ReportsSoFar
  <2>8. QED
    BY <2>6, <2>7
<1>5. QED
  BY <1>3, <1>4 DEF ReportsMatchStatus

LEMMA ListsAgree == CommandInv => ListsTheSuccessful
<1> SUFFICES ASSUME CommandInv, o.fileList PROVE ListsTheSuccessful
  BY DEF ListsTheSuccessful
<1>1. QED
  BY InvParts DEF ListSoFar, ListsTheSuccessful, Listed

\* The status, the JSON of verification, the file list and the extracted entitlements
\* are what happened to each operand, however many there are and whichever stages of
\* which of them fail (internal/cli/cli.go:577-696).
THEOREM OperandsAreReportedHolds == CommandSpec => []OperandsAreReported
<1>1. CommandInv => OperandsAreReported
  BY CommandTypes, FirstStatus, NoneSkipped, ReportsAgree, ListsAgree, InvParts DEF OperandsAreReported, Colon
<1>2. QED
  BY <1>1, CommandInvariant, PTL
---------------------------------------------------------------------------
(* Options.  Parsing and configuration set the options; after that they only  *)
(* lose a requirement whose file was empty.  So the invariant says, of each   *)
(* stage that is behind, what it left: the combinations are allowed, or the    *)
(* file of an option is among those that were read.                           *)

ToOperands == {"operands"}
ToList == {"list"} \cup ToOperands
ToTest == {"test"} \cup ToList
ToRequirements == {"requirements"} \cup ToTest
ToIdentity == {"identity"} \cup ToRequirements
ToEntitlements == {"entitlements"} \cup ToIdentity
ToStampRoot == {"stamp root"} \cup ToEntitlements
ToRoot == {"root"} \cup ToStampRoot
ToTrust == {"trust"} \cup ToRoot
BeforeReading == {"parse", "configure", "usage", "host", "combinations"}

\* A command that is refused with 2 has not begun to read.
Reading ==
  /\ line \in Lines
  /\ DOMAIN opts = DOMAIN NoOptions
  /\ stage \in BeforeReading \cup ToTrust \cup {"end"}
  /\ stage = "end" <=> exit # None
  /\ stage \in BeforeReading \/ exit = 2 => loaded = {}

\* The texts that name no file are Empty and, for a timestamp root, apple.
WasRead(t) == t \in loaded \cup {Empty, Text("apple")}
FilesSoFar ==
  /\ stage \in ToTrust => Combined
  /\ stage \in ToRoot => WasRead(opts.trust)
  /\ stage \in ToStampRoot => WasRead(opts.root)
  /\ stage \in ToEntitlements => WasRead(opts.stampRoot)
  /\ stage \in ToIdentity /\ Signs /\ opts.entitlements # Empty => opts.entitlements \in loaded
  /\ stage \in ToRequirements => (Certified => opts.identity \in loaded) /\ WasRead(opts.key) /\ WasRead(opts.password)

RequirementsSoFar ==
  /\ stage \in ToTest =>
       /\ Signs /\ opts.requirements # Empty /\ opts.requirements[1] = 0 => opts.requirements \in loaded
       /\ opts.operation = "remove" => ~opts.required
  /\ stage \in ToList => (opts.test.from = "file" => opts.test.text \in loaded)
  /\ stage \in ToOperands => (opts.operation = "remove" => ~opts.fileList)

OptionsInv == Reading /\ FilesSoFar /\ RequirementsSoFar

LEMMA InitOptionsInv == OptionsInit => OptionsInv
<1> SUFFICES ASSUME OptionsInit PROVE OptionsInv
  OBVIOUS
<1>1. line \in Lines /\ opts = NoOptions /\ stage = "parse" /\ exit = None /\ loaded = {}
  BY DEF OptionsInit
<1>2. stage \in BeforeReading /\ stage \notin ToTrust /\ stage # "end"
  BY <1>1 DEF BeforeReading, ToTrust, ToRoot, ToStampRoot, ToEntitlements, ToIdentity, ToRequirements, ToTest, ToList, ToOperands
<1>3. Reading
  BY <1>1, <1>2 DEF Reading
<1>4. FilesSoFar /\ RequirementsSoFar
  BY <1>2 DEF FilesSoFar, RequirementsSoFar, ToTrust, ToRoot, ToStampRoot, ToEntitlements, ToIdentity, ToRequirements, ToTest, ToList
<1>5. QED
  BY <1>3, <1>4 DEF OptionsInv

LEMMA Nested ==
  /\ ToOperands \subseteq ToList /\ ToList \subseteq ToTest /\ ToTest \subseteq ToRequirements
  /\ ToRequirements \subseteq ToIdentity /\ ToIdentity \subseteq ToEntitlements
  /\ ToEntitlements \subseteq ToStampRoot /\ ToStampRoot \subseteq ToRoot /\ ToRoot \subseteq ToTrust
BY DEF ToTrust, ToRoot, ToStampRoot, ToEntitlements, ToIdentity, ToRequirements, ToTest, ToList

LEMMA StagesApart == (BeforeReading \cup {"end"}) \cap ToTrust = {}
BY DEF BeforeReading, ToTrust, ToRoot, ToStampRoot, ToEntitlements, ToIdentity, ToRequirements, ToTest, ToList, ToOperands

\* A stage before the first file leaves nothing read.
LEMMA UnreadKeeps ==
  ASSUME OptionsInv, stage \in BeforeReading, UNCHANGED <<line, loaded>>, DOMAIN opts' = DOMAIN NoOptions,
         \/ (stage' \in BeforeReading /\ exit' = None)
         \/ (stage' = "trust" /\ exit' = None /\ Combined')
         \/ (stage' = "end" /\ exit' # None)
  PROVE  OptionsInv'
<1>1. line \in Lines /\ loaded = {}
  BY DEF OptionsInv, Reading
<1>2. stage' \notin ToRoot /\ (stage' \in ToTrust => Combined')
  BY StagesApart, Nested DEF ToRoot, ToStampRoot, ToEntitlements, ToIdentity, ToRequirements, ToTest, ToList, ToOperands
<1>3. "end" \notin BeforeReading /\ "trust" \in ToTrust
  BY DEF BeforeReading, ToTrust
<1>4. Reading'
  BY <1>1, <1>3 DEF Reading
<1>5. FilesSoFar' /\ RequirementsSoFar'
  BY <1>2, Nested DEF FilesSoFar, RequirementsSoFar
<1>6. QED
  BY <1>4, <1>5 DEF OptionsInv

\* A command that ends after it began to read is refused with 1.
LEMMA RefusalKeeps ==
  ASSUME OptionsInv, stage' = "end", exit' = 1, UNCHANGED <<line, opts, loaded>>
  PROVE  OptionsInv'
<1>1. line \in Lines /\ DOMAIN opts = DOMAIN NoOptions
  BY DEF OptionsInv, Reading
<1>2. stage' \notin ToTrust /\ "end" \notin BeforeReading
  BY StagesApart DEF BeforeReading
<1>3. Reading'
  BY <1>1, <1>2 DEF Reading, None
<1>4. FilesSoFar' /\ RequirementsSoFar'
  BY <1>2, Nested DEF FilesSoFar, RequirementsSoFar
<1>5. QED
  BY <1>3, <1>4 DEF OptionsInv

\* What was found stays found, so a stage that goes on has to show its own part.
LEMMA GoingOnKeeps ==
  ASSUME OptionsInv, UNCHANGED <<line, opts, exit>>, stage \in ToTrust, stage' \in ToTrust, loaded \subseteq loaded',
         stage' \in ToRoot => stage \in ToRoot \/ WasRead(opts.trust)',
         stage' \in ToStampRoot => stage \in ToStampRoot \/ WasRead(opts.root)',
         stage' \in ToEntitlements => stage \in ToEntitlements \/ WasRead(opts.stampRoot)',
         stage' \in ToIdentity => stage \in ToIdentity \/ (Signs /\ opts.entitlements # Empty => opts.entitlements \in loaded'),
         stage' \in ToRequirements => stage \in ToRequirements
           \/ ((Certified => opts.identity \in loaded') /\ WasRead(opts.key)' /\ WasRead(opts.password)'),
         stage' \in ToTest => stage \in ToTest
           \/ (/\ Signs /\ opts.requirements # Empty /\ opts.requirements[1] = 0 => opts.requirements \in loaded'
               /\ opts.operation = "remove" => ~opts.required),
         stage' \in ToList => stage \in ToList \/ (opts.test.from = "file" => opts.test.text \in loaded'),
         stage' \in ToOperands => stage \in ToOperands \/ (opts.operation = "remove" => ~opts.fileList)
  PROVE  OptionsInv'
<1>1. stage # "end" /\ stage' # "end" /\ stage \notin BeforeReading /\ stage' \notin BeforeReading
  BY StagesApart
<1>2. Reading'
  BY <1>1 DEF OptionsInv, Reading, None
<1>3. Combined'
  BY DEF OptionsInv, FilesSoFar, Combined, Certified, Signs, Verifies, Stamped
<1>4. \A t : WasRead(t) => t \in loaded' \cup {Empty, Text("apple")}
  BY DEF WasRead
<1>5. FilesSoFar'
  BY <1>3, <1>4 DEF OptionsInv, FilesSoFar, WasRead, Signs, Certified
<1>6. RequirementsSoFar'
  BY DEF OptionsInv, RequirementsSoFar, Signs
<1>7. QED
  BY <1>2, <1>5, <1>6 DEF OptionsInv

LEMMA ParsingKeeps ==
  ASSUME OptionsInv, Parse \/ configure \/ Usage \/ Host \/ Combinations
  PROVE  OptionsInv'
<1>1. line \in Lines /\ DOMAIN opts = DOMAIN NoOptions /\ (stage # "end" => exit = None)
  BY DEF OptionsInv, Reading
<1>2. CASE Parse
  <2>1. PICK st \in {parse(line.args)} :
           /\ stage = "parse" /\ opts' = IF st.code = None THEN st.o ELSE opts
           /\ IF st.code = None THEN Go("configure") ELSE Exit(st.code)
    BY <1>2 DEF Parse
  <2>2. DOMAIN opts' = DOMAIN NoOptions
    BY <1>1, <2>1, OptionsAssumption
  <2>3. (stage' = "configure" /\ exit' = None) \/ (stage' = "end" /\ exit' # None)
    BY <1>1, <2>1 DEF Go, Exit
  <2>4. QED
    BY <1>2, <2>1, <2>2, <2>3, UnreadKeeps DEF Parse, BeforeReading
<1>3. CASE configure
  <2>1. DOMAIN opts' = DOMAIN NoOptions
    BY <1>1, <1>3 DEF configure
  <2>2. (stage' = "usage" /\ exit' = None) \/ (stage' = "end" /\ exit' # None)
    BY <1>1, <1>3 DEF configure, Go, Exit, None
  <2>3. QED
    BY <1>3, <2>1, <2>2, UnreadKeeps DEF configure, BeforeReading
<1>4. CASE Usage \/ Host
  <2>1. (stage' \in {"host", "combinations"} /\ exit' = None) \/ (stage' = "end" /\ exit' # None)
    <3>1. stage # "end" /\ exit = None
      BY <1>1, <1>4 DEF Usage, Host
    <3>2. CASE Usage
      <4>1. Exit(2) \/ Go("host")
        BY <3>2 DEF Usage
      <4>2. QED
        BY <3>1, <4>1 DEF Go, Exit, None
    <3>3. CASE Host
      <4>1. Go("combinations") \/ Exit(1)
        BY <3>3 DEF Host
      <4>2. QED
        BY <3>1, <4>1 DEF Go, Exit, None
    <3>4. QED
      BY <1>4, <3>2, <3>3
  <2>2. stage \in BeforeReading /\ UNCHANGED <<line, opts, loaded>>
    BY <1>4 DEF Usage, Host, BeforeReading
  <2>3. QED
    BY <1>1, <2>1, <2>2, UnreadKeeps DEF BeforeReading
<1>5. CASE Combinations
  <2>1. (stage' = "trust" /\ exit' = None /\ Combined) \/ (stage' = "end" /\ exit' # None)
    BY <1>1, <1>5 DEF Combinations, Go, Exit, None
  <2>2. stage \in BeforeReading /\ UNCHANGED <<line, opts, loaded>>
    BY <1>5 DEF Combinations, BeforeReading
  <2>3. Combined => Combined'
    BY <2>2 DEF Combined, Certified, Signs, Verifies, Stamped
  <2>4. QED
    BY <1>1, <2>1, <2>2, <2>3, UnreadKeeps
<1>6. QED
  BY <1>2, <1>3, <1>4, <1>5

\* The sets of stages, stage by stage.
LEMMA StageSets ==
  /\ ToList = {"list", "operands"} /\ ToTest = {"test"} \cup ToList /\ ToRequirements = {"requirements"} \cup ToTest
  /\ ToIdentity = {"identity"} \cup ToRequirements /\ ToEntitlements = {"entitlements"} \cup ToIdentity
  /\ ToStampRoot = {"stamp root"} \cup ToEntitlements /\ ToRoot = {"root"} \cup ToStampRoot
  /\ ToTrust = {"trust"} \cup ToRoot /\ ToOperands = {"operands"}
BY DEF ToTrust, ToRoot, ToStampRoot, ToEntitlements, ToIdentity, ToRequirements, ToTest, ToList, ToOperands

LEMMA FilesKeep ==
  ASSUME OptionsInv, ReadTrust \/ ReadTrustRoot \/ ReadTimestampRoot \/ ReadEntitlements
  PROVE  OptionsInv'
<1>1. CASE stage' = "end"
  BY <1>1, RefusalKeeps DEF ReadTrust, ReadTrustRoot, ReadTimestampRoot, ReadEntitlements, ReadFile, Go, Exit
<1>2. CASE stage' # "end"
  <2>1. UNCHANGED <<line, opts, exit>> /\ loaded \subseteq loaded'
    BY <1>2 DEF ReadTrust, ReadTrustRoot, ReadTimestampRoot, ReadEntitlements, ReadFile, Go, Exit
  <2>2. \/ stage = "trust" /\ stage' = "root" /\ WasRead(opts.trust)'
        \/ stage = "root" /\ stage' = "stamp root" /\ WasRead(opts.root)'
        \/ stage = "stamp root" /\ stage' = "entitlements" /\ WasRead(opts.stampRoot)'
        \/ stage = "entitlements" /\ stage' = "identity" /\ (Signs /\ opts.entitlements # Empty => opts.entitlements \in loaded')
    BY <1>2, <2>1 DEF ReadTrust, ReadTrustRoot, ReadTimestampRoot, ReadEntitlements, ReadFile, Go, Exit, WasRead
  <2>3. QED
    BY <2>1, <2>2, GoingOnKeeps, StageSets
<1>3. QED
  BY <1>1, <1>2

LEMMA IdentityKeeps ==
  ASSUME OptionsInv, LoadIdentity
  PROVE  OptionsInv'
<1>1. CASE stage' = "end"
  BY <1>1, RefusalKeeps DEF LoadIdentity, Go, Exit
<1>2. CASE stage' # "end"
  <2>1. /\ stage = "identity" /\ stage' = "requirements" /\ UNCHANGED <<line, opts, exit>>
        /\ \/ ~Certified /\ UNCHANGED loaded
           \/ Certified /\ opts.password = Empty /\ loaded' = loaded \cup {opts.identity} \cup ({opts.key} \ {Empty})
           \/ Certified /\ opts.key = Empty /\ loaded' = loaded \cup {opts.identity} \cup ({opts.password} \ {Empty})
    BY <1>2 DEF LoadIdentity, Go, Exit
  <2>2. Combined
    BY <2>1, StageSets DEF OptionsInv, FilesSoFar
  <2>3. (Certified => opts.identity \in loaded') /\ WasRead(opts.key)' /\ WasRead(opts.password)'
    BY <2>1, <2>2 DEF Combined, WasRead
  <2>4. loaded \subseteq loaded'
    BY <2>1
  <2>5. QED
    BY <2>1, <2>3, <2>4, GoingOnKeeps, StageSets
<1>3. QED
  BY <1>1, <1>2

LEMMA RequirementsKeep ==
  ASSUME OptionsInv, ReadRequirements
  PROVE  OptionsInv'
<1>1. CASE stage' = "end"
  BY <1>1, RefusalKeeps DEF ReadRequirements, Go, Exit
<1>2. CASE stage' # "end"
  <2>1. /\ stage = "requirements" /\ stage' = "test" /\ UNCHANGED <<line, opts, exit>> /\ loaded \subseteq loaded'
        /\ opts.operation = "remove" => ~opts.required
        /\ Signs /\ opts.requirements # Empty /\ opts.requirements[1] = 0 => opts.requirements \in loaded'
    BY <1>2 DEF ReadRequirements, Go, Exit
  <2>2. QED
    BY <2>1, GoingOnKeeps, StageSets
<1>3. QED
  BY <1>1, <1>2

\* A requirement whose file was empty takes nothing else with it.
LEMMA TestAlone ==
  ASSUME NEW r, DOMAIN r = DOMAIN NoOptions
  PROVE  \E n \in {[r EXCEPT !.test = NoTest]} :
           /\ DOMAIN n = DOMAIN r /\ n.test = NoTest
           /\ \A f \in DOMAIN r \ {"test"} : n[f] = r[f]
BY DEF NoOptions

LEMMA TestKeeps ==
  ASSUME OptionsInv, ReadTest
  PROVE  OptionsInv'
<1>1. CASE stage' = "end"
  BY <1>1, RefusalKeeps DEF ReadTest, Go, Exit
<1>2. CASE stage' # "end" /\ UNCHANGED opts
  <2>1. /\ stage = "test" /\ stage' = "list" /\ UNCHANGED <<line, opts, exit>> /\ loaded \subseteq loaded'
        /\ opts.test.from = "file" => opts.test.text \in loaded'
    BY <1>2 DEF ReadTest, Go, Exit
  <2>2. QED
    BY <2>1, GoingOnKeeps, StageSets
<1>3. CASE stage' # "end" /\ opts' = [opts EXCEPT !.test = NoTest]
  <2>1. /\ stage = "test" /\ stage' = "list" /\ UNCHANGED <<line, exit>> /\ loaded \subseteq loaded'
    BY <1>3 DEF ReadTest, Go, Exit
  <2>2. line \in Lines /\ DOMAIN opts = DOMAIN NoOptions /\ exit = None
    BY <2>1, StageSets DEF OptionsInv, Reading
  <2>3. /\ DOMAIN opts' = DOMAIN NoOptions /\ opts'.test = NoTest
        /\ \A f \in DOMAIN NoOptions \ {"test"} : opts'[f] = opts[f]
    BY <1>3, <2>2, TestAlone
  <2>4. /\ opts'.operation = opts.operation /\ opts'.identity = opts.identity /\ opts'.requirements = opts.requirements
        /\ opts'.required = opts.required /\ opts'.entitlements = opts.entitlements /\ opts'.key = opts.key
        /\ opts'.password = opts.password /\ opts'.trust = opts.trust /\ opts'.root = opts.root
        /\ opts'.stampRoot = opts.stampRoot /\ opts'.stamp = opts.stamp /\ opts'.timeout = opts.timeout
    BY <2>3 DEF NoOptions
  <2>5. Combined' /\ (Certified' <=> Certified) /\ (Signs' <=> Signs)
    BY <2>1, <2>4, StageSets DEF OptionsInv, FilesSoFar, Combined, Certified, Signs, Verifies, Stamped
  <2>6. Reading'
    <3>1. stage' \in ToTrust /\ stage' # "end"
      BY <2>1, StageSets
    <3>2. stage' \notin BeforeReading /\ exit' = None /\ exit' # 2
      BY <2>1, <2>2, <3>1, StagesApart DEF None
    <3>3. line' \in Lines
      BY <2>1, <2>2
    <3>4. QED
      BY <2>3, <3>1, <3>2, <3>3 DEF Reading
  <2>7. FilesSoFar'
    <3>1. /\ WasRead(opts.trust) /\ WasRead(opts.root) /\ WasRead(opts.stampRoot) /\ WasRead(opts.key)
          /\ WasRead(opts.password) /\ (Certified => opts.identity \in loaded)
          /\ Signs /\ opts.entitlements # Empty => opts.entitlements \in loaded
      BY <2>1, StageSets DEF OptionsInv, FilesSoFar
    <3>2. QED
      BY <2>1, <2>4, <2>5, <3>1 DEF FilesSoFar, WasRead
  <2>8. RequirementsSoFar'
    <3>1. /\ Signs /\ opts.requirements # Empty /\ opts.requirements[1] = 0 => opts.requirements \in loaded
          /\ opts.operation = "remove" => ~opts.required
      BY <2>1, StageSets DEF OptionsInv, RequirementsSoFar
    <3>2. opts'.test.from # "file" /\ stage' \notin ToOperands
      BY <2>1, <2>3 DEF NoTest, ToOperands
    <3>3. QED
      BY <2>1, <2>4, <2>5, <3>1, <3>2 DEF RequirementsSoFar
  <2>9. QED
    BY <2>6, <2>7, <2>8 DEF OptionsInv
<1>4. QED
  BY <1>1, <1>2, <1>3 DEF ReadTest

LEMMA ListChecked ==
  ASSUME OptionsInv, CheckList
  PROVE  OptionsInv'
<1>1. CASE stage' = "end"
  BY <1>1, RefusalKeeps DEF CheckList, Go, Exit
<1>2. CASE stage' # "end"
  <2>1. /\ stage = "list" /\ stage' = "operands" /\ UNCHANGED <<line, opts, exit, loaded>>
        /\ opts.operation = "remove" => ~opts.fileList
    BY <1>2 DEF CheckList, Go, Exit
  <2>2. QED
    BY <2>1, GoingOnKeeps, StageSets
<1>3. QED
  BY <1>1, <1>2

LEMMA OptionsStutter ==
  ASSUME OptionsInv, UNCHANGED optionVars
  PROVE  OptionsInv'
BY DEF optionVars, OptionsInv, Reading, FilesSoFar, RequirementsSoFar, WasRead, Combined, Certified, Signs, Verifies, Stamped

LEMMA OptionsStep == OptionsInv /\ [OptionsNext]_optionVars => OptionsInv'
<1> SUFFICES ASSUME OptionsInv, [OptionsNext]_optionVars PROVE OptionsInv'
  OBVIOUS
<1>1. CASE Parse \/ configure \/ Usage \/ Host \/ Combinations
  BY <1>1, ParsingKeeps
<1>2. CASE ReadTrust \/ ReadTrustRoot \/ ReadTimestampRoot \/ ReadEntitlements
  BY <1>2, FilesKeep
<1>3. CASE LoadIdentity \/ ReadRequirements
  BY <1>3, IdentityKeeps, RequirementsKeep
<1>4. CASE ReadTest \/ CheckList
  BY <1>4, TestKeeps, ListChecked
<1>5. CASE UNCHANGED optionVars
  BY <1>5, OptionsStutter
<1>6. QED
  BY <1>1, <1>2, <1>3, <1>4, <1>5 DEF OptionsNext

\* No operation starts with a credential, a root of trust or a requirement that was
\* named and not read, or that is for another operation, and a command that is refused
\* for how its options combine read nothing: whatever the command line, so long as its
\* parse is a set of options (internal/cli/cli.go:92-576).
THEOREM CommandsAreObeyedHolds == OptionsSpec => []CommandsAreObeyed
<1>1. OptionsInv => NothingIgnored
  <2> SUFFICES ASSUME OptionsInv, stage = "operands" PROVE NothingIgnored
    BY DEF NothingIgnored
  <2>1. /\ Combined /\ WasRead(opts.trust) /\ WasRead(opts.root) /\ WasRead(opts.stampRoot) /\ WasRead(opts.key)
        /\ WasRead(opts.password) /\ (Certified => opts.identity \in loaded)
        /\ Signs /\ opts.entitlements # Empty => opts.entitlements \in loaded
    BY StageSets DEF OptionsInv, FilesSoFar
  <2>2. /\ Signs /\ opts.requirements # Empty /\ opts.requirements[1] = 0 => opts.requirements \in loaded
        /\ opts.operation = "remove" => ~opts.required /\ ~opts.fileList
        /\ opts.test.from = "file" => opts.test.text \in loaded
    BY StageSets DEF OptionsInv, RequirementsSoFar
  <2>3. opts.key # Empty \/ opts.password # Empty => Certified
    BY <2>1 DEF Combined
  <2>4. QED
    BY <2>1, <2>2, <2>3 DEF NothingIgnored, WasRead
<1>2. OptionsInv => RefusedUnread
  BY DEF OptionsInv, Reading, RefusedUnread
<1>3. QED
  BY <1>1, <1>2, InitOptionsInv, OptionsStep, PTL DEF OptionsSpec, CommandsAreObeyed
=============================================================================
