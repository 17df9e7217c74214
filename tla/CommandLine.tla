---------------------------- MODULE CommandLine ----------------------------
(***************************************************************************)
(* One invocation of macoscodesign from its first operand on (execute in   *)
(* internal/cli/cli.go, after Options): the operands are processed in order, *)
(* every one of them may fail at any stage, and what one operand leaves -   *)
(* the exit status, the deprecated colon of --entitlements, the appended   *)
(* files - is met by the next.                                             *)
(*                                                                         *)
(* The library's operations are external here: an operation succeeds or    *)
(* fails, with or without a report.  Texts and the JSON encoding of the    *)
(* fields are left out.                                                    *)
(***************************************************************************)
EXTENDS Naturals, Sequences, FiniteSets, SequencesExt

CONSTANT MaxOperands                 \* longest list of operands

ASSUME OperandsAssumption == MaxOperands \in Nat \ {0}

VARIABLES o,         \* the parsed options
          k,         \* the operand being processed
          at,        \* where its processing stands
          errs,      \* the kinds of error joined for it so far
          before,    \* a report was taken before a dry run
          status,    \* the retained exit status
          code,      \* the code the command returned, or Running
          list,      \* the file list's operands, in order of appending
          entitled,  \* what was appended for --entitlements
          reports,   \* the JSON reports of verification
          ended      \* history: the errors of every operand that ended

commandVars == <<o, k, at, errs, before, status, code, list, entitled, reports, ended>>

Running == 99
Operations == {"sign", "remove", "verify", "display"}
Kinds == {"requirement", "ordinary", "native", "output", "cleanup"}

\* Options whose combination changes the control of the loop.
Options ==
    [operation: Operations, paths: 1..MaxOperands, continue: BOOLEAN, json: BOOLEAN,
     dryrun: BOOLEAN, fileList: BOOLEAN, requirements: BOOLEAN, certificates: BOOLEAN,
     entitlements: {"none", "text", "xml"}, checks: BOOLEAN]

\* Options an operation ignores are not given to it.
Meaningful(p) ==
    /\ p.operation # "sign" => ~p.dryrun
    /\ p.operation # "display" => ~p.certificates /\ p.entitlements = "none"
    /\ p.operation # "display" => ~p.requirements
    /\ p.operation = "verify" => ~p.fileList
    /\ p.operation # "verify" => ~p.checks
    /\ p.operation \in {"sign", "remove"} => ~p.json
    /\ p.operation = "remove" => ~p.fileList           \* refused by Options

\* Owned reports: the input is closed before the report is consumed.
Owned == o.json /\ (o.operation = "display" => o.entitlements = "none" /\ ~o.requirements)

CommandInit ==
    /\ o \in {p \in Options: Meaningful(p)}
    /\ k = 1 /\ at = "operand" /\ errs = {} /\ before = FALSE
    /\ status = 0 /\ code = Running
    /\ list = <<>> /\ entitled = <<>> /\ reports = <<>> /\ ended = <<>>

outputs == <<list, entitled, reports>>

\* A dry run's list describes the signature found before it.
InspectBefore ==
    /\ at = "operand" /\ o.operation = "sign" /\ o.fileList /\ o.dryrun
    /\ before' \in BOOLEAN
    /\ at' = "operate"
    /\ UNCHANGED <<o, k, errs, status, code, outputs, ended>>

NoInspection ==
    /\ at = "operand" /\ ~(o.operation = "sign" /\ o.fileList /\ o.dryrun)
    /\ at' = "operate"
    /\ UNCHANGED <<o, k, errs, before, status, code, outputs, ended>>

Succeeded(next) == at' = next /\ UNCHANGED errs
Failed(kind) == at' = "after" /\ errs' = errs \cup {kind}

\* Sign and Remove.
Change ==
    /\ at = "operate" /\ o.operation \in {"sign", "remove"}
    /\ \/ Succeeded(IF o.operation = "sign" /\ o.fileList THEN "relist" ELSE "after")
       \/ Failed("ordinary")
    /\ UNCHANGED <<o, k, before, status, code, outputs, ended>>

\* The report of a signed operand, unless one was taken before.
Relist ==
    /\ at = "relist"
    /\ Succeeded("list") \/ (~before /\ Failed("ordinary"))
    /\ UNCHANGED <<o, k, before, status, code, outputs, ended>>

ReportAsFound(operand, passed) == [operand |-> operand, valid |-> TRUE]
Report(operand, passed) == [operand |-> operand, valid |-> passed]

\* Verify or VisitVerification until its visitor is called: without an error,
\* with one and a report, or with one and no report.  The valid report of a
\* passed verification reaches the requirement checks.
Verify ==
    /\ at = "operate" /\ o.operation = "verify"
    /\ \/ Succeeded("checks") /\ UNCHANGED reports
       \/ /\ Failed("ordinary")
          /\ \/ UNCHANGED reports
             \/ o.json /\ reports' = Append(reports, Report(k, FALSE))
    /\ UNCHANGED <<o, k, before, status, code, list, entitled, ended>>

\* checkVerificationRequirements as its caller uses it: the checks pass, fail,
\* or cannot be evaluated; then the report is written, which may fail too.
CheckRequirements ==
    /\ at = "checks"
    /\ \E passed \in BOOLEAN, outputErr \in BOOLEAN, encodes \in BOOLEAN:
         /\ ~o.checks => passed \/ outputErr
         /\ outputErr => ~passed
         /\ ~o.json => encodes
         /\ status' = IF ~passed /\ ~outputErr /\ status = 0 THEN 3 ELSE status
         /\ reports' = IF o.json /\ encodes
                       THEN Append(reports, Report(k, passed))
                       ELSE reports
         /\ errs' = errs \cup (IF outputErr \/ ~encodes THEN {"ordinary"} ELSE {})
                         \cup (IF ~passed /\ ~outputErr THEN {"requirement"} ELSE {})
    /\ at' = IF Owned THEN "after" ELSE "close"
    /\ UNCHANGED <<o, k, before, code, list, entitled, ended>>

InspectIgnoringError ==
    /\ at = "operate" /\ o.operation = "display"
    /\ at' = "display" /\ errs' \in {errs, {"ordinary"}}
    /\ UNCHANGED <<o, k, before, status, code, outputs, ended>>

\* Inspection until the visitor is called; after an error it does nothing.
Inspect ==
    /\ at = "operate" /\ o.operation = "display"
    /\ Succeeded("display") \/ Failed("ordinary")
    /\ UNCHANGED <<o, k, before, status, code, outputs, ended>>

\* The stages of the display visitor.  A stage that fails ends the visit.
VisitEnds == IF Owned THEN "after" ELSE "close"
Left(kind) == at' = VisitEnds /\ errs' = errs \cup {kind}

Display ==
    /\ at = "display"
    /\ Succeeded(IF o.certificates THEN "certificates" ELSE "requirements") \/ Left("ordinary")
    /\ UNCHANGED <<o, k, before, status, code, outputs, ended>>

ExtractCertificates ==
    /\ at = "certificates"
    /\ Succeeded("requirements") \/ Left("ordinary")
    /\ UNCHANGED <<o, k, before, status, code, outputs, ended>>

ExtractRequirements ==
    /\ at = "requirements"
    /\ \/ Succeeded("entitlements")
       \/ o.requirements /\ (Left("ordinary") \/ Left("output"))
    /\ UNCHANGED <<o, k, before, status, code, outputs, ended>>

Extracted == [operand |-> k, form |-> o.entitlements]
ConsumedInACopy == o
Consumed == [o EXCEPT !.entitlements = "text"]

\* extractEntitlements: the colon is consumed by the first operand that gets
\* here, whatever becomes of it.  The destination is opened for appending before
\* the text form is validated.
ExtractEntitlements ==
    /\ at = "entitlements" /\ o.entitlements # "none"
    /\ \/ Left("ordinary") /\ UNCHANGED <<o, entitled>>          \* architecture selection
       \/ /\ o' = Consumed
          /\ \/ Succeeded("list") /\ UNCHANGED entitled           \* absent or invalid
             \/ Left("ordinary") /\ UNCHANGED entitled            \* unsupported
             \/ Left("output") /\ UNCHANGED entitled              \* open or write
             \/ Left("output") /\ entitled' = Append(entitled, Extracted) \* close
             \/ o.entitlements = "text" /\ Left("native") /\ UNCHANGED entitled
             \/ /\ Succeeded("list")
                /\ entitled' = Append(entitled, Extracted)
    /\ UNCHANGED <<k, before, status, code, list, reports, ended>>

NoEntitlements ==
    /\ at = "entitlements" /\ o.entitlements = "none"
    /\ Succeeded("list")
    /\ UNCHANGED <<o, k, before, status, code, outputs, ended>>

\* outputFileList, and the end of the visit or of the signing step.
OutputFileList ==
    /\ at = "list"
    /\ LET end == IF o.operation = "sign" THEN "after" ELSE VisitEnds IN
       \/ /\ o.fileList /\ list' = Append(list, k)
          /\ at' = end /\ UNCHANGED errs
       \/ /\ ~o.fileList /\ at' = end /\ UNCHANGED <<errs, list>>
       \/ /\ o.fileList /\ UNCHANGED list                          \* SignatureFiles, open or write
          /\ at' = end /\ \E kind \in {"ordinary", "output"}: errs' = errs \cup {kind}
       \/ /\ o.fileList /\ list' = Append(list, k)                  \* close
          /\ at' = end /\ errs' = errs \cup {"output"}
    /\ UNCHANGED <<o, k, before, status, code, entitled, reports, ended>>

\* A held input is closed after its visitor; a failure is joined.
Close ==
    /\ at = "close"
    /\ at' = "after"
    /\ errs' \in {errs, errs \cup {"cleanup"}}
    /\ UNCHANGED <<o, k, before, status, code, outputs, ended>>

\* The end of one operand.  A failed requirement is no error of the operand:
\* its status was set where it was found.  (Errors that are a failed requirement
\* themselves arise only from options of the library execute never sets.)
IsError(e) == e \ {"requirement"} # {}
Terminates(e) == "native" \in e \/ "output" \in e
LastStatus(e) == IF IsError(e) THEN 1 ELSE status
UsageStatus(e) == IF IsError(e) /\ status = 0 THEN 2 ELSE status
StatusAfter(e) == IF IsError(e) /\ status = 0 THEN 1 ELSE status
StopsAlways(e) == IsError(e) /\ ~o.continue
Stops(e) == IsError(e) /\ o.operation # "verify" /\ ~o.continue

FinishOperand ==
    /\ at = "after"
    /\ ended' = Append(ended, errs)
    /\ errs' = {} /\ before' = FALSE
    /\ IF Terminates(errs)
       THEN /\ code' = IF "native" \in errs THEN 65 ELSE 1
            /\ at' = "done" /\ UNCHANGED <<k, status>>
       ELSE /\ status' = StatusAfter(errs)
            /\ IF Stops(errs) \/ k = o.paths
               THEN code' = status' /\ at' = "done" /\ UNCHANGED k
               ELSE k' = k + 1 /\ at' = "operand" /\ UNCHANGED code
    /\ UNCHANGED <<o, outputs>>

\* The process exits with the code.
Stay == code # Running /\ UNCHANGED commandVars

CommandNext ==
    \/ InspectBefore \/ NoInspection \/ Change \/ Relist \/ Verify
    \/ CheckRequirements \/ Inspect \/ Display \/ ExtractCertificates
    \/ ExtractRequirements \/ ExtractEntitlements \/ NoEntitlements
    \/ OutputFileList \/ Close \/ FinishOperand \/ Stay

CommandSpec == CommandInit /\ [][CommandNext]_commandVars

-----------------------------------------------------------------------------
Returned == code # Running
Positions == 1..Len(ended)
Failures == {i \in Positions: ended[i] # {}}
Class(e) == IF "requirement" \in e THEN 3 ELSE IF e = {} THEN 0 ELSE 1

(* Every variable of execute's loop keeps its type. *)
CommandTypeOK ==
    /\ o \in Options
    /\ k \in 1..o.paths
    /\ at \in {"operand", "operate", "relist", "checks", "display", "certificates",
               "requirements", "entitlements", "list", "close", "after", "done"}
    /\ errs \subseteq Kinds /\ before \in BOOLEAN
    /\ status \in {0, 1, 3} /\ code \in {0, 1, 3, 65, Running}
    /\ \A j \in DOMAIN list: list[j] \in 1..k
    /\ \A j \in DOMAIN entitled: entitled[j] \in [operand: 1..k, form: {"text", "xml"}]
    /\ \A j \in DOMAIN reports: reports[j] \in [operand: 1..k, valid: BOOLEAN]
    /\ \A i \in Positions: ended[i] \subseteq Kinds

(* The status returned for several operands is that of the first one that  *)
(* failed - 3 when its code was intact and missed a requirement, otherwise *)
(* 1 - whatever failed later, unless an extraction ended the command with  *)
(* the native code 65 or an unusable output file, which never happens to a *)
(* verification.                                                           *)
StatusOfFirstFailure ==
    Returned /\ ended # <<>> =>
        IF Terminates(Last(ended))
        THEN o.operation # "verify" /\ code = IF "native" \in Last(ended) THEN 65 ELSE 1
        ELSE code = IF Failures = {} THEN 0
                    ELSE Class(ended[CHOOSE i \in Failures: \A j \in Failures: i <= j])

(* A verification, and any command with --continue, tries every operand    *)
(* unless an extraction ends it; without --continue nothing is touched     *)
(* after the first operand that failed.                                    *)
NobodySkipped ==
    Returned /\ ended # <<>> =>
        /\ (o.operation = "verify" \/ o.continue) /\ ~Terminates(Last(ended))
              => Len(ended) = o.paths
        /\ o.operation # "verify" /\ ~o.continue /\ Failures # {}
              => Failures = {Len(ended)}
        /\ Failures = {} => Len(ended) = o.paths

(* The JSON of a verification agrees with its status: 0 comes with one     *)
(* valid report for every operand, in order, 3 with a report that says the *)
(* operand is not valid or could not be written.                           *)
ReportsMatchStatus ==
    Returned /\ o.operation = "verify" /\ o.json /\ ended # <<>> =>
        /\ code = 0 => /\ Len(reports) = o.paths
                       /\ \A i \in 1..o.paths: reports[i] = [operand |-> i, valid |-> TRUE]
        /\ code = 3 => \E i \in Failures:
                          /\ "requirement" \in ended[i]
                          /\ \A j \in DOMAIN reports:
                                reports[j].operand = i => ~reports[j].valid

(* The file list names, in order and once, every operand that succeeded    *)
(* and none whose operation failed.                                        *)
ListsTheSuccessful ==
    o.fileList =>
        /\ \A i, j \in DOMAIN list: i < j => list[i] < list[j]
        /\ \A j \in DOMAIN list: list[j] \in Positions => ended[list[j]] \subseteq {"output", "cleanup"}
        /\ \A i \in Positions: ended[i] = {} => \E j \in DOMAIN list: list[j] = i

(* The deprecated colon of --entitlements selects XML for one operand only *)
(* - the first whose entitlements are extracted - and every later one is   *)
(* written as text to the same destination.                                *)
ColonIsConsumed ==
    \A j \in DOMAIN entitled: entitled[j].form = "xml" => j = 1 /\ o.entitlements = "text"

(* What a command reports of several operands - its status, the JSON of     *)
(* verification, the file list and the extracted entitlements - is what     *)
(* happened to each of them.                                                *)
OperandsAreReported ==
    /\ CommandTypeOK /\ StatusOfFirstFailure /\ NobodySkipped
    /\ ReportsMatchStatus /\ ListsTheSuccessful /\ ColonIsConsumed
=============================================================================
