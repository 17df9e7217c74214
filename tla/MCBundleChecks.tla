--------------------------- MODULE MCBundleChecks ---------------------------
(***************************************************************************)
(* Small instances of BundleScan and BundleVerification.  A behaviour is of   *)
(* one of the two: the scan before signing, or the life of a signed bundle.   *)
(***************************************************************************)
EXTENDS BundleVerification, BundleScan

VARIABLE part   \* "scan" or "verification": whose behaviour this is

---------------------------------------------------------------------------
(* Verification: an app with an app and a tool in it; the inner app has a tool *)
(* of its own.  Two architectures, a file for each rule, and three steps after *)
(* all of it was signed or a part of it.                                       *)

MCCodes == {"app", "kid", "tool", "inner"}
MCBundles == {"app", "kid"}
MCChildren == [c \in MCCodes |-> CASE c = "app" -> {"kid", "tool"} [] c = "kid" -> {"inner"} [] OTHER -> {}]
MCArchitectures == <<"arm64", "x86_64">>
MCInsideOut == <<"inner", "kid", "tool", "app">>
MCOrder == <<"inner", "kid", "lproj", "locversion", "res", "tool">>

---------------------------------------------------------------------------
(* Scan: an application, a framework in it with two versions, and an extension *)
(* in the framework.  Two of the files may be one, and two of the names equal  *)
(* but for their case.                                                         *)

MCScanBundles == {"app", "fw", "ext"}

Table ==
  {<<"app exec", "app", "exec">>, <<"app envelope", "app", "envelope">>, <<"app plain", "app", "plain">>,
   <<"app helper", "app", "helper">>, <<"app stale", "app", "stale">>, <<"app fw", "app", "child">>,
   <<"fw alias", "fw", "layout">>, <<"fw exec", "fw", "exec">>, <<"fw link", "fw", "link">>,
   <<"fw other", "fw", "version">>, <<"fw file", "fw", "versionfile">>, <<"fw ext", "fw", "child">>,
   <<"ext dir", "ext", "dir">>, <<"ext envelope", "ext", "envelope">>}

MCEntries == {t[1] : t \in Table}
Row(e) == CHOOSE t \in Table : t[1] = e
MCIn == [e \in MCEntries |-> Row(e)[2]]
MCKind == [e \in MCEntries |-> Row(e)[3]]
MCNested == [e \in {"app fw", "fw ext"} |-> IF e = "app fw" THEN "fw" ELSE "ext"]
MCDepth == [b \in MCScanBundles |-> CASE b = "app" -> 0 [] b = "fw" -> 1 [] b = "ext" -> 2]

\* Without a helper, without the extension, or all.
Presents ==
  {MCEntries, MCEntries \ {"app helper", "app stale"},
   {e \in MCEntries \ {"fw ext"} : MCIn[e] # "ext"}}

\* A function that maps two entries to one value and every other to itself.
Joined(pair) == [e \in MCEntries |-> IF e \in pair THEN CHOOSE f \in pair : TRUE ELSE e]

Files(P) == {e \in P : Regular(e)}
SamePairs(P) == {{e, f} : e, f \in Files(P)}
NamePairs == {{}, {"app plain", "app helper"}, {"fw alias", "fw exec"}, {"app exec", "fw exec"}}

Disk(P, files, names, k) ==
  [present |-> P, inode |-> Joined(files), name |-> Joined(names), size |-> [e \in MCEntries |-> k]]

Limits(e, n, d) == [entries |-> e, nested |-> n, depth |-> d]
Limited == Limits(13, 4, 2)

TreeInit ==
  /\ \E P \in Presents :
       tree \in {Disk(P, i, {}, 1) : i \in SamePairs(P)} \cup {Disk(P, {}, n, k) : n \in NamePairs, k \in {1, 2}}
  /\ limits \in {Limited, Limits(12, 4, 2), Limits(13, 3, 2), Limits(13, 4, 1)}
  /\ ScanInit

---------------------------------------------------------------------------

VerificationVars == bundleVars

\* The other part stays in one of its initial states.
NoScan == tree = Disk(MCEntries, {}, {}, 1) /\ limits = Limited /\ ScanInit

NoVerification ==
  /\ disk = [c \in Codes |-> Unsigned] /\ sealed = [c \in Codes |-> [signer |-> ""]] /\ steps = 0 /\ first = <<>>

MCInit ==
  \/ part = "scan" /\ TreeInit /\ NoVerification
  \/ part = "verification" /\ BundleInit /\ NoScan

MCNext ==
  \/ part = "scan" /\ ScanNext /\ UNCHANGED <<part, VerificationVars>>
  \/ part = "verification" /\ BundleNext /\ UNCHANGED <<part, scanVars>>

MCSpec == MCInit /\ [][MCNext]_<<part, VerificationVars, scanVars>>

---------------------------------------------------------------------------
(* Properties *)

\* What verifyBundleSnapshot reports, nested code and resources included, is
\* what was changed since the code was signed, no more and no less; and a bundle
\* verifies exactly as long as all that the options look at is as it was then.
ReportHolds ==
  part = "verification" => FailureNamesDamage /\ ReportIsExact /\ ValidIffKept
=============================================================================
