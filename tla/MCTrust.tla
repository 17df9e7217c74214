------------------------------- MODULE MCTrust -------------------------------
(***************************************************************************)
(* Small instances of TimestampAcquisition and CertificatePaths: what a        *)
(* verifier believes of the time, and of a signer.  A behaviour is of one of   *)
(* the two, which state PathsAgree and StampsLast.                            *)
(***************************************************************************)
EXTENDS TimestampAcquisition, CertificatePaths, TLC

VARIABLE part  \* "paths" or "stamps": whose behaviour this is

---------------------------------------------------------------------------
(* Paths: collections of a leaf and up to three CAs with two names and two     *)
(* keys.  A leaf is signed with the first key; it is among the roots, alone,    *)
(* when it names itself as its issuer, could be a CA or has another purpose.    *)

MCLeaves ==
  [subject : {"L"}, issuer : {"A", "L"}, key : {0}, by : {1}, len : {-1, -2}, purpose : BOOLEAN]

MCPool ==
  [subject : {"A", "B"}, issuer : {"A", "B"}, key : {1, 2}, by : {1, 2}, len : {-1, 0}]
    \cup [subject : {"A"}, issuer : {"B"}, key : {1}, by : {2}, len : {-2}]

\* Three CAs at once, and a root: those of the second name limit nothing.
MCLong == {c \in MCPool : c.len = -1 \/ (c.len = 0 /\ c.subject = "A")}

MCPaths ==
  /\ PathInit
  /\ leaf.issuer = "L" \/ leaf.len = -1 \/ ~leaf.purpose => pinned
  /\ pinned => roots = 0 /\ Len(pool) < 2
  /\ Len(pool) = 3 => roots > 0 /\ ToSet(pool) \subseteq MCLong

---------------------------------------------------------------------------
(* Stamps: two clients, whose signatures may be equal, two attempts each and    *)
(* two tokens; an answer can be late for its attempt, or another client's.      *)

CONSTANTS c1, c2, s1, s2

MCClients == {c1, c2}
MCSignatures == {s1, s2}

\* A policy that says no more than the roots do, and a clock that no certificate
\* agrees with, add no behaviours of interest.  The CMS carries two of three certificates
\* that are valid together; when the clocks agree, Apple's chain may also be carried
\* otherwise, or its root have another time.
MCStamps ==
  /\ Init
  /\ common.apple => "other" \in common.roots
  /\ skew = -1 => 0 \in common.valid[1]
  /\ common.valid[2] = common.valid[1]
  /\ \/ common.carried = 2 /\ common.valid[3] = common.valid[1]
     \/ skew = 0 /\ common.apple /\ (common.carried = 2 \/ common.valid[3] = common.valid[1])

Symmetry == Permutations(MCClients) \cup Permutations(MCSignatures)

---------------------------------------------------------------------------

\* The other part stays in one of its initial states.
NoPaths ==
  /\ leaf = [subject |-> "L", issuer |-> "L", key |-> 0, by |-> 1, len |-> -1, purpose |-> TRUE]
  /\ pool = <<>> /\ pinned = TRUE
  /\ PathInit

NoStamps ==
  /\ skew = 0 /\ common = [apple |-> FALSE, roots |-> {}, carried |-> 1, valid |-> [i \in 1..ChainLength |-> 0..1]]
  /\ \E s \in Signatures : setup = [c \in Clients |-> [sig |-> s, stamped |-> FALSE]]
  /\ Init

MCInit ==
  \/ part = "paths" /\ MCPaths /\ NoStamps
  \/ part = "stamps" /\ MCStamps /\ NoPaths

MCNext ==
  \/ part = "paths" /\ PathNext /\ UNCHANGED <<part, vars>>
  \/ part = "stamps" /\ Next /\ UNCHANGED <<part, pathVars>>

MCSpec == MCInit /\ [][MCNext]_<<part, pathVars, vars>>
=============================================================================
