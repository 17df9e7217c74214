---------------------------- MODULE BundlePlan ----------------------------
(***************************************************************************)
(* The planning half of signBundle: planSignature and                       *)
(* prepareNestedForBundle build every new signature before any file is      *)
(* touched, and return the writes that applyBundleWrites is to perform.     *)
(*                                                                          *)
(* A scenario s is what the plan depends on: the options deep, force and    *)
(* dryRun; the nodes that carry a complete signature; and the failures that *)
(* scanTree and signCodeSource may meet.                                    *)
(*   preflight: bundles whose startSigningSideband failed                   *)
(*   resources: bundles with a resource that failed signingFile             *)
(*   helpers:   helpers whose signingPath failed                            *)
(*   signing:   nodes that signCodeSource cannot sign                       *)
(***************************************************************************)
EXTENDS BundleTree

\* Deep signing replaces incomplete signatures, and with force all of them.
Needs(s, n) == s.deep /\ (n \notin s.signed \/ s.force)

\* scanTree records metadata failures only while it signs deeply, and those of
\* a node only when the node is to be signed.
Reachable(s) ==
  /\ s.resources # {} => s.deep
  /\ \A n \in s.preflight \cup s.helpers \cup (s.resources \ {Top}) : Needs(s, n)
  /\ Top \notin s.preflight /\ s.preflight \cap s.resources = {}

Plan(writes, err) == [writes |-> writes, err |-> err]

\* The bytes of n that its parent seals: the planned ones, unless the run is
\* dry; bytes without a complete signature cannot be sealed.
SealsNew(s, n) == Needs(s, n) /\ ~s.dryRun
SealFails(s, n) == ~SealsNew(s, n) /\ n \notin s.signed

planHelper(s, b, h) ==
  IF h \in s.signing THEN Plan(<<>>, "fatal")
  ELSE Plan(<<MachOWrite(b, h, "none")>>, "none")

\* One name of the loop: p is the plan of its node and acc the loop so far.
\* Metadata failures are remembered and the loop goes on; other failures end it
\* and keep the writes only in a dry run.
nestedStep(s, n, p, acc) ==
  IF acc.err = "fatal" THEN acc
  ELSE IF n \in s.helpers THEN [acc EXCEPT !.err = "metadata"]
  ELSE IF p.err = "metadata" THEN Plan(acc.writes \o p.writes, "metadata")
  ELSE IF p.err = "fatal"
       THEN Plan(IF s.dryRun /\ p.writes # <<>> THEN acc.writes \o p.writes
                 ELSE <<>>, "fatal")
  ELSE IF SealFails(s, n)
       THEN Plan(IF s.dryRun THEN acc.writes \o p.writes ELSE <<>>, "fatal")
  ELSE [acc EXCEPT !.writes = @ \o p.writes]

\* planSignature of every bundle, with the loop of prepareNestedForBundle.
planSignature(s) ==
  LET plan[b \in Bundles] ==
        LET PlanOf(n) == IF ~Needs(s, n) THEN Plan(<<>>, "none")
                         ELSE IF n \in Bundles THEN plan[n]
                         ELSE planHelper(s, b, n)
            nested == FoldLeft(LAMBDA acc, n : nestedStep(s, n, PlanOf(n), acc),
                               Plan(<<>>, "none"), Nested[b])
            seals  == {n \in NestedIn(b) : SealsNew(s, n)}
        IN IF b \in s.preflight THEN Plan(<<>>, "metadata")
           ELSE IF nested.err # "none" THEN nested
           ELSE IF b \in s.resources THEN Plan(nested.writes, "metadata")
           ELSE IF b \in s.signing THEN Plan(<<>>, "fatal")
           ELSE Plan(nested.writes \o <<ResourceWrite(b, seals),
                                        MachOWrite(b, b, "keep")>>, "none")
  IN plan

\* What an operation hands to applyBundleWrites, whether its own result is an
\* error whatever becomes of the writes, and the descriptors it holds.
Request(writes, dryRun, failure, held) ==
  [writes |-> writes, dryRun |-> dryRun, failure |-> failure, held |-> held]

\* signBundle: a plan that failed is applied only in a dry run or after a
\* metadata failure, and its error is returned in the end.
signBundle(s) ==
  LET p == planSignature(s)[Top]
      refused == ~s.force /\ Top \in s.signed
      applied == p.err = "none" \/ s.dryRun \/ p.err = "metadata"
  IN Request(IF refused \/ ~applied THEN <<>> ELSE p.writes, s.dryRun,
             refused \/ p.err # "none",
             IF refused THEN {Top} ELSE Nodes)

\* removeBundle of a Mach-O bundle touches the main executable alone.
removeBundle == Request(<<MachOWrite(Top, Top, "all")>>, FALSE, FALSE, {Top})
=============================================================================
