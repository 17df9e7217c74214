------------------------ MODULE BundleVerification ------------------------
(***************************************************************************)
(* Verification of a tree of signed code: the walk over the resources of a    *)
(* bundle, and in the deep one over those of the bundles in it.               *)
(***************************************************************************)
EXTENDS SignedBundle

CONSTANT Order   \* all names of files and code, sorted

(* Options are the architecture, deep and ignored resources *)

Options == [arch : {""} \cup Arch, deep : BOOLEAN, ignore : BOOLEAN]

RECURSIVE verifyBundleResources(_, _)

\* The resources of code in a bundle, which only the deep verification looks at.
nestedResources(k, deep) == IF deep /\ k \in Bundles THEN verifyBundleResources(k, deep) ELSE Nothing

\* resourceFailures.collect: local failures are collected, any other ends the walk.
collect(all, f) ==
  IF all.failure # "" THEN all
  ELSE IF f.failure # "" THEN f
  ELSE [all EXCEPT !.added = @ \cup f.added, !.missing = @ \cup f.missing, !.modified = @ \cup f.modified]

\* What is there is walked first, then what is only in the envelope.
Walk(c) ==
  LET there(n) == IF n \in Names THEN disk[c].files[n] # "absent" ELSE disk[n].present
      mine == SelectSeq(Order, LAMBDA n : n \in Names \cup Children[c])
  IN SelectSeq(mine, there) \o SelectSeq(mine, LAMBDA n : ~there(n))

verifyBundleResources(c, deep) ==
  FoldLeft(LAMBDA all, n : collect(all, verifyResource(c, n, disk[c].env[1], deep, nestedResources(n, deep))), Nothing, Walk(c))

verifyBundle(c, arch, deep, ignore) ==
  LET code == verifyInput(c, arch, FALSE, ignore)
  IN IF code # "" THEN Fails(code, "") ELSE IF ignore THEN Nothing ELSE verifyBundleResources(c, deep)

verify(o) == verifyBundle(Top, o.arch, o.deep, o.ignore)

---------------------------------------------------------------------------
(* Properties *)

RECURSIVE ResourcesKept(_, _)
ResourcesKept(c, deep) ==
  /\ AddedTo(c) \cup MissingFrom(c) \cup Replaced(c) = {}
  /\ \A k \in Present(disk, c) : CodeKept(k, Arch, ~deep, FALSE) /\ (deep /\ k \in Bundles => ResourcesKept(k, deep))

Kept(o) ==
  /\ CodeKept(Top, IF o.arch = "" THEN Arch ELSE {o.arch}, FALSE, o.ignore)
  /\ o.ignore \/ ResourcesKept(Top, o.deep)

\* A bundle verifies exactly when it is as it was signed: everything in it, in all
\* architectures of the code in it; without deep, of that code its directory alone;
\* and when resources are ignored, only its own code
\* (verify.go:150-387, bundle_resources.go:134-187, bundle_tree.go:238-261).
ValidIffKept == \A o \in Options : verify(o) = Nothing <=> Kept(o)

\* A list of failed resources is complete, and has nothing else: one failure does not
\* hide another, and a re-signed child is listed as modified
\* (resource_verification.go:31-62, bundle_nested.go:270-287).
ReportIsExact ==
  \A o \in Options :
    LET r == verify(o)
    IN r.failure = "" /\ ~o.ignore =>
         r.added = AddedTo(Top) /\ r.missing = MissingFrom(Top) /\ r.modified = Replaced(Top)

\* Code that is named by a failure is there and is itself not as it was signed; and a
\* failure that names none is of the code of the bundle
\* (bundle_nested.go:270-287, verify.go:173-177).
FailureNamesDamage ==
  \A o \in Options :
    LET r == verify(o)
    IN r.failure # "" =>
         IF r.at = "" THEN ~CodeKept(Top, IF o.arch = "" THEN Arch ELSE {o.arch}, FALSE, o.ignore)
         ELSE disk[r.at].present /\ ~(CodeKept(r.at, Arch, ~o.deep, FALSE) /\ ResourcesKept(r.at, o.deep))
=============================================================================
