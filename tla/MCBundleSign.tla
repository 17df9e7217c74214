--------------------------- MODULE MCBundleSign ---------------------------
(* TLC instances of BundleCommit for the requests that BundlePlan derives   *)
(* from every combination of options, existing signatures and one failure.  *)
EXTENDS BundlePlan, BundleCommit, TLC

CONSTANTS app, framework, tool, helper, sibling

TreeBundles == {app, framework, tool}
TreeHelpers == {helper, sibling}
TreeNested  == [b \in TreeBundles |->
                  CASE b = app -> <<framework, sibling>>
                    [] b = framework -> <<helper, tool>>
                    [] OTHER -> <<>>]

EntryOrder == <<"CodeDirectory", "link", "CodeResources", "CodeSignature">>

\* No failure of the plan, or one.
Failures ==
  {f \in [preflight : SUBSET TreeBundles, resources : SUBSET TreeBundles,
          helpers : SUBSET TreeHelpers,
          signing : SUBSET (TreeBundles \cup TreeHelpers)] :
     Cardinality(f.preflight) + Cardinality(f.resources)
       + Cardinality(f.helpers) + Cardinality(f.signing) <= 1}

Options == [deep : BOOLEAN, force : BOOLEAN, dryRun : BOOLEAN,
            signed : SUBSET (TreeBundles \cup TreeHelpers)]

Scenarios == {s \in {o @@ f : o \in Options, f \in Failures} : Reachable(s)}

SignRequests == {signBundle(s) : s \in Scenarios}
AllRequests == SignRequests \cup {removeBundle}
=============================================================================
