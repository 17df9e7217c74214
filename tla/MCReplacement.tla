--------------------------- MODULE MCReplacement ---------------------------
(* TLC instances of Replacement: two operations, on two names of one file.  *)
EXTENDS Replacement, TLC

CONSTANTS s1, s2, name, link, file

TwoSigners == {s1, s2}
Symmetry   == Permutations(TwoSigners)
OneSigner  == {s1}
TwoNames   == {name, link}
OneFile    == {file}

Sign(n, force, dryRun, strip) ==
  [name |-> n, remove |-> FALSE, force |-> force, dryRun |-> dryRun,
   strip |-> strip, noStrict |-> FALSE]
Remove(n) == [Sign(n, FALSE, FALSE, FALSE) EXCEPT !.remove = TRUE]
Lenient(n) == [Sign(n, TRUE, FALSE, FALSE) EXCEPT !.noStrict = TRUE]

MixedJobs == {Sign(name, TRUE, FALSE, TRUE), Sign(link, FALSE, FALSE, FALSE),
              Remove(name), Sign(name, TRUE, TRUE, TRUE), Lenient(name)}
OneJob    == {Sign(name, FALSE, FALSE, FALSE)}

TwoPages   == <<0, 0>>
=============================================================================
