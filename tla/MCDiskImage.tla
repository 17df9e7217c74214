---------------------------- MODULE MCDiskImage ----------------------------
(* TLC instances of DiskImage: two operations on an image of three blocks.  *)
EXTENDS DiskImage, TLC

CONSTANTS s1, s2, image, other, earlier

TwoSigners == {s1, s2}
Symmetry == Permutations(TwoSigners)

Sign(force, length) == [force |-> force, dryRun |-> FALSE, length |-> length]
MixedJobs == {Sign(TRUE, 1), Sign(FALSE, 2), [force |-> TRUE, dryRun |-> TRUE, length |-> 1]}

Pages == <<Data(0), Data(0), Data(0)>>
Unsigned == Append(Pages, Koly(0, 0))

Ended(directory) ==
  LET signature == [by |-> earlier, directory |-> directory, length |-> 2] IN
  Pages \o <<Sig(signature, 1), Sig(signature, 2), Koly(3, 2)>>

ThreeStarts == {Unsigned, Ended(TRUE), Ended(FALSE)}
Foreign == <<Data(9), Data(9), Data(9), Koly(0, 0)>>
=============================================================================
