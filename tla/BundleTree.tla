---------------------------- MODULE BundleTree ----------------------------
(***************************************************************************)
(* The nested code of an application bundle, as scanTree finds it.          *)
(*                                                                          *)
(* A bundle stands for its main executable as well; a helper is a bare      *)
(* Mach-O file nested directly in a bundle.  Nested[b] lists what is nested *)
(* directly in b, in the sorted order of prepareNestedForBundle.            *)
(***************************************************************************)
EXTENDS Integers, Sequences, SequencesExt, FiniteSets

CONSTANTS Bundles, Helpers, Top, Nested

Nodes == Bundles \cup Helpers

ASSUME TreeAssumption ==
  /\ Bundles \cap Helpers = {}
  /\ Top \in Bundles
  /\ Nested \in [Bundles -> Seq(Nodes)]
  /\ \A b, c \in Bundles : Range(Nested[b]) \cap Range(Nested[c]) # {} => b = c

NestedIn(b) == {Nested[b][k] : k \in DOMAIN Nested[b]}

\* b.children: the nested bundles whose roots b owns.
Children(b) == NestedIn(b) \cap Bundles

\* Nothing nested in a member of S is missing from S.
ClosedBelow(S) == \A c \in S \cap Bundles : NestedIn(c) \subseteq S

\* Everything nested in b at any depth: the least such set.
Below ==
  [b \in Bundles |->
     {n \in Nodes : \A S \in SUBSET Nodes :
                      NestedIn(b) \subseteq S /\ ClosedBelow(S) => n \in S}]

\* A bundleWrite: the replacement of one executable, or the envelope of a
\* bundle.  An envelope seals the new bytes of the nodes in seals and the bytes
\* on disk of the bundle's other nested code.
MachOWrite(b, n, cleanup) ==
  [kind |-> "macho", bundle |-> b, node |-> n, cleanup |-> cleanup, seals |-> {}]

ResourceWrite(b, seals) ==
  [kind |-> "resource", bundle |-> b, node |-> b, cleanup |-> "none",
   seals |-> seals]

Cleanups == {"none", "keep", "all"}

Write == [kind : {"macho", "resource"}, bundle : Bundles, node : Nodes,
          cleanup : Cleanups, seals : SUBSET Nodes]
=============================================================================
