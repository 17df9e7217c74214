---------------------------- MODULE MCAttributes ----------------------------
(***************************************************************************)
(* Small instances of Sideband and GenericRemoval.  A behaviour is of one of  *)
(* the two, the policy on extended attributes or their removal, while the     *)
(* other stays where it starts.  The properties are those of the two.         *)
(***************************************************************************)
EXTENDS Sideband, GenericRemoval

VARIABLE part  \* "policy" or "removal": whose behaviour this is

---------------------------------------------------------------------------
(* Removal: a file and its substitute *)

FilesMC == {"app", "other"}
SlotsMC == <<"CodeDirectory", "CodeResources">>
PrefixedMC == {"CodeDirectory", "CodeResources", "extra"}
AttrsMC == PrefixedMC \cup {"CODEDIRECTORY", "quarantine"}
LowerMC == [n \in AttrsMC |-> IF n = "CODEDIRECTORY" THEN "CodeDirectory" ELSE n]
EntriesMC == {"CodeDirectory", "CodeResources", "stray"}

\* Every platform alone and in a bundle, with and without a carrier; code,
\* universal code and a disk image; universal headers that lead nowhere.
RemovalOf(b, p, c, h) == [bundle |-> b, platform |-> p, carrier |-> c, headers |-> h]
RemovalsMC ==
  {RemovalOf(b, p, c, <<"text">>) : b \in BOOLEAN, p \in {"darwin", "linux", "windows"},
                              c \in {"none", "fixed", "mutable"}}
  \cup {RemovalOf(b, "darwin", "none", h) : b \in BOOLEAN,
         h \in {<<"executable">>, <<"universal", "universal", "executable">>,
                <<"universal", "universal", "universal", "executable">>, <<"universal", "object">>,
                <<"universal64">>, <<"image">>}}

---------------------------------------------------------------------------
(* Policy: the object has a path and an alias *)

PathsMC == {"path", "alias", "elsewhere"}
ObjectOfMC == [p \in PathsMC |-> IF p = "elsewhere" THEN "other" ELSE "object"]

JobsMC ==
  {[signs |-> s, resource |-> r, strip |-> t, noStrict |-> n, mutable |-> m, supplied |-> p] :
     s \in BOOLEAN, r \in BOOLEAN, t \in BOOLEAN, n \in BOOLEAN, m \in BOOLEAN,
     p \in {{}, {"alias", "elsewhere"}, {"path", "alias"}}}

\* Verification has no options; without a carrier it need not be mutable.
JobsMC2 == {j \in JobsMC : /\ ~j.signs => ~j.strip /\ ~j.noStrict /\ ~j.mutable
                           /\ ~j.strip => ~j.mutable
                           /\ j.supplied # {"alias", "elsewhere"} => ~j.mutable /\ ~j.noStrict}

\* At most one query is refused or fails, or the view does not close.
Fine == [f \in Forks |-> "ok"]
HostsMC ==
  {[platform |-> p, inventory |-> i, denied |-> d, close |-> c] :
     p \in {"darwin", "linux", "windows"}, i \in {"ok", "EIO"},
     d \in {Fine} \cup {[Fine EXCEPT ![f] = e] : f \in Forks, e \in {"EPERM", "EIO"}},
     c \in {"ok", "EPERM"}}
HostsMC2 ==
  {h \in HostsMC : /\ h.close = "ok" \/ (h.inventory = "ok" /\ h.denied = Fine)
                   /\ h.inventory = "ok" \/ (h.platform = "linux" /\ h.denied = Fine)}

---------------------------------------------------------------------------

PolicyVars == vars

\* The other part stays in one of its initial states.
NoRemoval ==
  /\ removal = RemovalOf(FALSE, "linux", "none", <<"text">>)
  /\ native = [f \in Files |-> {"quarantine"}]
  /\ RemovalInit

NoPolicy ==
  /\ job = (CHOOSE j \in Jobs : TRUE) /\ host = (CHOOSE h \in Hosts : TRUE)
  /\ attr = [a \in Forks |-> "absent"] /\ carrier = {}
  /\ Init

MCInit ==
  \/ part = "policy" /\ Init /\ NoRemoval
  \/ part = "removal" /\ RemovalInit /\ NoPolicy

MCNext ==
  \/ part = "policy" /\ Next /\ UNCHANGED <<part, removalVars>>
  \/ part = "removal" /\ RemovalNext /\ UNCHANGED <<part, PolicyVars>>

MCSpec == MCInit /\ [][MCNext]_<<part, PolicyVars, removalVars>>
=============================================================================
