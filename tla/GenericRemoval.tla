--------------------------- MODULE GenericRemoval ---------------------------
(***************************************************************************)
(* Removing the signature of a file that is not Mach-O, alone or as the     *)
(* main executable of a bundle: Remove and removeBundle, their classifier,  *)
(* removeGenericSignatureBeforeFlush, RemoveSignatureBeforeFlush,           *)
(* removeSignatureComponents and the purge.  The seal is in attributes of   *)
(* the file, in an AppleDouble carrier that the caller supplied, and in the *)
(* _CodeSignature directory.  Nothing is undone when a call fails.  Other   *)
(* programs change attributes, entries and the file that has the name.      *)
(***************************************************************************)
EXTENDS Integers, Sequences, FiniteSets, SequencesExt

CONSTANTS
  Files,       \* what the name may refer to: the first one and a substitute
  Original,    \* the file it refers to at the start
  Slots,       \* signatureSlots, in order
  Attrs,       \* names of attributes
  Lower,       \* Lower[n]: the name with its case folded
  Prefixed,    \* names that start with com.apple.cs.
  Entries,     \* names of files in _CodeSignature; slots are components
  Removals,    \* the kinds of object and options an operation may be given
  MaxInterference  \* bound: steps of other programs

\* The prefix com.apple.cs. is in lower case; no two slots differ in case only.
ASSUME RemovalAssumption ==
  /\ Original \in Files
  /\ IsFiniteSet(Attrs) /\ IsFiniteSet(Entries)
  /\ Lower \in [Attrs -> Attrs] /\ \A n \in Attrs : Lower[Lower[n]] = Lower[n]
  /\ Prefixed \subseteq Attrs /\ \A n \in Prefixed : Lower[n] \in Prefixed
  /\ Slots \in Seq(Prefixed \cap Entries)
  /\ \A i, j \in DOMAIN Slots : Lower[Slots[i]] = Lower[Slots[j]] => i = j
  /\ Removals \subseteq [bundle : BOOLEAN, platform : {"darwin", "linux", "windows"},
                     carrier : {"none", "fixed", "mutable"}, headers : Seq(STRING)]
  /\ MaxInterference \in Nat

VARIABLES
  removal,   \* platform, object and options
  stage,     \* the loop or call in progress
  store,     \* what RemoveSignatureBeforeFlush works on: "native" or "carrier"
  todo,      \* names that the loop in progress has still to remove
  entry,     \* the file that the name refers to
  file,      \* the file that was classified
  out,       \* the file that was opened for writing
  native,    \* native[f]: attributes of file f
  inventory, \* Linux: the names listed before anything is removed
  records,   \* names of the carrier's records, with duplicates
  envelope,  \* envelope[e]: what _CodeSignature has under name e
  start,     \* history: native, records and envelope at the start
  foreign,   \* history: attributes and entries that other programs changed
  interference \* steps of other programs so far

control == <<removal, stage, store, todo>>
objects == <<native, records, envelope>>
ghosts == <<start, foreign, interference>>
handles == <<file, out>>
removalVars == <<control, entry, handles, inventory, objects, ghosts>>

\* On Windows names of attributes differ in more than their case.
Fold(n) == IF removal.platform = "windows" THEN Lower[n] ELSE n

\* strings.HasPrefix(match, signaturePrefix), folded for native Windows names.
InNamespace(n, on) == (IF on = "native" THEN Fold(n) ELSE n) \in Prefixed

\* The hook of removeBundle runs in the last store that is processed.
HasHook(on) == removal.bundle /\ (on = "carrier" \/ removal.carrier = "none")

\* Those of a sequence that are in a set, in their order.
Only(s, S) ==
  LET only[i \in 0..Len(s)] ==
        IF i = 0 THEN <<>> ELSE IF s[i] \in S THEN Append(only[i - 1], s[i]) ELSE only[i - 1]
  IN only[Len(s)]

Proceed(label) == stage' = label /\ UNCHANGED <<removal, store>>

---------------------------------------------------------------------------
(* Classification *)

\* The headers that genericRemovalReader looks at: two universal headers at
\* most lead to another one.
Headers(h) == {i \in 1..Len(h) : i <= 3 /\ \A j \in 1..i - 1 : h[j] = "universal"}

\* Executable code anywhere there has a format of its own.
IsCode(h) == \E i \in Headers(h) : h[i] \in {"executable", "universal64"}

\* Encrypted and ordinary disk images and dyld caches are refused.
Specialized(h) == h[1] \in {"encrypted", "dyld", "image"}

Open ==
  /\ stage = "open"
  /\ file' = entry
  /\ Proceed("classify")
  /\ UNCHANGED <<todo, entry, out, inventory, objects, ghosts>>

genericRemovalCandidate ==
  /\ stage = "classify"
  /\ ~IsCode(removal.headers) /\ ~Specialized(removal.headers)
  /\ Proceed("reopen")
  /\ UNCHANGED <<todo, entry, handles, inventory, objects, ghosts>>

\* Mutant of Reopen: the writable handle is not compared.
ReopenAny ==
  /\ stage = "reopen"
  /\ out' = entry
  /\ todo' = Slots
  /\ Proceed(IF removal.platform = "linux" THEN "inventory" ELSE "slots")
  /\ UNCHANGED <<entry, file, inventory, objects, ghosts>>

\* The file is opened by name again, for writing, and must be the same one.
Reopen ==
  /\ stage = "reopen"
  /\ entry = file
  /\ out' = entry
  /\ todo' = Slots
  /\ Proceed(IF removal.platform = "linux" THEN "inventory" ELSE "slots")
  /\ UNCHANGED <<entry, file, inventory, objects, ghosts>>

---------------------------------------------------------------------------
(* RemoveSignatureBeforeFlush *)

\* Linux: absence is established once; names not listed here are not touched.
Inventory ==
  /\ stage = "inventory"
  /\ inventory' = native[out]
  /\ Proceed("slots")
  /\ UNCHANGED <<todo, entry, handles, objects, ghosts>>

\* The remove callbacks: an absent name is no error; a carrier that is not
\* mutable is one only when a name must go.
RemoveAttribute(n) ==
  IF store = "native"
  THEN /\ native' = [native EXCEPT ![out] =
                       IF removal.platform = "linux" /\ n \notin inventory THEN @
                       ELSE {a \in @ : Fold(a) # Fold(n)}]
       /\ UNCHANGED records
  ELSE /\ n \in Range(records) => removal.carrier = "mutable"
       /\ records' = Only(records, Attrs \ {n})
       /\ UNCHANGED native

\* One round of the loop over the slots or over the names that were listed.
RemoveNext ==
  /\ stage \in {"slots", "flush"} /\ todo # <<>>
  /\ RemoveAttribute(Head(todo))
  /\ todo' = SubSeq(todo, 2, Len(todo))
  /\ UNCHANGED <<removal, stage, store, entry, handles, inventory, envelope, ghosts>>

\* Mutant of EndSlots: components are left to the purge.
SkipHook ==
  /\ stage = "slots" /\ todo = <<>>
  /\ Proceed("list")
  /\ UNCHANGED <<todo, entry, handles, inventory, objects, ghosts>>

EndSlots ==
  /\ stage = "slots" /\ todo = <<>>
  /\ IF HasHook(store) THEN Proceed("hook") /\ todo' = Slots
                       ELSE Proceed("list") /\ UNCHANGED todo
  /\ UNCHANGED <<entry, handles, inventory, objects, ghosts>>

\* removeSignatureComponents: a directory under a component's name is refused.
RemoveComponent ==
  /\ stage = "hook" /\ todo # <<>>
  /\ envelope[Head(todo)] # "directory"
  /\ envelope' = [envelope EXCEPT ![Head(todo)] = "absent"]
  /\ todo' = SubSeq(todo, 2, Len(todo))
  /\ UNCHANGED <<removal, stage, store, entry, handles, inventory, native, records, ghosts>>

EndHook ==
  /\ stage = "hook" /\ todo = <<>>
  /\ Proceed("list")
  /\ UNCHANGED <<todo, entry, handles, inventory, objects, ghosts>>

\* Mutant of Listings: every attribute goes.
ListingsAll(on) == IF on = "native" THEN SetToSeqs(native[out]) ELSE {records}

\* The rest of the namespace, as the file system orders it or as in the carrier.
Listings(on) ==
  IF on = "native" THEN SetToSeqs({n \in native[out] : InNamespace(n, on)})
                   ELSE {Only(records, {n \in Attrs : InNamespace(n, on)})}

ListNames ==
  /\ stage = "list"
  /\ todo' \in Listings(store)
  /\ Proceed("flush")
  /\ UNCHANGED <<entry, handles, inventory, objects, ghosts>>

\* Mutant of EndFlush: the carrier is forgotten.
EndNative ==
  /\ stage = "flush" /\ todo = <<>>
  /\ Proceed(IF removal.bundle THEN "purge" ELSE "done")
  /\ UNCHANGED <<todo, entry, handles, inventory, objects, ghosts>>

\* After the file its carrier, after that the purge of a bundle.
EndFlush ==
  /\ stage = "flush" /\ todo = <<>>
  /\ IF store = "native" /\ removal.carrier # "none"
     THEN /\ store' = "carrier" /\ stage' = "slots" /\ todo' = Slots
          /\ UNCHANGED removal
     ELSE /\ Proceed(IF removal.bundle THEN "purge" ELSE "done")
          /\ UNCHANGED todo
  /\ UNCHANGED <<entry, handles, inventory, objects, ghosts>>

---------------------------------------------------------------------------
(* purgeSignatureFiles *)

BeginPurge ==
  /\ stage = "purge"
  /\ todo' \in SetToSeqs({e \in Entries : envelope[e] # "absent"})
  /\ Proceed("purging")
  /\ UNCHANGED <<entry, handles, inventory, objects, ghosts>>

\* An entry that is gone, or is not a regular file, ends the purge.
PurgeNext ==
  /\ stage = "purging" /\ todo # <<>>
  /\ envelope[Head(todo)] = "file"
  /\ envelope' = [envelope EXCEPT ![Head(todo)] = "absent"]
  /\ todo' = SubSeq(todo, 2, Len(todo))
  /\ UNCHANGED <<removal, stage, store, entry, handles, inventory, native, records, ghosts>>

EndPurge ==
  /\ stage = "purging" /\ todo = <<>>
  /\ Proceed("done")
  /\ UNCHANGED <<todo, entry, handles, inventory, objects, ghosts>>

\* A refusal, a call that fails or a cancellation.
FailRemoval ==
  /\ stage \notin {"done", "failed"}
  /\ Proceed("failed")
  /\ UNCHANGED <<todo, entry, handles, inventory, objects, ghosts>>

---------------------------------------------------------------------------
(* Other programs *)

Interfere ==
  /\ interference < MaxInterference
  /\ interference' = interference + 1
  /\ UNCHANGED <<control, inventory, handles, start>>

\* What a file may have: Linux has no names without a namespace of its own, and
\* Windows no two that differ in case.
Possible(S) ==
  /\ removal.platform = "linux" => S \cap Prefixed = {}
  /\ removal.platform = "windows" => \A m, n \in S : Lower[m] = Lower[n] => m = n

Tag(f, n) ==
  /\ Interfere
  /\ n \notin native[f] /\ Possible(native[f] \cup {n})
  /\ native' = [native EXCEPT ![f] = @ \cup {n}]
  /\ foreign' = foreign \cup {n}
  /\ UNCHANGED <<entry, records, envelope>>

Untag(f, n) ==
  /\ Interfere
  /\ n \in native[f]
  /\ native' = [native EXCEPT ![f] = @ \ {n}]
  /\ foreign' = foreign \cup {n}
  /\ UNCHANGED <<entry, records, envelope>>

Plant(e, kind) ==
  /\ Interfere
  /\ removal.bundle /\ envelope[e] # kind
  /\ envelope' = [envelope EXCEPT ![e] = kind]
  /\ foreign' = foreign \cup {e}
  /\ UNCHANGED <<entry, native, records>>

Replace(f) ==
  /\ Interfere
  /\ entry # f
  /\ entry' = f
  /\ UNCHANGED <<objects, foreign>>

---------------------------------------------------------------------------

\* What a substitute has: as much as is possible.
Usual == {n \in Attrs : Lower[n] = n /\ (removal.platform = "linux" => n \notin Prefixed)}

RemovalInit ==
  /\ removal \in Removals
  /\ stage = "open" /\ store = "native" /\ todo = <<>>
  /\ entry = Original /\ file = Original /\ out = Original
  /\ native \in [Files -> {S \in SUBSET Attrs : Possible(S)}]
  /\ \A f \in Files \ {Original} : native[f] = Usual
  /\ inventory = {}
  /\ records \in IF removal.carrier = "none" THEN {<<>>}
                 ELSE {SetToSeq(Attrs), SetToSeq(Attrs) \o SetToSeq(Prefixed), <<>>}
  /\ envelope \in IF removal.bundle THEN {[e \in Entries |-> "file"], [e \in Entries |-> "absent"]}
                  ELSE {[e \in Entries |-> "absent"]}
  /\ start = [native |-> native, records |-> records, envelope |-> envelope]
  /\ foreign = {} /\ interference = 0

Removing ==
  \/ Open \/ genericRemovalCandidate \/ Reopen \/ Inventory \/ RemoveNext
  \/ EndSlots \/ RemoveComponent \/ EndHook \/ ListNames \/ EndFlush
  \/ BeginPurge \/ PurgeNext \/ EndPurge \/ FailRemoval

OtherPrograms ==
  \/ \E f \in Files, n \in Attrs : Tag(f, n) \/ Untag(f, n)
  \/ \E e \in Entries, kind \in {"file", "directory"} : Plant(e, kind)
  \/ \E f \in Files : Replace(f)

RemovalNext == Removing \/ OtherPrograms

RemovalSpec == RemovalInit /\ [][RemovalNext]_removalVars

---------------------------------------------------------------------------
(* Properties *)

\* What is left of a seal, but for what other programs changed.
Attached == {n \in native[file] : InNamespace(n, "native")} \ foreign
Carried == Range(records) \cap Prefixed
Stored == {e \in Entries : envelope[e] # "absent"} \ foreign

\* "Removes a generic file's attached signature": after a success nothing of
\* the namespace is left in the file, in the carrier or in the directory.
SuccessRemovesSeal ==
  stage = "done" => Attached = {} /\ Carried = {} /\ Stored = {}

\* Disk images, and code that at most two universal headers lead to.
Foreign(h) ==
  \/ h[1] \in {"encrypted", "dyld", "image"}
  \/ \E i \in 1..Len(h) : i <= 3 /\ h[i] = "executable" /\ \A j \in 1..i - 1 : h[j] = "universal"

\* "Without changing its data fork or identity": the operation changes only the
\* file that was classified, never the contents of another one that got its
\* name, and takes only names of a signature, from a file that is not code.
OnlySealRemoved ==
  [][interference' = interference =>
       /\ \A f \in Files \ {file} : native'[f] = native[f]
       /\ \A n \in native[file] \ native'[file] : InNamespace(n, "native")
       /\ \A n \in Range(records) \ Range(records') : n \in Prefixed
       /\ objects' # objects => ~Foreign(removal.headers)]_removalVars

\* The names that are a slot's, in any case where that does not matter.
Named(i) == {n \in Attrs : Fold(n) = Fold(Slots[i])}
SlotNames == UNION {Named(i) : i \in DOMAIN Slots}
Removed == (start.native[file] \ native[file]) \ foreign
Components == Range(Slots) \cap Stored

\* What a failure leaves: "canonical slots first, then all remaining names in
\* its namespace", components of a bundle between the two, native metadata
\* before the carrier, and the other files of the directory last.  No failure
\* leaves the file with a later part removed and an earlier part in place.
RemovalOrder ==
  /\ \A i \in DOMAIN Slots, j \in DOMAIN Slots :
       j < i /\ Named(i) \cap Removed # {} => Named(j) \cap Attached = {}
  /\ Removed \ SlotNames # {} =>
       SlotNames \cap Attached = {} /\ (HasHook("native") => Components = {})
  /\ records # start.records => Attached = {}
  /\ Range(start.records) \ Range(records) \subseteq Range(Slots) \/ (removal.bundle => Components = {})
  /\ (\E e \in Entries \ Range(Slots) : e \notin foreign /\ envelope[e] # start.envelope[e])
       => Attached = {} /\ Carried = {}

RemovalStages == {"open", "classify", "reopen", "inventory", "slots", "hook", "list", "flush",
           "purge", "purging", "done", "failed"}

\* The type of every constant and variable; a flush has names of the namespace to
\* remove.
RemovalTypeOK ==
  /\ removal \in Removals /\ stage \in RemovalStages /\ store \in {"native", "carrier"}
  /\ todo \in Seq(Attrs \cup Entries)
  /\ stage = "flush" => \A n \in Range(todo) : InNamespace(n, store)
  /\ entry \in Files /\ file \in Files /\ out \in Files
  /\ native \in [Files -> SUBSET Attrs] /\ inventory \subseteq Attrs
  /\ records \in Seq(Attrs)
  /\ envelope \in [Entries -> {"absent", "file", "directory"}]
  /\ foreign \subseteq Attrs \cup Entries /\ interference \in 0..MaxInterference

\* Generic removal that succeeds leaves no signature attribute, and one that
\* fails has removed a prefix of the order of removeGenericSignature.
SealIsRemoved == RemovalTypeOK /\ SuccessRemovesSeal /\ RemovalOrder
=============================================================================
