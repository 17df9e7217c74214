----------------------------- MODULE Entitlements -----------------------------
(***************************************************************************)
(* Entitlements from the values that are signed to what is displayed.  DER is *)
(* a sequence of tokens: <<"head", tag, length>> before the contents, and one  *)
(* token <<"body", kind, v>> for the contents of a scalar; lengths count        *)
(* tokens.  Texts are numbers in their order; Nul is one that holds a NUL.       *)
(* The XML component is the value it was written from, or Garbage.              *)
(***************************************************************************)
EXTENDS Integers, Sequences, FiniteSets, SequencesExt

CONSTANTS
  MaxEncode,    \* nesting entitlementDER accepts
  MaxDepth,     \* maxBundlePlistDepth
  MaxValues,    \* maxBundlePlistValues
  Nul,
  Values        \* dictionaries that are given to the signer

VARIABLES
  values,       \* what was given
  comp,         \* components of the signature: xml, der
  hash,         \* what the primary directory has of them: xml, der
  alternate,    \* there is another CodeDirectory
  step, shown

vars == <<values, comp, hash, alternate, step, shown>>

Absent == <<"absent">>
Garbage == <<"garbage">>

---------------------------------------------------------------------------
(* entitlementDER *)

derWrap(tag, data) == <<<<"head", tag, Len(data)>>>> \o data
Scalar(kind, v) == derWrap(kind, <<<<"body", kind, v>>>>)
Unencodable == [ok |-> FALSE, out |-> <<>>]

Join(parts) ==
  IF \A k \in DOMAIN parts : parts[k].ok
  THEN [ok |-> TRUE, out |-> FlattenSeq([k \in DOMAIN parts |-> parts[k].out])] ELSE Unencodable

Wrapped(tag, r) == IF r.ok THEN [r EXCEPT !.out = derWrap(tag, @)] ELSE r

\* Mutant of Keys: the keys are in the order of the map.
KeysReversed(f) == Reverse(SetToSortSeq(DOMAIN f, LAMBDA a, b : a < b))

Keys(f) == SetToSortSeq(DOMAIN f, LAMBDA a, b : a < b)

RECURSIVE entitlementDER(_, _)
entitlementDER(v, depth) ==
  CASE depth > MaxEncode -> Unencodable
    [] depth <= MaxEncode /\ v[1] \in {"bool", "int", "text"} -> [ok |-> TRUE, out |-> Scalar(v[1], v[2])]
    [] depth <= MaxEncode /\ v[1] = "array" ->
         Wrapped("sequence", Join([k \in DOMAIN v[2] |-> entitlementDER(v[2][k], depth + 1)]))
    [] depth <= MaxEncode /\ v[1] = "dict" ->
         Wrapped("dictionary", Join([k \in DOMAIN Keys(v[2]) |->
           Wrapped("sequence", Join(<<[ok |-> TRUE, out |-> Scalar("text", Keys(v[2])[k])],
                                      entitlementDER(v[2][Keys(v[2])[k]], depth + 1)>>))]))
    [] OTHER -> Unencodable   \* data, dates, reals, and integers above 63 bits

Envelope(data) == derWrap("entitlements", Scalar("int", 1) \o data)

---------------------------------------------------------------------------
(* readEntitlementValue *)

\* The next value of some data: its tag, what is in it, and what follows it.
TLV(data) ==
  IF data # <<>> /\ data[1][1] = "head" /\ data[1][3] <= Len(data) - 1
  THEN [ok |-> TRUE, tag |-> data[1][2], inner |-> SubSeq(data, 2, 1 + data[1][3]),
        rest |-> SubSeq(data, 2 + data[1][3], Len(data))]
  ELSE [ok |-> FALSE, tag |-> "none", inner |-> <<>>, rest |-> <<>>]

Bad(count, why) == [error |-> why, v |-> Absent, rest |-> <<>>, count |-> count]
\* Mutant of Good: the values in a value are not counted with it.
GoodUncounted(count, v, rest) == [error |-> "none", v |-> v, rest |-> rest, count |-> 0]

Good(count, v, rest) == [error |-> "none", v |-> v, rest |-> rest, count |-> count]

RECURSIVE readEntitlementValue(_, _, _), readArray(_, _, _, _, _), readDict(_, _, _, _, _)

readArray(data, out, depth, count, rest) ==
  IF data = <<>> THEN Good(count, <<"array", out>>, rest)
  ELSE LET r == readEntitlementValue(data, depth + 1, count)
       IN IF r.error # "none" THEN r ELSE readArray(r.rest, Append(out, r.v), depth, r.count, rest)

\* Mutant of Ascending: equal keys are accepted.
AscendingLoose(m, key) == \A k \in DOMAIN m : k <= key

Ascending(m, key) == \A k \in DOMAIN m : k < key

readDict(data, m, depth, count, rest) ==
  LET pair == TLV(data)
      key == readEntitlementValue(pair.inner, depth + 1, count)
      child == readEntitlementValue(key.rest, depth + 1, key.count)
  IN CASE data = <<>> -> Good(count, <<"dict", m>>, rest)
       [] data # <<>> /\ (~pair.ok \/ pair.tag # "sequence") -> Bad(count, "format")
       [] OTHER ->
            IF key.error # "none" THEN key
            ELSE IF key.v[1] # "text" \/ ~Ascending(m, key.v[2]) THEN Bad(key.count, "format")
            ELSE IF child.error # "none" THEN child
            ELSE IF child.rest # <<>> THEN Bad(child.count, "format")
            ELSE readDict(pair.rest, [k \in DOMAIN m \cup {key.v[2]} |-> IF k = key.v[2] THEN child.v ELSE m[k]],
                          depth, child.count, rest)

readEntitlementValue(data, depth, before) ==
  LET t == TLV(data)
      count == before + 1
  IN CASE depth > MaxDepth \/ count > MaxValues -> Bad(count, "format")
       [] depth <= MaxDepth /\ count <= MaxValues /\ ~t.ok -> Bad(count, "format")
       [] OTHER ->
            CASE t.tag \in {"bool", "int", "text"} ->
                   IF Len(t.inner) = 1 /\ t.inner[1][1] = "body" /\ t.inner[1][2] = t.tag
                      /\ (t.tag = "text" => t.inner[1][3] # Nul)
                   THEN Good(count, <<t.tag, t.inner[1][3]>>, t.rest) ELSE Bad(count, "format")
              [] t.tag = "sequence" -> readArray(t.inner, <<>>, depth, count, t.rest)
              [] t.tag = "dictionary" -> readDict(t.inner, <<>>, depth, count, t.rest)
              [] OTHER -> Bad(count, "unsupported")

Show(kind, v) == [kind |-> kind, v |-> v]
Failed(why) == Show("error", <<why>>)

decodeEntitlementMetadata(data) ==
  LET outer == TLV(data)
      version == TLV(outer.inner)
      r == readEntitlementValue(version.rest, 0, 0)
  IN CASE ~outer.ok \/ outer.tag # "entitlements" \/ outer.rest # <<>> -> Failed("format")
       [] OTHER ->
            IF ~version.ok THEN Failed("format")
            ELSE IF version.tag # "int" \/ version.inner # <<<<"body", "int", 1>>>> THEN Failed("unsupported")
            ELSE IF r.error # "none" THEN Failed(r.error)
            ELSE IF r.rest # <<>> \/ r.v[1] # "dict" THEN Failed("format")
            ELSE Show("values", r.v)

---------------------------------------------------------------------------
(* The signature *)

\* signImageSource attaches both forms, or nothing when one cannot be made.
Sign ==
  /\ step = "sign"
  /\ LET r == entitlementDER(values, 0)
     IN IF r.ok
        THEN /\ comp' = [xml |-> values, der |-> Envelope(r.out)] /\ hash' = comp'
             /\ step' = "edit" /\ UNCHANGED shown
        ELSE step' = "done" /\ shown' = Failed("unsigned") /\ UNCHANGED <<comp, hash>>
  /\ UNCHANGED <<values, alternate>>

\* One change to some DER: a token left out, written twice, moved, or of another tag, length or text.
Damaged(d) ==
  {RemoveAt(d, k) : k \in DOMAIN d} \cup {InsertAt(d, k, d[k]) : k \in DOMAIN d}
  \cup {[d EXCEPT ![k] = d[k + 1], ![k + 1] = d[k]] : k \in 1..Len(d) - 1}
  \cup {[d EXCEPT ![k] = <<"head", t, d[k][3]>>] :
          k \in {j \in DOMAIN d : d[j][1] = "head"}, t \in {"text", "sequence", "dictionary", "real"}}
  \cup {[d EXCEPT ![k] = <<"head", d[k][2], d[k][3] + n>>] :
          k \in {j \in DOMAIN d : d[j][1] = "head"}, n \in {-1, 1}}
  \cup {[d EXCEPT ![k] = <<"body", "text", t>>] : k \in {j \in DOMAIN d : d[j][1] = "body"}, t \in {1, 2}}

Sane(d) == \A k \in DOMAIN d : d[k][1] = "head" => d[k][3] >= 0

\* Another signer, or an editor: the directory is made again or it is not.
Edit ==
  /\ step = "edit"
  /\ \/ \E d \in {x \in Damaged(comp.der) : Sane(x)} : comp' = [comp EXCEPT !.der = d]
     \/ \E part \in {"xml", "der"} : comp' = [comp EXCEPT ![part] = Absent]
     \/ \E x \in {Garbage, <<"dict", <<>>>>} : comp' = [comp EXCEPT !.xml = x]
  /\ \E part \in SUBSET {"xml", "der"} : hash' = [p \in {"xml", "der"} |-> IF p \in part THEN comp'[p] ELSE hash[p]]
  /\ alternate' \in BOOLEAN
  /\ step' = "inspect"
  /\ UNCHANGED <<values, shown>>

\* Mutant of Bound: XML is shown although the directory has a hash of DER.
BoundAny(part) == hash[part] # Absent /\ hash[part] = comp[part]

\* The checks of a component against the directory: its own hash, and, when it is the XML,
\* that the directory knows of no DER.
Bound(part) ==
  hash[part] # Absent /\ hash[part] = comp[part] /\ (part = "xml" => hash.der = Absent)

\* A bound DER that is malformed is not an error but nothing to show.
FromDER ==
  LET m == decodeEntitlementMetadata(comp.der)
  IN IF m = Failed("format") THEN Show("unreadable", Absent) ELSE m

FromXML ==
  LET r == entitlementDER(comp.xml, 0)
  IN IF comp.xml = Garbage THEN Failed("format")
     ELSE IF ~r.ok THEN Failed("unencodable") ELSE decodeEntitlementMetadata(Envelope(r.out))

InspectEntitlements ==
  /\ step \in {"edit", "inspect"}
  /\ shown' =
       LET part == IF comp.der # Absent THEN "der" ELSE "xml"
       IN IF comp[part] = Absent THEN Show("nothing", Absent)
          ELSE IF alternate THEN Failed("unsupported")
          ELSE IF ~Bound(part) THEN Failed("invalid")
          ELSE IF part = "der" THEN FromDER ELSE FromXML
  /\ step' = "done"
  /\ UNCHANGED <<values, comp, hash, alternate>>

Done == step = "done" /\ UNCHANGED vars

Init ==
  /\ values \in Values
  /\ comp = [xml |-> Absent, der |-> Absent] /\ hash = comp /\ alternate = FALSE
  /\ step = "sign" /\ shown = Show("nothing", Absent)

Next == Sign \/ Edit \/ InspectEntitlements \/ Done
Spec == Init /\ [][Next]_vars

---------------------------------------------------------------------------

RECURSIVE Depth(_), Count(_), HasNul(_)
Parts(v) == IF v[1] = "array" THEN {v[2][k] : k \in DOMAIN v[2]} ELSE IF v[1] = "dict" THEN {v[2][k] : k \in DOMAIN v[2]} ELSE {}
Depth(v) ==
  LET inner == {Depth(p) : p \in Parts(v)} \cup {IF v[1] = "dict" /\ v[2] # <<>> THEN 0 ELSE -1}
  IN 1 + (CHOOSE m \in inner : \A n \in inner : n <= m)
Count(v) ==
  1 + IF v[1] \in {"array", "dict"}
      THEN FoldSet(LAMBDA k, n : n + Count(v[2][k]) + (IF v[1] = "dict" THEN 1 ELSE 0), 0, DOMAIN v[2]) ELSE 0
HasNul(v) ==
  v = <<"text", Nul>> \/ (v[1] = "dict" /\ Nul \in DOMAIN v[2]) \/ \E p \in Parts(v) : HasNul(p)

\* Type invariant.
TypeOK ==
  /\ step \in {"sign", "edit", "inspect", "done"} /\ alternate \in BOOLEAN
  /\ shown.kind \in {"nothing", "error", "values", "unreadable"}
  /\ shown.kind = "values" => shown.v[1] = "dict" /\ Depth(shown.v) <= MaxDepth /\ Count(shown.v) <= MaxValues

\* Entitlements that were signed and left alone are displayed as they were given, when they are
\* within the reader's limits and hold no NUL (entitlements.go:37-112, entitlement_metadata.go:30-221).
SignedIsShown ==
  step = "done" /\ hash = comp /\ comp.xml = values /\ ~alternate /\ comp.der = Envelope(entitlementDER(values, 0).out) =>
    shown = IF Depth(values) <= MaxDepth /\ Count(values) <= MaxValues /\ ~HasNul(values)
            THEN Show("values", values) ELSE Show("unreadable", Absent)

\* What is read from DER has one encoding, the one entitlementDER makes: keys ascend, nothing
\* trails, lengths fit (entitlement_metadata.go:110-213).
OneEncoding ==
  shown.kind = "values" /\ comp.der # Absent => comp.der = Envelope(entitlementDER(shown.v, 0).out)

\* What is displayed is bound by the primary directory, and XML never stands in for a DER
\* component that the directory has a hash of (entitlement_metadata.go:47-76).
NoSubstitution ==
  shown.kind \in {"values", "unreadable"} =>
    /\ ~alternate
    /\ hash.der = comp.der
    /\ comp.der = Absent => hash.xml = comp.xml /\ shown.v = comp.xml
=============================================================================
