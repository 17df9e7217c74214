----------------------------- MODULE MCLanguages -----------------------------
(***************************************************************************)
(* Small instances of Requirements and Entitlements: the languages of what a     *)
(* signature says.  A behaviour is of one of the two.                           *)
(***************************************************************************)
EXTENDS Requirements, TLC

CONSTANTS
  MaxEncode, EntitlementDepth, EntitlementValues, Nul, Values

VARIABLES
  part,       \* "requirement" or "entitlements"
  values, comp, hashes, alternate, step, shown

Rights == INSTANCE Entitlements WITH MaxDepth <- EntitlementDepth, MaxValues <- EntitlementValues, hash <- hashes

---------------------------------------------------------------------------
(* Requirements: every boolean text of up to five tokens, every predicate with  *)
(* each of its tokens replaced, chains and nests at the limits, words of every  *)
(* small node with each of them replaced, sets of up to three assignments, and  *)
(* compiled sets whose blobs are out of order or overlap.                      *)

Boolean5 == UNION {[1..n -> {"always", "never", "!", "(", ")", "and", "or"}] : n \in 1..5}

Predicates ==
  {<<"identifier", "A">>, <<"identifier", "qand">>, <<"identifier", "hxbin">>, <<"identifier", "qlong">>, <<"identifier", "qline">>,
   <<"cdhash", "H", "qhash">>, <<"anchor", "apple", "generic">>, <<"certificate", "leaf", "=", "H", "qhash">>,
   <<"certificate", "n1", "=", "H", "qhash">>, <<"certificate", "root", "[", "subject.CN", "]", "=", "A">>,
   <<"certificate", "n3", "[", "field.wwdr", "]">>, <<"certificate", "n0", "[", "field.wwdr", "]", "exists">>}

Alphabet == {"qA", "B", "qempty", "qline", Unterminated, "hxA", "qhash", "n31", "n32", "root", "leaf", "=", "H", "[", "]", "subject.O",
             "field.wwdr", "and", ";", "generic", "certificate"}

Replaced == UNION {{[p EXCEPT ![i] = tok] : i \in DOMAIN p, tok \in Alphabet} : p \in Predicates}
Followed == {p \o <<tok>> : p \in Predicates, tok \in Alphabet}
            \cup {p \o <<op, "!">> \o q : p \in Predicates, q \in Predicates, op \in {"and", "or"}}

Repeat(s, n) == FoldLeft(LAMBDA all, k : all \o s, <<>>, [k \in 1..n |-> k])
Limits ==
  {Repeat(<<"!">>, n) \o <<"always">> : n \in 3..9}
  \cup {Repeat(<<"(">>, n) \o <<"always">> \o Repeat(<<")">>, n) : n \in 1..5}
  \cup {Repeat(<<"always", op>>, n) \o <<"never">> : n \in 1..12, op \in {"and", "or"}}
  \cup {Repeat(<<"always", "and", "never", "or">>, n) \o <<"always">> : n \in 1..6}

Assigned3 == {<<"always">>, <<"!", "never">>, <<"never", ";">>}
KindTokens == {"host", "designated", "n1", "n3", "n9"}
SetTexts ==
  UNION {{FoldLeft(LAMBDA all, i : all \o <<ks[i], "=>">> \o es[i], <<>>, [i \in 1..n |-> i]) :
            ks \in [1..n -> KindTokens], es \in [1..n -> Assigned3]} : n \in 1..2}
  \cup {<<a, "=>", "always", b, "=>", "never", c, "=>", "!", "always">> : a, b, c \in KindTokens}
  \cup {Repeat(<<"host", "=>", "never">>, n) : n \in 3..5} \cup {<<"host", "=", "always">>, <<"host", "=>">>, <<"host", "=>", "always", "A", "=>", "never">>}

MCTexts == Boolean5 \cup Predicates \cup Replaced \cup Followed \cup Limits \cup SetTexts

Leaves == {Node(1), Leaf(2, 0, "", "A"), Leaf(4, -1, "", "hash")}
AllLeaves == Leaves \cup {Node(0), Node(15), Leaf(2, 0, "", "and"), Leaf(2, 0, "", "bin"), Leaf(2, 0, "", "long"), Leaf(2, 0, "", "line"),
                          Leaf(8, 0, "", "hash"), Leaf(4, 1, "", "hash"), Leaf(11, 0, "subject.CN", "A"), Leaf(14, -1, "field.wwdr", "")}
Up(t, leaves) == leaves \cup {Not(n) : n \in t} \cup {Binary(op, l, r) : op \in {6, 7}, l, r \in t}
Nodes == Up(Up(Leaves, Leaves), Leaves) \cup Up(AllLeaves, AllLeaves)

RECURSIVE Negated(_)
Negated(n) == IF n = 0 THEN Node(1) ELSE Not(Negated(n - 1))
RECURSIVE RightNested(_)
RightNested(n) == IF n = 0 THEN Node(1) ELSE Binary(6 + (n % 2), Node(0), RightNested(n - 1))

SomeWords == {Word(0), Word(1), Word(-1), Word(9), Word(14), Word(32), String("A"), String("hash"), String("subject.CN")}
Small == Up(AllLeaves, AllLeaves)

\* The same words with other octets where a string, of a length that is no multiple of
\* four, is padded.
Unpadded == {"", "hash", "other", "root"}
Padded(words) == [i \in DOMAIN words |-> IF words[i][1] = "string" /\ words[i][2] \notin Unpadded THEN <<"string", words[i][2], "other">> ELSE words[i]]
MCWords ==
  {encode(n) : n \in Nodes \cup {Negated(k) : k \in 5..9} \cup {RightNested(k) : k \in 3..9}}
  \cup UNION {{[encode(n) EXCEPT ![i] = w] : i \in DOMAIN encode(n), w \in SomeWords} : n \in AllLeaves \cup {Not(l) : l \in AllLeaves}}
  \cup {Padded(encode(n)) : n \in Small}
  \cup {Append(encode(n), Word(1)) : n \in Small} \cup {SubSeq(encode(n), 1, Len(encode(n)) - 1) : n \in Small}

At2(kind, start, length, words) == [kind |-> kind, start |-> start, length |-> length, words |-> words]
Good == <<Word(1)>>
Bad == <<Word(9)>>
MCBlobs ==
  {[header |-> 7, size |-> 20, index |-> [i \in 1..2 |-> At2(k[i], s[i], 4, w[i])]] :
     k \in [1..2 -> {0, 1, 3, 9, 32}], s \in [1..2 -> {6, 7, 9, 11, 15, 16, 17}], w \in [1..2 -> {Good, Bad}]}
  \cup {[header |-> 9, size |-> 30, index |-> [i \in 1..3 |-> At2(i + d, s[i], 4 + 3 * (i % 2), Good)]] : d \in {0, 4}, s \in [1..3 -> {9, 12, 16, 23}]}
  \cup {[header |-> 3 + 2 * n, size |-> 50, index |-> [i \in 1..n |-> At2(i + 4, 3 + 2 * n + 4 * i, 4, Good)]] : n \in {0, 3, 4, 5}}
  \cup {Laid(<<Entry(1, encode(l)), Entry(4, Padded(encode(r)))>>) : l \in Small, r \in {Node(1), Not(Leaf(2, 0, "", "A"))}}

Certificate(hash, cn, o, ou, ext, apple) ==
  [hash |-> hash, apple |-> apple, extensions |-> ext,
   subject |-> ("subject.CN" :> cn @@ "subject.O" :> o @@ "subject.OU" :> ou)]
Root(o, apple) == Certificate("root", "B", o, "", {}, apple)
MCPaths ==
  {<<>>} \cup {<<Certificate("hash", "A", o, "", {}, FALSE)>> : o \in {"", "A"}}
  \cup {<<Certificate("hash", "A", o[1], "", {}, FALSE), Certificate("other", "", o[2], "", {}, FALSE), Root(o[3], FALSE)>> :
          o \in [1..3 -> {"", "A", "B"}]}
  \cup {<<Certificate("hash", n, "A", n, leaf, FALSE), Certificate("other", "", "A", "", {ext}, FALSE), Root("A", TRUE)>> :
          n \in {"", "A", "line"}, leaf \in {{}, {"field.devidLeaf"}}, ext \in Extensions}

MCDirectories ==
  {[identifier |-> id, cdhash |-> h, certificate |-> IF c = <<>> THEN "" ELSE c[1].hash, chain |-> c] :
     id \in {"A", "and", "long"}, h \in {"hash", "other"},
     c \in {<<>>, <<Certificate("hash", "A", "", "", {}, FALSE)>>, <<Certificate("other", "A", "", "", {}, TRUE)>>,
            <<Certificate("other", "B", "", "", {"field.wwdr"}, FALSE), Certificate("hash", "A", "", "A", {"field.wwdr"}, FALSE)>>}}

---------------------------------------------------------------------------
(* Entitlements: dictionaries of scalars, arrays and dictionaries within the     *)
(* limits of the encoder and of the reader and beyond either.                   *)

MCNul == 3

Scalars == {<<"bool", 1>>, <<"int", 1>>, <<"text", 1>>, <<"text", MCNul>>, <<"data", 0>>}
Arrays(S) == {<<"array", <<>>>>} \cup {<<"array", <<x>>>> : x \in S}
Pairs(S, T) == {<<"array", <<x, y>>>> : x \in S, y \in T}
Dicts(S) == {<<"dict", <<>>>>} \cup {<<"dict", [k \in {j} |-> x]>> : j \in {1, MCNul}, x \in S}
Doubles(S, T) == {<<"dict", [k \in {1, 2} |-> IF k = 1 THEN x ELSE y]>> : x \in S, y \in T}

Good1 == {<<"bool", 1>>, <<"int", 1>>}
Level1 == Arrays(Good1) \cup Pairs(Good1, Good1) \cup {<<"dict", <<>>>>, <<"dict", [k \in {1} |-> <<"int", 1>>]>>}
Level2 == Arrays(Level1) \cup Pairs(Level1, Good1) \cup {<<"dict", [k \in {2} |-> x]>> : x \in Level1}

\* Values whose only member has members.
Nested == {y \in Level2 : Cardinality(DOMAIN y[2]) = 1 /\ \A k \in DOMAIN y[2] : y[2][k][1] \in {"array", "dict"} /\ y[2][k][2] # <<>>}

MCValues ==
  Dicts(Scalars) \cup Doubles(Scalars, Scalars) \cup Dicts(Level1) \cup Doubles(Level1, Good1)
  \cup {<<"dict", [k \in {1} |-> x]>> : x \in Level2}
  \cup {<<"dict", [k \in {1} |-> <<"array", <<x>>>>]>> : x \in Nested}

---------------------------------------------------------------------------

RequirementVars == vars
EntitlementVars == <<values, comp, hashes, alternate, step, shown>>

\* A part that does not run stays in one of its initial states.
NoRequirement == origin = "text" /\ input = <<"always">> /\ stage = "given" /\ path = <<>> /\ value = <<>>
NoEntitlements == values = <<"dict", <<>>>> /\ Rights!Init

MCInit ==
  \/ part = "entitlements" /\ Rights!Init /\ NoRequirement
  \/ part = "requirement" /\ Init /\ NoEntitlements

MCNext ==
  \/ part = "requirement" /\ Next /\ UNCHANGED <<part, EntitlementVars>>
  \/ part = "entitlements" /\ Rights!Next /\ UNCHANGED <<part, RequirementVars>>

MCSpec == MCInit /\ [][MCNext]_<<part, RequirementVars, EntitlementVars>>

---------------------------------------------------------------------------
(* Properties *)


\* The entitlements that are displayed are those that were signed, read from a slot that
\* the signature binds.
EntitlementsAreShown ==
  part = "entitlements" => Rights!TypeOK /\ Rights!SignedIsShown /\ Rights!OneEncoding /\ Rights!NoSubstitution
=============================================================================
