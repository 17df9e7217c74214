---------------------------- MODULE Requirements ----------------------------
(***************************************************************************)
(* The requirement language: texts are parsed into nodes, nodes are encoded  *)
(* as words, words are decoded, printed and evaluated, and requirements are  *)
(* collected in sets.  A text is a sequence of tokens; a string operand and  *)
(* its length are one word, which knows whether its padding is zero.         *)
(***************************************************************************)
EXTENDS Integers, Sequences, SequencesExt, FiniteSets

CONSTANTS
  MaxDepth,     \* 128, of the parser and of the decoder
  MaxNodes,     \* 4096
  MaxEntries,   \* 64
  Texts,        \* the texts that are compiled
  Words,        \* the words that are decoded
  Blobs,        \* the compiled sets that are signed with
  Paths,        \* the certificates that are signed with, the leaf first; << >> is ad hoc
  Directories   \* what requirements are evaluated on

\* Tokens that carry a string: quoted, bare and hexadecimal; and what they denote.
\* "line" holds a newline, which a quoted string can only escape.
Quoted == [qA |-> "A", qand |-> "and", qhash |-> "hash40", qempty |-> "", qlong |-> "long",
           qfield |-> "subject.CN", qline |-> "line"]
Bare == [A |-> "A", B |-> "B", long255 |-> "cut"]   \* a long name is cut when it is printed
Hex == [hxA |-> "A", hxbin |-> "bin", hxhash |-> "hash"]
Hash == [qhash |-> "hash", qother |-> "other", qroot |-> "root"]   \* 40 hexadecimal digits
Number == [n0 |-> 0, n1 |-> 1, n2 |-> 2, n3 |-> 3, n4 |-> 4, n5 |-> 5, n6 |-> 6, n7 |-> 7, n8 |-> 8, n9 |-> 9,
           n14 |-> 14, n31 |-> 31, n32 |-> 32]
KindSign == 32   \* 2^31: kinds from here on are printed as negative numbers
Subjects == {"subject.CN", "subject.O", "subject.OU"}
\* The extensions of Apple's two intermediates and of a Developer ID leaf.
Extensions == {"field.wwdr", "field.devid", "field.devidLeaf"}
KindName == [host |-> 1, guest |-> 2, designated |-> 3, library |-> 4, plugin |-> 5]

Leaf(op, slot, field, value) == [op |-> op, slot |-> slot, field |-> field, value |-> value]
Node(op) == Leaf(op, 0, "", "")
Not(n) == [op |-> 9, left |-> n]
Binary(op, l, r) == [op |-> op, left |-> l, right |-> r]

---------------------------------------------------------------------------
(* requirementParser: where it is, how many atoms it has seen, and its result *)

Token(t, pos) == IF pos <= Len(t) THEN t[pos] ELSE "EOF"
requirementKind(tok) ==
  CASE tok \in DOMAIN KindName -> KindName[tok]
    [] tok \in DOMAIN Number -> Number[tok]
    [] OTHER -> -1

At(pos, nodes, n) == [ok |-> TRUE, pos |-> pos, nodes |-> nodes, n |-> n]
Refused(nodes) == [ok |-> FALSE, pos |-> 0, nodes |-> nodes, n |-> Node(0)]

\* A quoted string with a newline in it: the scanner ends it there, with an error, and
\* stringValue, like every other reader of tokens, has no use for what is left.
Unterminated == "quoted up to its newline"

\* stringValue; NoString when the token is no string.
NoString == "no string"
stringValue(tok) ==
  CASE tok \in DOMAIN Quoted -> Quoted[tok]
    [] tok \in DOMAIN Bare -> Bare[tok]
    [] tok \in DOMAIN Hex -> Hex[tok]
    [] OTHER -> NoString

certificateSlot(tok) ==
  CASE tok = "leaf" -> 0
    [] tok = "root" -> -1
    [] tok \in DOMAIN Number /\ Number[tok] <= 31 -> Number[tok]
    [] OTHER -> -2

\* certificateField, from the opening bracket on.
certificateField(t, pos, nodes, slot) ==
  LET field == Token(t, pos + 1)  after == Token(t, pos + 3)
      follows == after \in {"EOF", "and", "or", ")", ";"} \/ requirementKind(after) >= 0
      value == stringValue(Token(t, pos + 4))
  IN IF Token(t, pos + 2) # "]" THEN Refused(nodes)
     ELSE IF field \in Extensions
       THEN IF after = "exists" THEN At(pos + 4, nodes, Leaf(14, slot, field, ""))
            ELSE IF follows THEN At(pos + 3, nodes, Leaf(14, slot, field, "")) ELSE Refused(nodes)
     ELSE IF field \in Subjects /\ after = "=" /\ value # NoString
       THEN At(pos + 5, nodes, Leaf(11, slot, field, value))
     ELSE Refused(nodes)

certificate(t, pos, nodes) ==
  LET slot == certificateSlot(Token(t, pos))  hash == Token(t, pos + 3)
  IN IF slot = -2 THEN Refused(nodes)
     ELSE IF Token(t, pos + 1) = "[" THEN certificateField(t, pos + 1, nodes, slot)
     ELSE IF Token(t, pos + 1) = "=" /\ Token(t, pos + 2) = "H" /\ hash \in DOMAIN Hash
       THEN At(pos + 4, nodes, Leaf(4, slot, "", Hash[hash]))
     ELSE Refused(nodes)

\* What was parsed so far, negated, before a parenthesis, and as the right side of l.
Inverted(r) == IF r.ok THEN [r EXCEPT !.n = Not(r.n)] ELSE r
Closed(t, r) == IF r.ok /\ Token(t, r.pos) = ")" THEN [r EXCEPT !.pos = @ + 1] ELSE Refused(r.nodes)
Joined(op, l, r) == IF r.ok THEN [r EXCEPT !.n = Binary(op, l.n, r.n)] ELSE r

RECURSIVE expression(_, _, _, _), conjunction(_, _, _, _), atom(_, _, _, _), Ands(_, _, _), Ors(_, _, _)

\* depth is that of the caller; every call counts itself.
atom(t, pos, nodes, depth) ==
  LET s == Token(t, pos)  count == nodes + 1  next == Token(t, pos + 1)
  IN IF count > MaxNodes \/ depth + 1 > MaxDepth THEN Refused(count)
     ELSE CASE s = "anchor" ->
            IF next = "apple" /\ Token(t, pos + 2) = "generic" THEN At(pos + 3, count, Node(15)) ELSE Refused(count)
       [] s \in {"always", "true"} -> At(pos + 1, count, Node(1))
       [] s \in {"never", "false"} -> At(pos + 1, count, Node(0))
       [] s \in {"!", "not"} -> Inverted(atom(t, pos + 1, count, depth + 1))
       [] s = "(" -> Closed(t, expression(t, pos + 1, count, depth + 1))
       [] s = "identifier" ->
            IF stringValue(next) # NoString THEN At(pos + 2, count, Leaf(2, 0, "", stringValue(next))) ELSE Refused(count)
       [] s = "cdhash" ->
            LET hash == Token(t, pos + 2)
            IN IF next = "H" /\ hash \in DOMAIN Hash THEN At(pos + 3, count, Leaf(8, 0, "", Hash[hash])) ELSE Refused(count)
       [] s = "certificate" -> certificate(t, pos + 1, count)
       [] OTHER -> Refused(count)

Ands(t, l, depth) ==
  IF ~l.ok \/ Token(t, l.pos) # "and" THEN l
  ELSE Ands(t, Joined(6, l, atom(t, l.pos + 1, l.nodes, depth)), depth)

conjunction(t, pos, nodes, depth) == Ands(t, atom(t, pos, nodes, depth), depth)

\* Mutant of Ors: what follows an or is one atom.
OrsAtom(t, l, depth) ==
  IF ~l.ok \/ Token(t, l.pos) # "or" THEN l
  ELSE Ors(t, Joined(7, l, atom(t, l.pos + 1, l.nodes, depth)), depth)

Ors(t, l, depth) ==
  IF ~l.ok \/ Token(t, l.pos) # "or" THEN l
  ELSE Ors(t, Joined(7, l, conjunction(t, l.pos + 1, l.nodes, depth)), depth)

expression(t, pos, nodes, depth) ==
  IF depth + 1 > MaxDepth THEN Refused(nodes)
  ELSE Ors(t, conjunction(t, pos, nodes, depth + 1), depth + 1)

RECURSIVE AfterSemicolons(_, _)
AfterSemicolons(t, pos) == IF Token(t, pos) = ";" THEN AfterSemicolons(t, pos + 1) ELSE pos

Separated(t, r) == IF r.ok THEN [r EXCEPT !.pos = AfterSemicolons(t, @)] ELSE r
element(t, pos) == Separated(t, expression(t, pos, 0, 0))

Whole(t, r) == IF r.ok /\ Token(t, r.pos) = "EOF" THEN r ELSE Refused(r.nodes)
parseRequirement(t) == Whole(t, element(t, 1))

---------------------------------------------------------------------------
(* Encoding and decoding *)

Word(n) == <<"word", n>>
String(s) == <<"string", s, "zero">>

\* The encoder pads with zeros; the decoder skips the padding, whatever it is.
Zeroed(w) == IF w[1] = "string" THEN String(w[2]) ELSE w

RECURSIVE encode(_)
encode(n) ==
  CASE n.op \in {0, 1, 15} -> <<Word(n.op)>>
    [] n.op = 14 -> <<Word(14), Word(n.slot), String(n.field), Word(0)>>
    [] n.op = 11 -> <<Word(11), Word(n.slot), String(n.field), Word(1), String(n.value)>>
    [] n.op = 4 -> <<Word(4), Word(n.slot), String(n.value)>>
    [] n.op \in {2, 8} -> <<Word(n.op), String(n.value)>>
    [] n.op \in {6, 7} -> <<Word(n.op)>> \o encode(n.left) \o encode(n.right)
    [] n.op = 9 -> <<Word(9)>> \o encode(n.left)

IsWord(w, pos) == pos <= Len(w) /\ w[pos][1] = "word"
IsString(w, pos) == pos <= Len(w) /\ w[pos][1] = "string"
IsSlot(w, pos) == IsWord(w, pos) /\ w[pos][2] \in -1..31
Is20(w, pos) == IsString(w, pos) /\ \E tok \in DOMAIN Hash : Hash[tok] = w[pos][2]

\* Mutant of Deep: the last level is refused.
DeepEarly(depth, count) == depth >= MaxDepth \/ count > MaxNodes

Deep(depth, count) == depth > MaxDepth \/ count > MaxNodes

RECURSIVE read(_, _, _, _), readRight(_, _, _, _)

\* The right side of an operator, after its left side.
readRight(w, op, l, depth) == IF l.ok THEN Joined(op, l, read(w, l.pos, l.nodes, depth)) ELSE l

read(w, pos, nodes, depth) ==
  LET count == nodes + 1  op == w[pos][2]
  IN IF Deep(depth, count) \/ ~IsWord(w, pos) THEN Refused(count)
     ELSE CASE op \in {0, 1, 15} -> At(pos + 1, count, Node(op))
       [] op = 14 -> IF IsSlot(w, pos + 1) /\ IsString(w, pos + 2) /\ w[pos + 2][2] \in Extensions /\ IsWord(w, pos + 3) /\ w[pos + 3][2] = 0
                       THEN At(pos + 4, count, Leaf(14, w[pos + 1][2], w[pos + 2][2], "")) ELSE Refused(count)
       [] op = 11 -> IF IsSlot(w, pos + 1) /\ IsString(w, pos + 2) /\ w[pos + 2][2] \in Subjects
                        /\ IsWord(w, pos + 3) /\ w[pos + 3][2] = 1 /\ IsString(w, pos + 4)
                       THEN At(pos + 5, count, Leaf(11, w[pos + 1][2], w[pos + 2][2], w[pos + 4][2])) ELSE Refused(count)
       [] op = 4 -> IF IsSlot(w, pos + 1) /\ Is20(w, pos + 2)
                      THEN At(pos + 3, count, Leaf(4, w[pos + 1][2], "", w[pos + 2][2])) ELSE Refused(count)
       [] op \in {2, 8} -> IF IsString(w, pos + 1) /\ (op = 8 => Is20(w, pos + 1))
                             THEN At(pos + 2, count, Leaf(op, 0, "", w[pos + 1][2])) ELSE Refused(count)
       [] op = 9 -> Inverted(read(w, pos + 1, count, depth + 1))
       [] op \in {6, 7} -> readRight(w, op, read(w, pos + 1, count, depth + 1), depth + 1)
       [] OTHER -> Refused(count)

\* Mutant of decodeRequirement: what follows the expression is ignored.
decodePrefix(w) == read(w, 1, 0, 0)

AtEnd(w, r) == IF r.ok /\ r.pos = Len(w) + 1 THEN r ELSE Refused(r.nodes)
decodeRequirement(w) == AtEnd(w, read(w, 1, 0, 0))

---------------------------------------------------------------------------
(* Printing *)

Pick(names, v) == CHOOSE tok \in DOMAIN names : names[tok] = v

\* A newline is printable, and only the backslash and the quote are escaped.
requirementString(v) ==
  IF v = "long" THEN "long255"
  ELSE IF v = "line" THEN Unterminated
  ELSE IF \E tok \in DOMAIN Bare : Bare[tok] = v THEN Pick(Bare, v)
  ELSE IF \E tok \in DOMAIN Hex : Hex[tok] = v THEN Pick(Hex, v)
  ELSE Pick(Quoted, v)

cert(slot) == <<"certificate", CASE slot = -1 -> "root" [] slot = 0 -> "leaf" [] OTHER -> Pick(Number, slot)>>

\* Mutant of Parenthesized: an or is printed bare everywhere.
ParenthesizedNever(level, prec) == FALSE

Parenthesized(level, prec) == level < prec

RECURSIVE text(_, _)
text(n, level) ==
  CASE n.op = 0 -> <<"never">>
    [] n.op = 1 -> <<"always">>
    [] n.op = 2 -> <<"identifier", requirementString(n.value)>>
    [] n.op = 4 -> cert(n.slot) \o <<"=", "H", Pick(Hash, n.value)>>
    [] n.op = 8 -> <<"cdhash", "H", Pick(Hash, n.value)>>
    [] n.op = 9 -> <<"!">> \o text(n.left, 0)
    [] n.op = 15 -> <<"anchor", "apple", "generic">>
    [] n.op = 11 -> cert(n.slot) \o <<"[", n.field, "]", "=", requirementString(n.value)>>
    [] n.op = 14 -> cert(n.slot) \o <<"[", n.field, "]">>     \* and a comment
    [] n.op \in {6, 7} ->
         LET prec == IF n.op = 7 THEN 2 ELSE 1
             open == Parenthesized(level, prec)
         IN (IF open THEN <<"(">> ELSE <<>>)
              \o text(n.left, prec) \o <<IF n.op = 7 THEN "or" ELSE "and">> \o text(n.right, prec)
              \o (IF open THEN <<")">> ELSE <<>>)

---------------------------------------------------------------------------
(* Evaluation *)

\* The certificate a slot names, the last ones counted from the end; 0 is none.
chainIndex(d, slot) ==
  LET i == IF slot < 0 THEN slot + Len(d.chain) ELSE slot
  IN IF i >= 0 /\ i < Len(d.chain) THEN i + 1 ELSE 0

appleAnchor(path) == path # <<>> /\ Last(path).apple

RECURSIVE matches(_, _)
matches(n, d) ==
  CASE n.op = 15 -> appleAnchor(d.chain)
    [] n.op \in {11, 14} ->
         LET i == chainIndex(d, n.slot)
         IN i > 0 /\ IF n.op = 14 THEN n.field \in d.chain[i].extensions
                     ELSE n.value # "" /\ d.chain[i].subject[n.field] = n.value
    [] n.op = 1 -> TRUE
    [] n.op = 2 -> d.identifier = n.value
    [] n.op = 8 -> d.cdhash = n.value
    [] n.op = 4 ->
         IF d.chain # <<>> THEN chainIndex(d, n.slot) > 0 /\ d.chain[chainIndex(d, n.slot)].hash = n.value
         ELSE n.slot = 0 /\ d.certificate # "" /\ d.certificate = n.value
    [] n.op = 6 -> matches(n.left, d) /\ matches(n.right, d)
    [] n.op = 7 -> matches(n.left, d) \/ matches(n.right, d)
    [] n.op = 9 -> ~matches(n.left, d)
    [] OTHER -> FALSE

---------------------------------------------------------------------------
(* Sets: an index of kinds with the place and the length of their blobs *)

RefusedSet == [ok |-> FALSE, set |-> <<>>]
Entry(kind, words) == [kind |-> kind, words |-> words]

\* Mutant of superblob: the entries stay as they come.
superblobUnsorted(entries) == entries

\* superblob sorts by kind.
superblob(entries) == SortSeq(entries, LAMBDA a, b : a.kind < b.kind)

\* Mutant of Assigned: the first of two assignments is kept.
AssignedFirst(entries, kind, words) ==
  IF \E i \in DOMAIN entries : entries[i].kind = kind THEN entries ELSE Append(entries, Entry(kind, words))

\* The last assignment to a kind is the one that is kept.
Assigned(entries, kind, words) ==
  Append(SelectSeq(entries, LAMBDA e : e.kind # kind), Entry(kind, words))

RECURSIVE Assignments(_, _, _, _), AfterElement(_, _, _, _, _)

AfterElement(t, e, kind, entries, count) ==
  IF e.ok THEN Assignments(t, e.pos, Assigned(entries, kind, encode(e.n)), count + 1) ELSE RefusedSet

Assignments(t, pos, entries, count) ==
  LET kind == requirementKind(Token(t, pos))
  IN IF Token(t, pos) = "EOF" THEN [ok |-> TRUE, set |-> superblob(entries)]
     ELSE IF count = MaxEntries \/ kind < 0 \/ Token(t, pos + 1) # "=>" THEN RefusedSet
     ELSE AfterElement(t, element(t, pos + 2), kind, entries, count)

Designated(r) == IF r.ok THEN [ok |-> TRUE, set |-> <<Entry(3, encode(r.n))>>] ELSE RefusedSet

CompileRequirements(t) ==
  IF requirementKind(Token(t, 1)) < 0 THEN Designated(parseRequirement(t)) ELSE Assignments(t, 1, <<>>, 0)

\* Mutant of Disjoint: the blobs are not sorted by their place.
DisjointUnsorted(blob) ==
  \A i \in 2..Len(blob.index) : blob.index[i].start < blob.index[i - 1].start
                                 \/ blob.index[i].start >= blob.index[i - 1].start + blob.index[i - 1].length

Disjoint(blob) ==
  LET spans == SortSeq(blob.index, LAMBDA a, b : a.start < b.start)
  IN \A i \in 2..Len(spans) : spans[i].start >= spans[i - 1].start + spans[i - 1].length

\* A blob: header is the end of its index, and every entry has a place, the length it
\* is given, and what is there.
validateRequirements(blob) ==
  /\ \A i \in DOMAIN blob.index :
       LET e == blob.index[i]
       IN /\ e.start >= blob.header /\ e.length > 0 /\ e.start + e.length <= blob.size
          /\ \A j \in DOMAIN blob.index : j # i => blob.index[j].kind # e.kind
          /\ decodeRequirement(e.words).ok
  /\ Disjoint(blob)

\* What SuperBlob lays out for a set.
Laid(set) ==
  LET header == 3 + 2 * Len(set)
      Start(i) == header + FoldLeft(LAMBDA sum, k : sum + Len(set[k].words) + 3, 0, [k \in 1..i - 1 |-> k])
  IN [header |-> header, size |-> Start(Len(set) + 1),
      index |-> [i \in DOMAIN set |-> [kind |-> set[i].kind, start |-> Start(i), length |-> Len(set[i].words) + 3, words |-> set[i].words]]]

\* The certificate a default requirement names: the last one, from the leaf on, of
\* the leaf's organization.
Organized(path) ==
  LET org == path[1].subject["subject.O"]
      same == {i \in DOMAIN path : \A k \in 1..i : path[k].subject["subject.O"] = org}
  IN IF org = "" THEN 1 ELSE CHOOSE i \in same : \A k \in same : k <= i

\* Mutant of slotOf: the last certificate is named root whatever the organization.
slotOfRoot(path, i) == IF i = 1 THEN -1 ELSE i - 1

slotOf(path, i) == IF path[1].subject["subject.O"] # "" /\ i = Len(path) THEN -1 ELSE i - 1

\* appleCertificateRequirement; op 0 is an error.
appleRequirement(path) ==
  LET exists(slot, field) == Leaf(14, slot, field, "")
      subject(field) == Leaf(11, 0, field, path[1].subject[field])
  IN IF Len(path) = 3 /\ "field.wwdr" \in path[2].extensions
       THEN Binary(6, Node(15), Binary(6, subject("subject.CN"), exists(1, "field.wwdr")))
     ELSE IF Len(path) = 3 /\ "field.devid" \in path[2].extensions
       THEN Binary(6, Node(15), Binary(6, exists(1, "field.devid"), Binary(6, exists(0, "field.devidLeaf"), subject("subject.OU"))))
     ELSE Node(0)

defaultCertificateRequirement(identifier, path) ==
  LET apple == appleRequirement(path)  i == Organized(path)
  IN IF ~appleAnchor(path)
       THEN [ok |-> TRUE, n |-> Binary(6, Leaf(2, 0, "", identifier), Leaf(4, slotOf(path, i), "", path[i].hash))]
     ELSE [ok |-> apple.op # 0, n |-> Binary(6, Leaf(2, 0, "", identifier), apple)]

\* Mutant of Lacking: a requirement is generated whatever was given.
LackingAlways(entries, path) == path # <<>>

Lacking(entries, path) == path # <<>> /\ \A i \in DOMAIN entries : entries[i].kind # 3

\* prepareRequirements: a designated requirement is added only when there is none
\* and the signature has certificates; the result is sorted and contiguous.
prepareRequirements(blob, identifier, path) ==
  LET entries == [i \in DOMAIN blob.index |-> Entry(blob.index[i].kind, blob.index[i].words)]
      generated == defaultCertificateRequirement(identifier, path)
      all == IF Lacking(entries, path) THEN Append(entries, Entry(3, encode(generated.n))) ELSE entries
  IN IF \/ Len(entries) > MaxEntries
        \/ ~validateRequirements(blob)
        \/ Lacking(entries, path) /\ ~generated.ok
        \/ Len(all) > MaxEntries
       THEN RefusedSet
     ELSE [ok |-> TRUE, set |-> superblob(all)]


\* A kind is printed by its name; an unknown one as a signed number, behind a comment.
kindText(kind) ==
  IF kind = 0 THEN <<"invalid">>
  ELSE IF \E name \in DOMAIN KindName : KindName[name] = kind THEN <<Pick(KindName, kind)>>
  ELSE IF kind >= KindSign THEN <<"-", "complement">>
  ELSE <<Pick(Number, kind)>>

requirementSetText(set) ==
  FoldLeft(LAMBDA t, e : t \o kindText(e.kind) \o <<"=>">> \o text(decodeRequirement(e.words).n, 3), <<>>, set)

\* checkDesignatedRequirement: "", "invalid", or "failed".
checkDesignatedRequirement(blob, d) ==
  IF blob.index = <<>> THEN ""
  ELSE IF ~validateRequirements(blob) THEN "invalid"
  ELSE IF \E i \in DOMAIN blob.index : blob.index[i].kind = 3 /\ ~matches(decodeRequirement(blob.index[i].words).n, d)
    THEN "failed" ELSE ""

---------------------------------------------------------------------------
(* A text is compiled, a compiled requirement is decoded and printed, the print *)
(* is compiled again; a compiled set is signed with.                             *)

VARIABLES
  origin,   \* what the user gave: a text, words or a set
  input,    \* and which
  stage,    \* what has been done with it
  path,     \* the certificates it is signed with
  value     \* what came out of it

vars == <<origin, input, stage, path, value>>

Compile ==
  /\ origin = "text" /\ stage = "given"
  /\ \E c \in {CompileRequirements(input)} :
       IF c.ok THEN stage' = "set" /\ value' = c.set ELSE stage' = "refused" /\ value' = <<>>
  /\ UNCHANGED <<origin, input, path>>

Decode ==
  /\ origin = "words" /\ stage = "given"
  /\ \E r \in {decodeRequirement(input)} :
       IF r.ok THEN stage' = "node" /\ value' = r.n ELSE stage' = "refused" /\ value' = <<>>
  /\ UNCHANGED <<origin, input, path>>

Extract ==
  /\ stage = "set"
  /\ \E i \in DOMAIN value :
       \E r \in {decodeRequirement(value[i].words)} :
         IF r.ok THEN stage' = "node" /\ value' = r.n ELSE stage' = "unreadable" /\ value' = value[i].words
  /\ UNCHANGED <<origin, input, path>>

PrintNode ==
  /\ stage = "node"
  /\ stage' = "printed" /\ value' = text(value, 3)
  /\ UNCHANGED <<origin, input, path>>

Prepare ==
  /\ origin = "blob" /\ stage = "given"
  /\ \E certificates \in Paths :
       \E p \in {prepareRequirements(input, "A", certificates)} :
         IF p.ok THEN stage' = "signed" /\ path' = certificates /\ value' = p.set
         ELSE stage' = "refused" /\ value' = <<>> /\ path' = <<>>
  /\ UNCHANGED <<origin, input>>

Init ==
  /\ stage = "given" /\ path = <<>> /\ value = <<>>
  /\ \/ origin = "text" /\ input \in Texts
     \/ origin = "words" /\ input \in Words
     \/ origin = "blob" /\ input \in Blobs

Next == Compile \/ Decode \/ Extract \/ PrintNode \/ Prepare
Spec == Init /\ [][Next]_vars

---------------------------------------------------------------------------

\* Type invariant: what a text compiles to is sorted, one entry for each kind.
TypeOK ==
  /\ origin \in {"text", "words", "blob"}
  /\ stage \in {"given", "refused", "set", "node", "unreadable", "printed", "signed"}
  /\ stage \in {"set", "signed"} => \A i \in 2..Len(value) : value[i - 1].kind < value[i].kind

Meaning(n) == {d \in Directories : matches(n, d)}

RECURSIVE Depth(_), Size(_), Holds(_, _)
Depth(n) == CASE n.op = 9 -> 1 + Depth(n.left)
              [] n.op \in {6, 7} -> 1 + IF Depth(n.left) > Depth(n.right) THEN Depth(n.left) ELSE Depth(n.right)
              [] OTHER -> 0
Size(n) == CASE n.op = 9 -> 1 + Size(n.left) [] n.op \in {6, 7} -> 1 + Size(n.left) + Size(n.right) [] OTHER -> 1
Holds(n, v) == CASE n.op = 9 -> Holds(n.left, v) [] n.op \in {6, 7} -> Holds(n.left, v) \/ Holds(n.right, v) [] OTHER -> n.value = v
Long(n) == Holds(n, "long")
Multiline(n) == Holds(n, "line")

\* The grammar of boolean texts as a relation on the intervals of the text: what
\* the tokens from i to j may denote.  "and" binds tighter than "or".
Constants == [always |-> Directories, true |-> Directories, never |-> {}, false |-> {}]

RECURSIVE AtomOf(_, _, _), AndOf(_, _, _), OrOf(_, _, _)
AtomOf(t, i, j) ==
  IF i > j THEN {}
  ELSE IF i = j THEN IF t[i] \in DOMAIN Constants THEN {Constants[t[i]]} ELSE {}
  ELSE (IF t[i] \in {"!", "not"} THEN {Directories \ v : v \in AtomOf(t, i + 1, j)} ELSE {})
       \cup (IF t[i] = "(" /\ t[j] = ")" THEN OrOf(t, i + 1, j - 1) ELSE {})
       \cup (IF j = i + 1 /\ t[i] = "identifier" /\ stringValue(t[j]) # NoString
              THEN {{d \in Directories : d.identifier = stringValue(t[j])}} ELSE {})

AndOf(t, i, j) ==
  AtomOf(t, i, j) \cup UNION {{v \cap w : v \in AndOf(t, i, k - 1), w \in AtomOf(t, k + 1, j)} : k \in {m \in i..j : t[m] = "and"}}
OrOf(t, i, j) ==
  AndOf(t, i, j) \cup UNION {{v \cup w : v \in OrOf(t, i, k - 1), w \in AndOf(t, k + 1, j)} : k \in {m \in i..j : t[m] = "or"}}

Boolean(t) == \A i \in DOMAIN t : t[i] \in DOMAIN Constants \cup DOMAIN Bare \cup {"!", "not", "(", ")", "and", "or", "identifier"}

\* The parser accepts exactly the texts of the grammar that keep its limits, and the
\* node means what the text means (requirements.go:63-151, 416-473).
ParsesTheGrammar ==
  origin = "text" /\ stage = "given" /\ Boolean(input) =>
    \E r \in {parseRequirement(input)}, all \in {OrOf(input, 1, Len(input))} :
       /\ r.ok => all = {Meaning(r.n)}
       /\ ~r.ok => all = {} \/ Len(input) >= MaxDepth \/ Len(input) >= MaxNodes

\* A text that was compiled can be read again as the node it was parsed to; only a
\* long chain of operators, for which the parser does not recurse, exceeds the
\* limits of the decoder (requirements.go:74-108, 547-551; requirement-sets.md:57-60).
CompiledDecodes ==
  origin = "text" /\ requirementKind(Token(input, 1)) < 0 =>
    \E n \in {parseRequirement(input).n} :
       /\ stage = "node" => value = n
       /\ stage = "unreadable" => Depth(n) > MaxDepth \/ Size(n) > MaxNodes

\* There is one encoding for a requirement, but for padding that the decoder skips:
\* words that are accepted are, with zeros there, those the node encodes to
\* (requirements.go:302-338, 520-643).
OneEncoding ==
  stage = "node" /\ origin = "words" => encode(value) = [i \in DOMAIN input |-> Zeroed(input[i])]

\* Printing is canonical: the print is compiled to a requirement with the same print
\* and, but for a name that was cut, the same meaning, unless it nests too deep for the
\* parser, which counts twice for every parenthesis.  A print with a newline in quotes is refused, as
\* nestedSeal relies on, and never taken for another requirement
\* (requirement_text.go:26-81, requirement_text_test.go:55-64, bundle_nested.go:116).
PrintKeepsMeaning ==
  [][stage' = "printed" =>
       \E r \in {parseRequirement(value')} :
          /\ Multiline(value) => ~r.ok
          /\ r.ok => text(r.n, 3) = value' /\ (Long(value) \/ Meaning(r.n) = Meaning(value))
          /\ ~r.ok => Multiline(value) \/ 2 * Depth(value) + 2 > MaxDepth \/ Size(value) > MaxNodes]_vars

Assigns(t, i) == i + 1 <= Len(t) /\ t[i + 1] = "=>"

\* A set holds for every kind that is assigned what was assigned last, whatever the
\* spelling of the kind (requirements.go:349-394).
LastWins ==
  stage = "set" /\ requirementKind(Token(input, 1)) >= 0 =>
    /\ {value[i].kind : i \in DOMAIN value} = {requirementKind(input[i]) : i \in {k \in DOMAIN input : Assigns(input, k)}}
    /\ \A e \in DOMAIN value :
         \E i \in DOMAIN input :
           /\ Assigns(input, i) /\ requirementKind(input[i]) = value[e].kind
           /\ value[e].words = encode(element(input, i + 2).n)
           /\ \A k \in i + 1..Len(input) : Assigns(input, k) => requirementKind(input[k]) # value[e].kind

\* What is signed with is valid, keeps every requirement that was given, and has a
\* designated one when there is a certificate; nothing that was given overlaps
\* (requirement_sign.go:3-43, requirements.go:483-518).
PreparedKeepsGiven ==
  stage = "signed" =>
    LET given == input.index
    IN /\ validateRequirements(Laid(value))
       /\ \A i \in DOMAIN given : \E k \in DOMAIN value : value[k] = Entry(given[i].kind, given[i].words)
       /\ {value[k].kind : k \in DOMAIN value}
            = {given[i].kind : i \in DOMAIN given} \cup (IF path # <<>> THEN {3} ELSE {})
       /\ \A i, j \in DOMAIN given :
            i # j => given[i].start..given[i].start + given[i].length - 1
                       \cap given[j].start..given[j].start + given[j].length - 1 = {}

\* What Apple's intermediates promise of the certificates they issue.
Issued(chain) ==
  appleAnchor(chain) =>
    \/ /\ "field.wwdr" \in chain[2].extensions
       /\ chain[1].subject["subject.CN"] # ""
    \/ /\ "field.devid" \in chain[2].extensions
       /\ "field.devidLeaf" \in chain[1].extensions
       /\ chain[1].subject["subject.OU"] # ""

\* Code that is signed without a designated requirement of the user's satisfies the
\* one that is generated for it (certificate_sign.go:38-86, requirements.go:654-676).
SignedCodeIsDesignated ==
  stage = "signed" /\ path # <<>> /\ Issued(path) /\ (\A i \in DOMAIN input.index : input.index[i].kind # 3) =>
    checkDesignatedRequirement(Laid(value),
      [identifier |-> "A", cdhash |-> "", certificate |-> path[1].hash, chain |-> path]) = ""

\* The print of a set compiles to a set of the same kinds, and of the same meanings
\* but for names that were cut.  It does not compile when a kind is zero or printed as a
\* negative number, which the language cannot name, or when a string holds a newline;
\* no other requirement takes the place of such a one
\* (requirement_metadata.go:101-130, requirements.go:349-394).
SetTextCompiles ==
  stage = "signed" =>
    \E c \in {CompileRequirements(requirementSetText(value))},
       nodes \in {[k \in DOMAIN value |-> decodeRequirement(value[k].words).n]} :
       IF \/ value = <<>>
          \/ \E k \in DOMAIN value : value[k].kind \notin 1..KindSign - 1 \/ Multiline(nodes[k])
         THEN ~c.ok
       ELSE /\ c.ok /\ Len(c.set) = Len(value)
            /\ \A k \in DOMAIN value :
                 /\ c.set[k].kind = value[k].kind
                 /\ Long(nodes[k]) \/ Meaning(decodeRequirement(c.set[k].words).n) = Meaning(nodes[k])
=============================================================================
