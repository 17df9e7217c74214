------------------------------ MODULE BinaryPlist ------------------------------
(***************************************************************************)
(* The decoder of binary property lists: an object graph is expanded into a   *)
(* value, and what is counted is the expansion, not the table.  A cell is what *)
(* lies at an offset; two references may have one offset.  What is inside a    *)
(* scalar is opaque; a string has its text and the bytes it is charged.         *)
(***************************************************************************)
EXTENDS Integers, Sequences, FiniteSets, FiniteSetsExt

CONSTANTS
  MaxDepth, MaxValues, MaxSize,
  Graphs,       \* what may lie at the cells: functions from cells
  Tables,       \* object tables: functions from references to cells
  Texts         \* [text -> bytes charged]

VARIABLES
  cells, table,
  strict, native  \* the outcomes of decodeBinary, or Pending

vars == <<cells, table, strict, native>>

Pending == [error |-> "pending"]
Top == 0

---------------------------------------------------------------------------
(* The decoder *)

Value(kind, v) == <<kind, v>>

\* What a decoder has: the expanded values and bytes, the calls of object, and its error.
Start == [values |-> 1, bytes |-> 0, calls |-> 0, error |-> "none", value |-> <<"none", 0>>]
Fail(p, e) == [p EXCEPT !.error = e]
Give(p, v) == [p EXCEPT !.value = v]

\* Mutant of Enter: only the children of one collection are counted.
EnterFlat(p, count) ==
  IF count > MaxValues THEN Fail(p, "limit") ELSE [p EXCEPT !.values = Max({@, count})]

\* The children of a collection are charged before the first is decoded.
Enter(p, count) ==
  IF count > MaxValues - p.values THEN Fail(p, "limit") ELSE [p EXCEPT !.values = @ + count]

\* Mutant of Charge: the bytes of this string are not counted in its own check.
ChargeLate(p, cost) ==
  IF p.bytes > MaxSize THEN Fail(p, "limit") ELSE [p EXCEPT !.bytes = @ + cost]

\* Mutant of Charge: the last byte is not given out.
ChargeTight(p, cost) ==
  IF cost >= MaxSize - p.bytes THEN Fail(p, "limit") ELSE [p EXCEPT !.bytes = @ + cost]

Charge(p, cost) ==
  IF cost > MaxSize - p.bytes THEN Fail(p, "limit") ELSE [p EXCEPT !.bytes = @ + cost]

\* Mutant of Bind: a later key replaces an earlier one.
BindLast(m, key, v) == [k \in DOMAIN m \cup {key} |-> IF k = key THEN v ELSE m[k]]

\* The first of equal keys wins.
Bind(m, key, v) == [k \in DOMAIN m \cup {key} |-> IF k \in DOMAIN m THEN m[k] ELSE v]

Activate(active, cell) == active \cup {cell}

RECURSIVE object(_, _, _, _, _), array(_, _, _, _, _, _), dict(_, _, _, _, _, _)

array(p, refs, out, active, depth, isNative) ==
  IF p.error # "none" \/ Len(out) = Len(refs) THEN Give(p, Value("array", out))
  ELSE LET q == object(p, refs[Len(out) + 1], active, depth + 1, isNative)
       IN array(q, refs, Append(out, q.value), active, depth, isNative)

dict(p, pairs, m, active, depth, isNative) ==
  IF p.error # "none" \/ pairs = <<>> THEN Give(p, Value("dict", m))
  ELSE LET k == object(p, Head(pairs)[1], active, depth + 1, isNative)
           v == object(k, Head(pairs)[2], active, depth + 1, isNative)
       IN CASE k.error # "none" -> k
            [] k.error = "none" /\ k.value[1] # "text" -> Fail(k, "key")
            [] OTHER ->
                 IF k.value[2] \in DOMAIN m /\ ~isNative THEN Fail(k, "duplicate")
                 ELSE IF v.error # "none" THEN v
                 ELSE dict(v, Tail(pairs), Bind(m, k.value[2], v.value), active, depth, isNative)

object(p, ref, active, depth, isNative) ==
  LET c == table[ref]
      cell == cells[c]
      q == [p EXCEPT !.calls = @ + 1]
      entered == Enter(q, IF cell.kind = "dict" THEN 2 * Len(cell.refs) ELSE Len(cell.refs))
      inside == Activate(active, c)
  IN CASE depth > MaxDepth -> Fail(q, "limit")
       [] depth <= MaxDepth /\ ref \notin DOMAIN table -> Fail(q, "reference")
       [] depth <= MaxDepth /\ ref \in DOMAIN table /\ c \in active -> Fail(q, "cycle")
       [] OTHER ->
            CASE cell.kind = "scalar" -> Give(q, Value("scalar", 0))
              [] cell.kind = "text" -> Give(Charge(q, Texts[cell.text]), Value("text", cell.text))
              [] cell.kind = "array" ->
                   IF entered.error # "none" THEN entered
                   ELSE array(entered, cell.refs, <<>>, inside, depth, isNative)
              [] cell.kind = "dict" ->
                   IF entered.error # "none" THEN entered
                   ELSE dict(entered, cell.refs, <<>>, inside, depth, isNative)

decodeBinary(isNative) == object(Start, Top, {}, 1, isNative)

Decode ==
  /\ strict = Pending
  /\ strict' = decodeBinary(FALSE) /\ native' = decodeBinary(TRUE)
  /\ UNCHANGED <<cells, table>>

Decoded == strict # Pending /\ UNCHANGED vars

Init ==
  /\ cells \in Graphs
  /\ table \in Tables
  /\ strict = Pending /\ native = Pending

Next == Decode \/ Decoded
Spec == Init /\ [][Next]_vars

---------------------------------------------------------------------------
(* What the graph stands for, without the decoder *)

Kids(c) ==
  LET x == cells[c] IN
  CASE x.kind = "array" -> x.refs
    [] x.kind = "dict" -> [k \in 1..2 * Len(x.refs) |-> x.refs[(k + 1) \div 2][2 - (k % 2)]]
    [] OTHER -> <<>>

Rows == DOMAIN table
KidCells(c) == {table[Kids(c)[k]] : k \in {j \in DOMAIN Kids(c) : Kids(c)[j] \in Rows}}

\* How many times a cell is met at a depth.
Met[d \in 1..MaxDepth + 1] ==
  [c \in DOMAIN cells |->
     IF d = 1 THEN IF c = table[Top] THEN 1 ELSE 0
     ELSE MapThenSumSet(LAMBDA b : Met[d - 1][b] *
            Cardinality({k \in DOMAIN Kids(b) : Kids(b)[k] \in Rows /\ table[Kids(b)[k]] = c}), DOMAIN cells)]

MetAt(c) == {d \in 1..MaxDepth + 1 : Met[d][c] > 0}
Reached == {c \in DOMAIN cells : MetAt(c) # {}}

Deep ==
  \/ \E c \in DOMAIN cells : Met[MaxDepth + 1][c] > 0
  \/ \E c \in DOMAIN cells : Met[MaxDepth][c] > 0 /\ Kids(c) # <<>>

Total(weight(_)) ==
  MapThenSumSet(LAMBDA c : weight(c) * MapThenSumSet(LAMBDA d : Met[d][c], 1..MaxDepth), DOMAIN cells)

Many == 1 + Total(LAMBDA c : Len(Kids(c))) > MaxValues
Long == Total(LAMBDA c : IF cells[c].kind = "text" THEN Texts[cells[c].text] ELSE 0) > MaxSize
Stray == \E c \in Reached : \E k \in DOMAIN Kids(c) : Kids(c)[k] \notin Rows
KeyCells(c) == IF cells[c].kind = "dict" THEN {cells[c].refs[k][1] : k \in DOMAIN cells[c].refs} ELSE {}
BadKey == \E c \in Reached : \E r \in KeyCells(c) : r \in Rows /\ cells[table[r]].kind # "text"

KeyText(c, k) == LET r == cells[c].refs[k][1] IN IF r \in Rows THEN cells[table[r]] ELSE [kind |-> "stray"]
Duplicate ==
  \E c \in Reached : cells[c].kind = "dict" /\
    \E j, k \in DOMAIN cells[c].refs :
      j < k /\ KeyText(c, j).kind = "text" /\ KeyText(c, j) = KeyText(c, k)

Below[d \in 1..MaxDepth] ==
  [c \in DOMAIN cells |->
     IF d = 1 THEN KidCells(c) ELSE Below[d - 1][c] \cup UNION {Below[d - 1][b] : b \in KidCells(c)}]
Cyclic == \E c \in Reached : c \in Below[MaxDepth][c]

RECURSIVE Meaning(_)
Meaning(c) ==
  LET x == cells[c] IN
  CASE x.kind = "scalar" -> Value("scalar", 0)
    [] x.kind = "text" -> Value("text", x.text)
    [] x.kind = "array" -> Value("array", [k \in DOMAIN x.refs |-> Meaning(table[x.refs[k]])])
    [] x.kind = "dict" ->
         Value("dict", [t \in {KeyText(c, k).text : k \in DOMAIN x.refs} |->
           LET first == Min({k \in DOMAIN x.refs : KeyText(c, k).text = t})
           IN Meaning(table[x.refs[first][2]])])

---------------------------------------------------------------------------

Errors == {"none", "limit", "reference", "cycle", "key", "duplicate"}

\* Type invariant.
TypeOK ==
  strict # Pending => \A o \in {strict, native} :
    o.error \in Errors /\ o.values \in 1..MaxValues /\ o.bytes \in 0..MaxSize /\ o.calls \in Nat

\* A graph is accepted when its expansion is finite and within the limits, its references are
\* in the table, its keys are texts, and, by the strict decoder, different; and then it is
\* decoded to what it stands for, the first of equal keys winning (binary.go:111-293).
DecodesTheGraph ==
  strict # Pending =>
    /\ native.error = "none" <=> ~(Deep \/ Many \/ Long \/ Stray \/ BadKey \/ Cyclic)
    /\ strict.error = "none" <=> native.error = "none" /\ ~Duplicate
    /\ native.error = "none" => native.value = Meaning(table[Top])
    /\ strict.error = "none" => strict.value = native.value

\* A refusal has the cause it states: a limit is never reported as a malformed list, nor the
\* other way round (plist.go:41-45).
RefusedForCause ==
  strict # Pending => \A o \in {strict, native} :
    CASE o.error = "limit" -> Deep \/ Many \/ Long
      [] o.error = "reference" -> Stray
      [] o.error = "cycle" -> Cyclic
      [] o.error = "key" -> BadKey
      [] o.error = "duplicate" -> Duplicate
      [] OTHER -> TRUE

\* However references share objects, no more objects are decoded than values are allowed
\* (binary.go:10-13, 240-251).
WorkIsBounded ==
  strict # Pending => \A o \in {strict, native} : o.calls <= o.values /\ o.calls <= MaxValues
=============================================================================
