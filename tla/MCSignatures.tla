---------------------------- MODULE MCSignatures ----------------------------
(***************************************************************************)
(* Small instances of MachOMutation and SignatureParsing: files that are       *)
(* signed and whose signatures are removed, and signatures that are parsed.    *)
(* A behaviour is of one of the two.                                          *)
(***************************************************************************)
EXTENDS MachOMutation

CONSTANTS Width, FirstExtent, Length, Counts, Records, Primary, Alternates, Typed, Written

VARIABLES
  part,       \* "files" or "signatures": whose behaviour this is
  blob, count, length, allowUnsigned, entries, owned, view

Parsing == INSTANCE SignatureParsing WITH file <- blob, i <- entries

---------------------------------------------------------------------------
(* Signatures: entries whose slots and flags vary, and then entries whose       *)
(* ranges vary.                                                                *)

MCSlots == {0, 2, 5, 8, 9}

Entry(slots, offs, ns, flags) ==
  {[slot |-> s, off |-> o, n |-> n, magic |-> f # "magic", sound |-> f # "directory", changed |-> f = "changed"] :
     s \in slots, o \in offs, n \in ns, f \in flags}

AllFlags == {"none", "magic", "directory", "changed"}

\* The first entry has any flaw; the others any slot or any range.
MCRecords ==
  <<Entry({0, 2, 8}, {0, 4, 5, 8, 14, 15}, {0, 1, 3}, AllFlags),
    Entry({0, 5, 9}, {6, 7, 9, 13}, {1, 3}, {"none"}),
    Entry({2, 8}, {5, 8, 10, 12}, {1, 4}, {"none", "directory"}),
    Entry({11}, {6, 8, 10, 14}, {1}, {"none"})>>

MCWritten ==
  {{[slot |-> s, n |-> f[s]] : s \in S} :
     S \in SUBSET MCSlots, f \in [MCSlots -> {1, 2}]}

---------------------------------------------------------------------------
(* Files: thin and universal files of one or two slices, unsigned and signed,   *)
(* with LINKEDIT before and after what is added or removed, room and no room,   *)
(* contents of every length modulo the alignment, and string tables that end    *)
(* the contents or do not.                                                     *)

Text(n) == [k \in 1..n |-> <<"t", k>>]

\* An image with its commands in the given order, gap free cells before its text of
\* two cells, and a LINKEDIT of n cells, of which the last unnamed ones follow the
\* string table; sig is the size of its signature, trailing follows it.
Image(cpu, order, gap, n, unnamed, sig, trailing) ==
  LET bytes == FoldLeft(LAMBDA sum, k : sum + CommandSize(k), 0, order)
      first == HeaderSize + bytes + gap
      start == first + 2
      end == start + n
      cells == [linkedit |-> <<<<"linkedit", start>>, <<"vm", 8>>, <<"file", n + sig + trailing>>>>,
                text |-> <<<<"text", first>>>>,
                symtab |-> <<<<"symtab", start, 1, start + 1, n - 1 - unnamed>>>>,
                other |-> <<<<"other", cpu>>>>,
                sig |-> <<<<"sig", end>>, <<"sigsize", sig>>>>]
      commands == FoldLeft(LAMBDA all, k : all \o cells[k], <<>>, order)
  IN <<<<"head", cpu, Len(order), bytes>>>> \o commands \o Zeros(gap) \o Text(2 + n)
       \o [k \in 1..sig |-> <<"cms", 0>>] \o Zeros(trailing)

Orders == {<<"text", "linkedit", "symtab", "other">>, <<"symtab", "text", "other", "linkedit">>}
SignedOrders == {<<"text", "linkedit", "symtab", "sig">>, <<"text", "sig", "linkedit", "symtab">>}

Unsigned == {Image("a", o, gap, n, u, 0, 0) : o \in Orders, gap \in {2, 4}, n \in {3, 4, 6}, u \in {0, 1}}
Signed == {Image("a", o, 0, n, u, 4, t) : o \in SignedOrders, n \in {3, 6}, u \in {0, 2}, t \in {0, 1}}
NoRoom == {Image("a", <<"text", "linkedit", "symtab">>, 1, 3, 0, 0, 0), Image("a", <<"text">>, 3, 3, 0, 0, 0)}

\* Two slices one after the other in the file, at the alignment a; the index may name
\* the second one first.
Universal(bits, one, two, a, swapped) ==
  LET at1 == RoundUp(3, 2^a)
      at2 == RoundUp(at1 + Len(one), 2^a)
      arch1 == <<"arch", one[1][2], at1, Len(one), a>>
      arch2 == <<"arch", two[1][2], at2, Len(two), a>>
  IN <<<<"fat", bits, 2>>>> \o (IF swapped THEN <<arch2, arch1>> ELSE <<arch1, arch2>>)
       \o Zeros(at1 - 3) \o one \o Zeros(at2 - at1 - Len(one)) \o two

Other == Image("b", <<"text", "linkedit", "other">>, 2, 3, 0, 0, 0)
OtherSigned == Image("b", <<"sig", "text", "linkedit">>, 0, 4, 0, 4, 0)

Fat == {Universal(bits, one, two, a, s) :
          bits \in {32, 64}, one \in {Image("a", <<"text", "linkedit", "symtab">>, 2, n, 0, 0, 0) : n \in {3, 6}},
          two \in {Other, OtherSigned}, a \in {2, 4}, s \in BOOLEAN}

MCFiles == Unsigned \cup Signed \cup NoRoom \cup Fat

Sealing(force, page, cms, legacy) ==
  [op |-> "sign", force |-> force, page |-> page, cms |-> cms, legacy |-> legacy]
MCOptions ==
  {Sealing(TRUE, 4, 0, FALSE), Sealing(TRUE, 8, 3, FALSE), Sealing(TRUE, 16, 5, FALSE),
   Sealing(TRUE, 8, 9, FALSE), Sealing(FALSE, 4, 0, TRUE)}

---------------------------------------------------------------------------

ParsingVars == <<blob, count, length, allowUnsigned, entries, owned, view>>

\* The other part stays in one of its initial states.
NoParsing == blob = <<>> /\ count = 0 /\ length = Length /\ allowUnsigned = TRUE /\ Parsing!Init
NoFile == original = Image("a", <<"text">>, 3, 3, 0, 0, 0) /\ Init

MCInit ==
  \/ part = "signatures" /\ Parsing!Init /\ NoFile
  \/ part = "files" /\ Init /\ NoParsing

MCNext ==
  \/ part = "signatures" /\ Parsing!Next /\ UNCHANGED <<part, vars>>
  \/ part = "files" /\ Next /\ UNCHANGED <<part, ParsingVars>>

MCSpec == MCInit /\ [][MCNext]_<<part, ParsingVars, vars>>

---------------------------------------------------------------------------
(* Properties *)

\* parseSignatureView accepts and finds what parseSignatureRange does, what is accepted
\* does not overlap, and what superblob writes is accepted.
ParsersAgree ==
  part = "signatures" => Parsing!TypeOK /\ Parsing!SameVerdict /\ Parsing!IndexAnswers
    /\ Parsing!AcceptedIsDisjoint /\ Parsing!WrittenIsAccepted

\* What mutateSource signs verifies, with every cell of the code sealed and kept; a
\* removal gives back what was there before the signature, and whatever was signed or
\* removed can be removed and signed again.
SigningKeepsCode ==
  part = "files" =>
    /\ TypeOK /\ SignedVerifies /\ CodeIsSealed
    /\ ContentKept /\ RemovalRestores /\ Reversible

=============================================================================
