----------------------------- MODULE MachOImage -----------------------------
(***************************************************************************)
(* parseImageRange and parseContainerRange.  A cell of a Mach-O file holds   *)
(* one field, or the fields that are only changed together:                  *)
(*   <<"head", cpu, commandCount, commandBytes>>       the header            *)
(*   <<"text", firstSection>>                          the __TEXT segment    *)
(*   <<"linkedit", start>>, <<"vm", n>>, <<"file", n>> the __LINKEDIT one    *)
(*   <<"symtab", symbols, count, strings, stringSize>> LC_SYMTAB             *)
(*   <<"sig", offset>>, <<"sigsize", n>>               LC_CODE_SIGNATURE     *)
(*   <<"fat", bits, n>>, n times <<"arch", cpu, offset, size, alignment>>    *)
(***************************************************************************)
EXTENDS OutputPlan, FiniteSets

\* The sizes of the commands this program knows; any other has one cell.
CommandSize(kind) == CASE kind = "linkedit" -> 3 [] kind = "sig" -> 2 [] OTHER -> 1
SigCommandSize == CommandSize("sig")
HeaderSize == 1

rangeOK(off, size, total) == off <= total /\ size <= total - off

NoSymbols == [present |-> FALSE]
NewImage(length) ==
  [ok |-> TRUE, cpu |-> "", commandCount |-> 0, commandBytes |-> 0, at |-> HeaderSize,
   sigCommand |-> -1, sigOffset |-> 0, sigSize |-> 0, linkedit |-> -1, linkStart |-> 0,
   firstSection |-> length, symbols |-> NoSymbols, duplicate |-> FALSE,
   strictCandidate |-> FALSE, strictValid |-> TRUE, order |-> <<>>]

Check(im, holds) == [im EXCEPT !.ok = @ /\ holds]

\* Only the first command that says where the link-edit data ends is judged.
Strict(im, valid) ==
  IF im.strictCandidate THEN im
  ELSE [im EXCEPT !.strictCandidate = TRUE, !.strictValid = valid]

\* LC_SYMTAB; a second one is only noticed.
Symtab(im, cell) ==
  IF im.symbols.present THEN [im EXCEPT !.duplicate = TRUE]
  ELSE [im EXCEPT !.symbols = [present |-> TRUE, symbols |-> cell[2], count |-> cell[3],
                               strings |-> cell[4], size |-> cell[5]]]

\* What a load command says of the image: its cells start at p, with cell.
Apply(data, im, p, cell, end) ==
  CASE cell[1] = "sig" ->
         Check([im EXCEPT !.sigCommand = p, !.sigOffset = cell[2], !.sigSize = data[p + 2][2]],
               im.sigCommand < 0 /\ cell[2] >= end /\ rangeOK(cell[2], data[p + 2][2], Len(data)))
    [] cell[1] = "linkedit" ->
         Strict(Check([im EXCEPT !.linkedit = p, !.linkStart = cell[2]],
                      im.linkedit < 0 /\ rangeOK(cell[2], data[p + 3][2], Len(data))),
                data[p + 3][2] = Len(data) - cell[2])
    [] cell[1] = "text" -> [im EXCEPT !.firstSection = IF cell[2] # 0 THEN Least(@, cell[2]) ELSE @]
    [] cell[1] = "symtab" -> Strict(Symtab(im, cell), cell[4] + cell[5] = Len(data))
    [] OTHER -> im

\* The load command at im.at, before the end of all of them.
Command(data, im, end) ==
  IF ~im.ok \/ im.at >= end \/ data[im.at + 1] = Zero \/ im.at + CommandSize(data[im.at + 1][1]) > end
  THEN [im EXCEPT !.ok = FALSE]
  ELSE Apply(data, [im EXCEPT !.at = @ + CommandSize(data[im.at + 1][1]), !.order = Append(@, data[im.at + 1][1])],
             im.at, data[im.at + 1], end)

Complete(im) == Check(im, im.at = HeaderSize + im.commandBytes /\ im.firstSection >= im.at)

Commands(data, im) ==
  FoldLeft(LAMBDA i, k : Command(data, i, HeaderSize + im.commandBytes), im, [k \in 1..im.commandCount |-> k])

parseImage(data) ==
  IF Len(data) < HeaderSize \/ data[1][1] # "head" THEN [NewImage(Len(data)) EXCEPT !.ok = FALSE]
  ELSE IF ~rangeOK(HeaderSize, data[1][4], Len(data)) \/ data[1][3] > data[1][4]
    THEN [NewImage(Len(data)) EXCEPT !.ok = FALSE]
  ELSE Complete(Commands(data, [NewImage(Len(data)) EXCEPT
                                  !.cpu = data[1][2], !.commandCount = data[1][3], !.commandBytes = data[1][4]]))

Slice(offset, size, alignment, image) ==
  [offset |-> offset, size |-> size, alignment |-> alignment, image |-> image]

BadContainer == [ok |-> FALSE, fat |-> FALSE, bits |-> 0, slices |-> <<>>]

Index(n) == 1 + n    \* the cells of a universal header with n entries

MaxAlignment == 30

Overlap(a, b) == a.offset < b.offset + b.size /\ b.offset < a.offset + a.size

WithSlice(c, cpu, s) ==
  [c EXCEPT !.slices = Append(@, s),
            !.ok = s.image.ok /\ s.image.cpu = cpu
                   /\ \A k \in 1..Len(c.slices) : c.slices[k].image.cpu # cpu /\ ~Overlap(c.slices[k], s)]

\* The next slice, from its entry of the universal header.
FatSlice(data, n, c, arch) ==
  IF c.ok /\ arch[1] = "arch" /\ arch[5] <= MaxAlignment /\ arch[3] % (2^arch[5]) = 0
     /\ arch[3] >= Index(n) /\ rangeOK(arch[3], arch[4], Len(data))
  THEN WithSlice(c, arch[2], Slice(arch[3], arch[4], arch[5], parseImage(SubSeq(data, arch[3] + 1, arch[3] + arch[4]))))
  ELSE [c EXCEPT !.ok = FALSE]

Thin(data, im) == [ok |-> im.ok, fat |-> FALSE, bits |-> 0, slices |-> <<Slice(0, Len(data), 0, im)>>]

parseFat(data, bits, n) ==
  IF n = 0 \/ Index(n) > Len(data) THEN BadContainer
  ELSE FoldLeft(LAMBDA c, arch : FatSlice(data, n, c, arch),
                [ok |-> TRUE, fat |-> TRUE, bits |-> bits, slices |-> <<>>], SubSeq(data, 2, 1 + n))

parseContainer(data) ==
  IF data = <<>> THEN BadContainer
  ELSE IF data[1][1] = "fat" THEN parseFat(data, data[1][2], data[1][3]) ELSE Thin(data, parseImage(data))
=============================================================================
