--------------------------- MODULE MachOMutation ---------------------------
(***************************************************************************)
(* mutateSource and verifyInput on thin and universal files: signing lays    *)
(* out LC_CODE_SIGNATURE, the LINKEDIT segment and the signature of every    *)
(* slice, removal takes them out, both as plans over the file that is still  *)
(* in place, and the plans of the slices are assembled into a new universal  *)
(* file.  A digest is the digested cells; a CMS signature is so many cells.  *)
(***************************************************************************)
EXTENDS MachOImage

CONSTANTS
  Files,      \* the files that exist before the first operation
  Options,    \* of signing: force, page, cms (cells; none is ad hoc), legacy
  MaxSize,    \* math.MaxUint32
  MaxOps      \* bound: operations on one file

VARIABLES
  original,   \* the file before the first operation
  file,       \* the file now
  last,       \* the last operation that replaced it
  result,     \* what the last operation returned
  ops

vars == <<original, file, last, result, ops>>

Align == 4          \* of the signature, and of its size
MaxPad == 3         \* removal: what may lie between the string table and the signature
MaxTrailing == 1    \* removal: what may follow the signature
VmPage == 8
MinAlignment == 3   \* of the slices of a universal file that is written
CMSReserve == 5     \* defaultCMSSize

Failure(err) == [err |-> err, out |-> ZeroSource(0)]
Success(plan) == IF plan.ok THEN [err |-> "", out |-> output(plan)] ELSE Failure("malformed")

Header(im, more) == <<"head", im.cpu, im.commandCount + more, im.commandBytes + more * SigCommandSize>>

CommandsEnd(im) == HeaderSize + im.commandBytes
HasRoom(im, data) ==
  LET pos == CommandsEnd(im)
  IN pos + SigCommandSize <= Least(Len(data), im.firstSection)
     /\ SubSeq(data, pos + 1, pos + SigCommandSize) = Zeros(SigCommandSize)

\* Mutant of vmSize: the signature is added to what the file has now.
vmSizeAdded(im, source, codeEnd, end) == RoundUp(source.size + end - codeEnd - im.linkStart, VmPage)

vmSize(im, source, codeEnd, end) == RoundUp(end - im.linkStart, VmPage)

\* The patches in their order, with the signature command at pos.
InOrder(im, pos, head, command, segment) ==
  IF pos < im.linkedit THEN <<head, command>> \o segment ELSE <<head>> \o segment \o <<command>>

\* signingCommandOutput: the changed fields over the borrowed commands.
signingCommandOutput(im, source, codeEnd, sigSize, end) ==
  LET pos == IF im.sigCommand < 0 THEN CommandsEnd(im) ELSE im.sigCommand
  IN patchedOutput(source, end,
       InOrder(im, pos,
         Span(0, byteOutput(<<Header(im, IF im.sigCommand < 0 THEN 1 ELSE 0)>>)),
         Span(pos, byteOutput(<<<<"sig", codeEnd>>, <<"sigsize", sigSize>>>>)),
         <<Span(im.linkedit + 1, byteOutput(<<<<"vm", vmSize(im, source, codeEnd, end)>>>>)),
           Span(im.linkedit + 2, byteOutput(<<<<"file", end - im.linkStart>>>>))>>))

\* hashCodePagesTo: the digest of every page, the last one shorter.
PageDigests(source, codeEnd, page) ==
  [k \in 1..((codeEnd + page - 1) \div page) |->
     <<"digest", materializeOutput(Part(source, (k - 1) * page, Least(page, codeEnd - (k - 1) * page)))>>]

codeEndOf(im, source) == RoundUp(IF im.sigCommand >= 0 THEN im.sigOffset ELSE source.size, Align)

\* superblobOutput of the directory and the CMS signature.
Signature(codeEnd, digests, o) ==
  <<<<"index", 2 + Len(digests) + o.cms>>, <<"cd", codeEnd, Len(digests), o.page, o.cms = 0>>>>
    \o digests \o [k \in 1..o.cms |-> <<"cms", o.cms>>]

SigSize(codeEnd, o) ==
  RoundUp(2 + (codeEnd + o.page - 1) \div o.page + (IF o.cms > 0 \/ o.legacy THEN CMSReserve ELSE 0), Align)

\* Mutant of hashedSource: the digests are those of the file as it was.
hashedSourceOld(patched, source) == source

\* What is hashed: the code with its changed commands.
hashedSource(patched, source) == patched

\* The signature over the patched code that precedes it.
Sealed(patched, codeEnd, end, sigSize, sig) ==
  IF Len(sig) > sigSize THEN Failure("invalid")
  ELSE Success(patchedOutput(output(patched), end, <<Span(codeEnd, byteOutput(sig))>>))

Seal(patched, source, codeEnd, sigSize, o) ==
  IF ~patched.ok THEN Failure("malformed")
  ELSE Sealed(patched, codeEnd, codeEnd + sigSize, sigSize,
              Signature(codeEnd, PageDigests(hashedSource(output(patched), source), codeEnd, o.page), o))

signAt(im, source, o, codeEnd, sigSize) ==
  IF im.sigCommand >= 0 /\ ~o.force THEN Failure("signed")
  ELSE IF im.linkedit < 0 THEN Failure("malformed")
  ELSE IF im.sigCommand >= 0 /\ im.sigOffset + im.sigSize # source.size THEN Failure("unsupported")
  ELSE IF source.size > MaxSize \/ codeEnd + sigSize > MaxSize THEN Failure("allocation")
  ELSE IF im.sigCommand < 0 /\ ~HasRoom(im, materializeOutput(source)) THEN Failure("room")
  ELSE Seal(signingCommandOutput(im, source, codeEnd, sigSize, codeEnd + sigSize), source, codeEnd, sigSize, o)

signImageSource(im, source, o) ==
  signAt(im, source, o, codeEndOf(im, source), SigSize(codeEndOf(im, source), o))

---------------------------------------------------------------------------

SymbolsFit(im) ==
  LET s == im.symbols  end == im.sigOffset
  IN /\ rangeOK(s.strings, s.size, end)
     /\ s.size # 0 => s.strings >= Most(im.linkStart, CommandsEnd(im))
     /\ rangeOK(s.symbols, s.count, end) /\ (s.count # 0 => s.symbols >= im.linkStart)

StringsEnd(im) == im.symbols.strings + im.symbols.size
Padded(im) == im.symbols.present /\ StringsEnd(im) < im.sigOffset /\ im.sigOffset - StringsEnd(im) <= MaxPad

SymbolsBad(im) ==
  im.symbols.present =>
    \/ ~SymbolsFit(im) \/ im.duplicate
    \/ Padded(im) /\ (StringsEnd(im) < im.linkStart \/ im.symbols.symbols + im.symbols.count > StringsEnd(im))

\* Mutant of RemovedEnd: the padding before the signature stays.
RemovedEndPadded(im) == im.sigOffset

\* Where the slice ends without its signature, and without the padding before it.
RemovedEnd(im) == IF Padded(im) THEN StringsEnd(im) ELSE im.sigOffset

\* Mutant of shifted: the freed command keeps its old contents.
shiftedUncleared(im, source) ==
  LET from == im.sigCommand + SigCommandSize  end == CommandsEnd(im)
  IN patchedOutput(source, RemovedEnd(im),
       <<Span(0, byteOutput(<<Header(im, -1)>>)), Span(im.sigCommand, Part(source, from, end - from))>>)

\* The commands after the removed one are borrowed, one command further left.
shifted(im, source) ==
  LET from == im.sigCommand + SigCommandSize  end == CommandsEnd(im)
  IN patchedOutput(source, RemovedEnd(im),
       <<Span(0, byteOutput(<<Header(im, -1)>>)),
         Span(im.sigCommand, Part(source, from, end - from)),
         Span(end - SigCommandSize, ZeroSource(SigCommandSize))>>)

\* Mutant of movedLinkedit: LINKEDIT is patched where it was before the shift.
movedLinkeditNot(im) == im.linkedit

movedLinkedit(im) == IF im.linkedit > im.sigCommand THEN im.linkedit - SigCommandSize ELSE im.linkedit

\* LINKEDIT ends with the slice.
Shrunk(im, commands) ==
  IF ~commands.ok THEN Failure("malformed")
  ELSE Success(patchedOutput(output(commands), RemovedEnd(im),
                 <<Span(movedLinkedit(im) + 2, byteOutput(<<<<"file", RemovedEnd(im) - im.linkStart>>>>))>>))

removeImageSource(im, source) ==
  IF im.linkedit < 0 THEN Failure("malformed")
  ELSE IF im.sigCommand < 0 THEN [err |-> "", out |-> source]
  ELSE IF source.size - im.sigOffset - im.sigSize > MaxTrailing THEN Failure("unsupported")
  ELSE IF im.linkStart > im.sigOffset \/ (im.symbols.present /\ SymbolsBad(im)) \/ RemovedEnd(im) < CommandsEnd(im)
    THEN Failure("malformed")
  ELSE Shrunk(im, shifted(im, source))

---------------------------------------------------------------------------

\* A field of a 32-bit universal header.
Put(x, bits) == IF bits = 32 THEN x % (MaxSize + 1) ELSE x

\* Mutant of TooLong: the end of a 32-bit universal file is not checked.
TooLongNever(bits, p) == FALSE

TooLong(bits, p) == bits = 32 /\ p.size > MaxSize

\* One slice more, which starts where padded ends; p has it.
AddSlice(a, c, padded, p, i, size, alignment) ==
  [plan |-> p, long |-> TooLong(c.bits, p),
   header |-> Append(a.header, <<"arch", c.slices[i].image.cpu, Put(padded.size, c.bits), Put(size, c.bits), alignment>>)]

AddPadded(a, c, padded, i, part, alignment) == AddSlice(a, c, padded, append(padded, part), i, part.size, alignment)

\* The header is filled in after the plan has borrowed it.
Filled(all) ==
  IF all.long THEN Failure("allocation") ELSE Success([all.plan EXCEPT !.spans[1].source = byteOutput(all.header)])

assembleSources(c, parts, alignments) ==
  IF ~c.fat THEN [err |-> "", out |-> parts[1]]
  ELSE Filled(FoldLeft(
         LAMBDA a, i : IF a.long THEN a
                       ELSE AddPadded(a, c, append(a.plan, ZeroSource((-a.plan.size) % (2^alignments[i]))), i,
                                      parts[i], alignments[i]),
         [plan |-> append(NewPlan, ZeroSource(Index(Len(parts)))), header |-> <<<<"fat", c.bits, Len(parts)>>>>, long |-> FALSE],
         [i \in 1..Len(parts) |-> i]))

mutateSlice(s, source, o) ==
  IF o.op = "remove" THEN removeImageSource(s.image, Part(source, s.offset, s.size))
  ELSE signImageSource(s.image, Part(source, s.offset, s.size), o)

\* The slices end to end, or what the first of them failed with.
Assembled(c, parts, o) ==
  IF \E i \in DOMAIN parts : parts[i].err # ""
  THEN parts[CHOOSE i \in DOMAIN parts : parts[i].err # "" /\ \A j \in 1..i - 1 : parts[j].err = ""]
  ELSE assembleSources(c, [i \in DOMAIN parts |-> parts[i].out],
         [i \in DOMAIN parts |-> IF o.op = "remove" THEN MinAlignment ELSE Most(c.slices[i].alignment, MinAlignment)])

mutateParsed(c, source, o) ==
  IF ~c.ok THEN Failure("malformed")
  ELSE IF source.size > MaxSize THEN Failure("allocation")
  ELSE Assembled(c, [i \in 1..Len(c.slices) |-> mutateSlice(c.slices[i], source, o)], o)

\* mutateSource; o is the options of signing, or "remove".
mutateSource(data, o) == mutateParsed(parseContainer(data), byteOutput(data), o)

---------------------------------------------------------------------------
(* Verification of code pages and of the layout *)

SliceOf(data, s) == SubSeq(data, s.offset + 1, s.offset + s.size)

\* Mutant of Covered: a last page that is not whole is not compared.
CoveredWhole(d) == d[2] \div d[4]

Covered(d) == d[3]

PagesMatch(data, s, d) ==
  \A k \in 1..Covered(d) :
    LET start == s.offset + (k - 1) * d[4]  end == Least(start + d[4], s.offset + d[2])
    IN SubSeq(data, s.offset + s.image.sigOffset + 2 + k, s.offset + s.image.sigOffset + 2 + k)
         = <<<<"digest", SubSeq(data, start + 1, end)>>>>

SealHolds(data, s) ==
  LET im == s.image  at == s.offset + im.sigOffset
  IN /\ im.sigCommand >= 0 /\ im.sigSize >= 2 /\ data[at + 1][1] = "index" /\ data[at + 2][1] = "cd"
     /\ data[at + 1][2] <= im.sigSize
     /\ LET d == data[at + 2]
        IN /\ d[2] = im.sigOffset /\ d[2] > 0
           /\ d[3] = (d[2] + d[4] - 1) \div d[4]
           /\ PagesMatch(data, s, d)

\* verifyStrictContainer; the native index stops at the first suspicious gap.
Gap(c, i) ==
  LET before == {c.slices[k].offset + c.slices[k].size : k \in {j \in 1..Len(c.slices) : c.slices[j].offset < c.slices[i].offset}}
  IN CHOOSE e \in before \cup {Index(Len(c.slices))} : \A f \in before : f <= e

StrictHolds(data, c) ==
  /\ \A i \in 1..Len(c.slices) : c.slices[i].image.strictValid
  /\ c.fat =>
       /\ c.bits = 32
       /\ \A i \in 1..Len(c.slices) :
            LET s == c.slices[i]  gap == s.offset - Gap(c, i)
            IN /\ gap < 2^s.alignment \/ Gap(c, i) = Index(Len(c.slices))
               /\ SubSeq(data, Gap(c, i) + 1, s.offset) = Zeros(gap)
       /\ \E i \in 1..Len(c.slices) : c.slices[i].offset + c.slices[i].size = Len(data)

verifiesParsed(data, c, strict) ==
  c.ok /\ (\A i \in 1..Len(c.slices) : SealHolds(data, c.slices[i])) /\ (strict => StrictHolds(data, c))

verifies(data, strict) == verifiesParsed(data, parseContainer(data), strict)

---------------------------------------------------------------------------

Mutate(o) ==
  /\ ops < MaxOps
  /\ \E done \in {mutateSource(file, o)} :
        /\ result' = done.err
        /\ file' = IF done.err = "" THEN materializeOutput(done.out) ELSE file
        /\ last' = IF done.err = "" THEN o ELSE last
  /\ ops' = ops + 1
  /\ UNCHANGED original

RemoveSignature == Mutate([op |-> "remove"])
Sign == \E o \in Options : Mutate(o)

Init ==
  /\ original \in Files /\ file = original
  /\ last = [op |-> "none"] /\ result = "" /\ ops = 0

Next == Sign \/ RemoveSignature
Spec == Init /\ [][Next]_vars

---------------------------------------------------------------------------

Now == parseContainer(file)
First == parseContainer(original)
Indices == 1..Len(First.slices)

Errors == {"", "signed", "room", "allocation", "malformed", "unsupported", "invalid"}

\* Type invariant: a file never exceeds what its offsets can express, and no error
\* but those of the code is returned.
TypeOK ==
  /\ original \in Files /\ ops \in 0..MaxOps /\ result \in Errors
  /\ last.op \in {"none", "sign", "remove"}
  /\ last.op # "none" /\ Now.bits # 64 => Len(file) <= MaxSize

\* LC_SYMTAB before LINKEDIT is judged in its place, and wide headers are not
\* supported: strict validation refuses what is signed there.
StrictCandidate ==
  First.bits # 64 /\ \A i \in Indices :
    LET im == First.slices[i].image IN SelectSeq(im.order, LAMBDA k : k \in {"symtab", "linkedit"})[1] = "linkedit"

\* What was signed verifies: every slice of the result is found again, its code ends
\* where its signature starts, the digests are those of the file that was written, and
\* the universal layout is the one strict validation asks for (sign.go:234-398,
\* macho_source.go:15-53, verify.go:254-288, strict_verification.go:33-87).
SignedVerifies == last.op = "sign" => verifies(file, StrictCandidate)

\* A tampered file: one cell is something else.
Tampered(i) == [file EXCEPT ![i] = <<"tampered", 0, 0, 0, 0>>]

\* No cell of the code of any slice can be changed without the verification failing,
\* the commands that locate the signature included (verify.go:262-288).
CodeIsSealed ==
  last.op = "sign" =>
    \A k \in 1..Len(Now.slices) :
      \A i \in Now.slices[k].offset + 1..Now.slices[k].offset + Now.slices[k].image.sigOffset :
        ~verifies(Tampered(i), FALSE)

\* What a slice holds besides its signature: the commands but the one that is added,
\* and the contents up to the string table or the end of the code.
Kept(data, s) ==
  LET im == s.image  cells == SliceOf(data, s)
      own == SubSeq(cells, HeaderSize + 1, CommandsEnd(im))
  IN SelectSeq(own, LAMBDA c : c[1] \notin {"sig", "sigsize", "vm", "file"})

Ends(im, size) == IF im.sigCommand >= 0 THEN im.sigOffset ELSE size

ContentEnd(s) ==
  LET end == Ends(s.image, s.size)  strings == StringsEnd(s.image)
  IN IF s.image.symbols.present /\ strings <= end /\ end - strings <= MaxPad THEN strings ELSE end

\* However often a file is signed and its signatures are removed, every slice keeps its
\* architecture, its place, its other commands and its contents; at the
\* end only what aligns the next signature is added: what was there, or zeros
\* (remove.go:57-88, macho_commands.go:11-60, output_plan.go:80-110).
ContentKept ==
  /\ Now.ok /\ Len(Now.slices) = Len(First.slices) /\ Now.fat = First.fat
  /\ \A i \in Indices :
       LET s == Now.slices[i]  f == First.slices[i]
           new == SliceOf(file, s)  old == SliceOf(original, f)
           padded == old \o Zeros(Align)
       IN /\ s.image.cpu = f.image.cpu /\ Kept(file, s) = Kept(original, f)
          /\ Ends(s.image, s.size) \in ContentEnd(f)..RoundUp(Ends(f.image, f.size), Align)
          /\ \A k \in f.image.firstSection + 1..ContentEnd(f) : new[k] = old[k]
          /\ \A k \in Ends(f.image, f.size) + 1..Ends(s.image, s.size) : new[k] \in {Zero, padded[k]}

\* After a removal no slice has a signature, the padding it had brought is gone when
\* the string table ends the contents, and LINKEDIT ends with the slice
\* (remove.go:47-88).
RemovalRestores ==
  last.op = "remove" =>
    \A i \in Indices :
      LET s == Now.slices[i]  f == First.slices[i]  cells == SliceOf(file, s)
      IN /\ s.image.sigCommand < 0
         /\ f.image.symbols.present /\ f.image.sigCommand < 0 /\ StringsEnd(f.image) = f.size => s.size = f.size
         /\ s.image.linkStart + cells[s.image.linkedit + 3][2] = s.size

\* Every slice of the file has a LINKEDIT segment, and a signature or room for one.
Signable ==
  \A i \in Indices :
    LET f == First.slices[i]
    IN f.image.linkedit >= 0 /\ (f.image.sigCommand >= 0 \/ HasRoom(f.image, SliceOf(original, f)))

\* A file that was signed can have its signatures removed, and one whose signatures
\* were removed has room to be signed again (sign.go:210-306, remove.go:15-60).
Reversible ==
  /\ last.op = "sign" => mutateSource(file, [op |-> "remove"]).err \in {"", "allocation"}
  /\ last.op = "remove" /\ Signable => \A o \in Options : mutateSource(file, o).err \in {"", "allocation", "invalid"}

\* Signing again in the same way gives the same file: the layout does not depend on
\* the signature that is replaced (sign.go:234-304).
ResignStable == [][result' = "" /\ last.op = "sign" /\ last' = last => file' = file]_vars
=============================================================================
