----------------------------- MODULE OutputPlan -----------------------------
(***************************************************************************)
(* outputPlan: generated metadata and borrowed ranges of other sources,     *)
(* laid end to end, and read through io.ReaderAt.  A file is a sequence of   *)
(* cells; offsets count cells.                                               *)
(***************************************************************************)
EXTENDS Integers, Sequences, SequencesExt

Least(a, b) == IF a < b THEN a ELSE b
Most(a, b) == IF a > b THEN a ELSE b
RoundUp(n, to) == ((n + to - 1) \div to) * to

Zero == <<"zero">>
Zeros(n) == [i \in 1..n |-> Zero]

\* A reader: a file or generated bytes, zeroSource, or a plan.
Cells(cells) == [kind |-> "cells", cells |-> cells]
ZeroReader == [kind |-> "zero"]

Source(reader, offset, size) == [reader |-> reader, offset |-> offset, size |-> size]
byteOutput(cells) == Source(Cells(cells), 0, Len(cells))
ZeroSource(size) == Source(ZeroReader, 0, size)
Part(source, at, size) == Source(source.reader, source.offset + at, size)

Span(start, source) == [start |-> start, source |-> source]

NewPlan == [kind |-> "plan", spans |-> <<>>, size |-> 0, ok |-> TRUE]

\* append; a range that does not make sense spoils the plan.
append(p, src) ==
  IF src.offset < 0 \/ src.size < 0 THEN [p EXCEPT !.ok = FALSE]
  ELSE IF src.size = 0 THEN p
  ELSE [p EXCEPT !.spans = Append(@, Span(p.size, src)), !.size = @ + src.size]

output(p) == Source(p, 0, p.size)

\* ReadAt: the cells that are returned; fewer than n of them is an error.
RECURSIVE ReadAt(_, _, _), ReadSpans(_, _, _, _, _)

\* The rest of n cells from the spans of a plan that follow the ones that were read.
ReadSpans(spans, k, at, n, read) ==
  IF k > Len(spans) \/ Len(read) = n THEN read
  ELSE LET source == spans[k].source
           from == at + Len(read) - spans[k].start
           len == Least(n - Len(read), source.size - from)
       IN ReadSpans(spans, k + 1, at, n,
            IF from >= source.size THEN read ELSE read \o ReadAt(source.reader, source.offset + from, len))

ReadAt(r, at, n) ==
  CASE r.kind = "zero" -> Zeros(n)
    [] r.kind = "cells" -> SubSeq(r.cells, at + 1, Least(at + n, Len(r.cells)))
    [] r.kind = "plan" -> ReadSpans(r.spans, 1, at, n, <<>>)

\* Everything a source holds, as transferOutput copies it.
materializeOutput(src) == ReadAt(src.reader, src.offset, src.size)

\* The source up to end, and zeros where it has ended.
Extended(p, end) == append(p, ZeroSource(end - p.size))
appendBase(p, base, end) ==
  Extended(IF p.size < Least(end, base.size)
             THEN append(p, Part(base, p.size, Least(end, base.size) - p.size)) ELSE p, end)

Patch(p, base, size, patch) ==
  IF patch.start < p.size \/ patch.start > size \/ patch.source.size > size - patch.start
    THEN [p EXCEPT !.ok = FALSE]
    ELSE append(appendBase(p, base, patch.start), patch.source)

Finished(p, base, size) == IF p.ok THEN appendBase(p, base, size) ELSE p

patchedOutput(base, size, patches) ==
  Finished(FoldLeft(LAMBDA p, patch : Patch(p, base, size, patch), NewPlan, patches), base, size)
=============================================================================
