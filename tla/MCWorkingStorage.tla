------------------------- MODULE MCWorkingStorage -------------------------
(* TLC instances of WorkingStorage: the sizes are chosen so that two full   *)
(* buffers do not fit, a section may or may not fit beside them, and the    *)
(* third section or a stage write overflows the counter.                    *)
EXTENDS WorkingStorage

CONSTANTS w1, w2, c1, c2, st1

TwoWorkers == {w1, w2}
TwoClosers == {c1, c2}
OneStage   == {st1}
=============================================================================
