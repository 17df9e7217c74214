------------------------------ MODULE MCStreams ------------------------------
(***************************************************************************)
(* What the program exchanges with its outside, in small instances of         *)
(* Transfer, TimestampHTTP, BinaryPlist, Options and CommandLine: bytes from a  *)
(* source to a file or a hash, bytes that come from a server, property lists,   *)
(* the options a command is given and what it reports of its operands.  A       *)
(* behaviour is of one of the five.                                            *)
(***************************************************************************)
EXTENDS Transfer, TimestampHTTP, CommandLine, MCOptions, TLC

CONSTANTS
  PlistDepth, PlistValues, MaxSize, Graphs, Tables, Strings

VARIABLES
  part,       \* "transfer", "exchange", "plist", "options" or "operands"
  cells, table, strict, native

Plist == INSTANCE BinaryPlist WITH MaxDepth <- PlistDepth, MaxValues <- PlistValues, Texts <- Strings

---------------------------------------------------------------------------
(* Property lists: three cells, whose references may go to each other, to        *)
(* themselves and out of the table, of which two entries may be one cell.        *)

MCStrings == [a |-> 1, b |-> 3]

Scalar == {[kind |-> "scalar", refs |-> <<>>]}
TextCells == {[kind |-> "text", text |-> t, refs |-> <<>>] : t \in DOMAIN MCStrings}
ArrayCells(refs, ns) == UNION {{[kind |-> "array", refs |-> s] : s \in [1..n -> refs]} : n \in ns}
DictCells(keys, refs, ns) == UNION {{[kind |-> "dict", refs |-> s] : s \in [1..n -> keys \X refs]} : n \in ns}

\* Reference 3 is out of the table.
CellsAt(c) ==
  CASE c = 0 -> ArrayCells(0..3, {1}) \cup ArrayCells(1..3, {2}) \cup DictCells(0..2, 0..2, {1}) \cup DictCells({1, 2}, {1, 2}, {2})
    [] c = 1 -> Scalar \cup TextCells \cup ArrayCells(0..2, {0, 1}) \cup ArrayCells({0, 2}, {2}) \cup DictCells(0..2, 0..2, {1})
    [] c = 2 -> Scalar \cup TextCells \cup ArrayCells({1, 2}, {1, 2}) \cup DictCells({0, 1}, {0, 1}, {0, 1})

MCGraphs == {<<x, y, z>> : x \in CellsAt(0), y \in CellsAt(1), z \in CellsAt(2)}

MCTables == {[r \in 0..2 |-> r + 1], [r \in 0..2 |-> IF r = 2 THEN 2 ELSE r + 1]}

---------------------------------------------------------------------------

TransferVars == vars
PlistVars == <<cells, table, strict, native>>

\* A transfer that has not begun.
NoTransfer ==
  /\ job = [sink |-> "file", size |-> CHOOSE s \in Sizes : TRUE, page |-> SomePage]
  /\ dst = <<>> /\ canceled = FALSE
  /\ Init

\* A property list that was not read.
NoPlist ==
  /\ cells = <<[kind |-> "array", refs |-> <<1>>], [kind |-> "scalar", refs |-> <<>>], [kind |-> "scalar", refs |-> <<>>]>>
  /\ table = [r \in 0..2 |-> r + 1]
  /\ strict = Plist!Pending /\ native = Plist!Pending

\* A command whose options were not parsed, and one whose operand was not taken up.
NoShell ==
  /\ line = [units |-> <<<<"path", Adhoc>>>>, args |-> <<<<"text", Adhoc>>>>]
  /\ OptionsInit
NoCommand ==
  /\ o = [operation |-> "verify", paths |-> 1, continue |-> FALSE, json |-> FALSE, dryrun |-> FALSE, fileList |-> FALSE,
          requirements |-> FALSE, certificates |-> FALSE, entitlements |-> "none", checks |-> FALSE]
  /\ CommandInit

MCInit ==
  \/ part = "transfer" /\ NoShell /\ NoPlist /\ NoCommand /\ Init /\ ExchangeInit
  \/ part = "exchange" /\ NoShell /\ NoPlist /\ NoCommand /\ NoTransfer /\ ExchangeInit
  \/ part = "plist" /\ NoShell /\ NoCommand /\ NoTransfer /\ ExchangeInit /\ Plist!Init
  \/ part = "options" /\ NoPlist /\ NoCommand /\ NoTransfer /\ ExchangeInit /\ OptionsInit
  \/ part = "operands" /\ NoShell /\ NoPlist /\ NoTransfer /\ ExchangeInit /\ CommandInit

MCNext ==
  \/ part = "transfer" /\ Next /\ UNCHANGED <<part, exchangeVars, PlistVars, optionVars, commandVars>>
  \/ part = "exchange" /\ ExchangeNext /\ UNCHANGED <<part, TransferVars, PlistVars, optionVars, commandVars>>
  \/ part = "plist" /\ Plist!Next /\ UNCHANGED <<part, TransferVars, exchangeVars, optionVars, commandVars>>
  \/ part = "options" /\ OptionsNext /\ UNCHANGED <<part, TransferVars, exchangeVars, PlistVars, commandVars>>
  \/ part = "operands" /\ CommandNext /\ UNCHANGED <<part, TransferVars, exchangeVars, PlistVars, optionVars>>

\* The fairness of the part that runs: the caller's goroutine, and for an exchange
\* the timer and the calls on a connection that it closed.
MCFairness ==
  /\ WF_TransferVars(part = "transfer" /\ Work)
  /\ WF_exchangeVars(part = "exchange" /\ ExchangeClient)
  /\ WF_exchangeVars(part = "exchange" /\ Expire)
  /\ WF_exchangeVars(part = "exchange" /\ expired /\ CallFails)

MCSpec == MCInit /\ [][MCNext]_<<part, TransferVars, exchangeVars, PlistVars, optionVars, commandVars>> /\ MCFairness

---------------------------------------------------------------------------
(* Properties; Transfer states TransferIsExact and CommittedWhenWhole,
   TimestampHTTP ResponseIsWhole, Options FormsAgree and CommandsAreObeyed, and
   CommandLine OperandsAreReported *)

\* The decoder of binary property lists returns what the object graph stands for, in a
\* bounded number of steps, or refuses it for a cause.
PlistIsDecoded ==
  part = "plist" => Plist!TypeOK /\ Plist!WorkIsBounded /\ Plist!RefusedForCause /\ Plist!DecodesTheGraph

\* transferOutput ends whatever a reader or a writer answers, and an exchange
\* whatever the server does, also nothing.
StreamsEnd == (part = "transfer" => TransferEnds) /\ (part = "exchange" => ExchangeEnds)
=============================================================================
