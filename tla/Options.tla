------------------------------- MODULE Options -------------------------------
(***************************************************************************)
(* The command line of macoscodesign up to its first operand: parse,        *)
(* configure, the usage check of Run, and the part of execute that reads    *)
(* the files its options name and refuses combinations.                     *)
(*                                                                         *)
(* An argument is <<"text", t>> (no option), <<"end">> ("--"),              *)
(* <<"long", name, t>> or <<"short", letters, flag, t>>: a cluster, its     *)
(* first letter that takes a value or "", and what is attached to that.  A   *)
(* text is <<n, body>>, body after n equal signs, and Absent is none.        *)
(***************************************************************************)
EXTENDS Integers, Sequences, SequencesExt, FiniteSets

CONSTANT Lines  \* command lines: units, what is meant, and args that say it

VARIABLES
  line,     \* one of them
  opts,     \* what they were parsed to
  stage,    \* what is done next
  exit,     \* the code of the process, or None
  loaded    \* the texts that named a file that was read

optionVars == <<line, opts, stage, exit, loaded>>

Absent == <<-1, "">>
Text(body) == <<0, body>>
Empty == Text("")
Adhoc == Text("-")
Strip(t) == IF t[1] > 0 THEN <<t[1] - 1, t[2]>> ELSE t

None == 99
NoTest == [from |-> "none", text |-> Empty]
NoOptions ==
  [operation |-> "", identity |-> Empty, identifier |-> Empty, requirements |-> Empty, required |-> FALSE,
   test |-> NoTest, strict |-> FALSE, disabled |-> FALSE, mask |-> {}, verbose |-> 0, page |-> "default",
   entitlements |-> Empty, key |-> Empty, password |-> Empty, trust |-> Empty, root |-> Empty, config |-> Empty,
   stampRoot |-> Empty, stamp |-> Empty, timeout |-> FALSE, fileList |-> FALSE, json |-> FALSE, paths |-> <<>>]

---------------------------------------------------------------------------
(* parse.  Its state is the options so far, the option that waits for the      *)
(* next argument, whether "--" was met, and the code of the first error.        *)

Unparsed == [o |-> NoOptions, take |-> "", rest |-> FALSE, code |-> None]
Refuse(st, code) == [st EXCEPT !.code = code]
SetField(st, field, v) == [st EXCEPT !.o[field] = v]

\* Mutant of Operation: the last one wins.
LastOperation(st, op) == SetField(st, "operation", op)
Operation(st, op) == IF st.o.operation \in {"", op} THEN SetField(st, "operation", op) ELSE Refuse(st, 2)

Selected(t) ==
  CASE t \in {Absent, Empty} -> {"symlinks", "sideband"} [] t[2] = "symlinks" -> {"symlinks"}
    [] t[2] = "other" -> {"other"} [] OTHER -> {}
Strict(st, t) ==
  IF t[2] = "bad" THEN Refuse(st, 1)
  ELSE [st EXCEPT !.o.strict = TRUE, !.o.mask = @ \cup Selected(t), !.o.disabled = @ \/ t[2] = "none"]

\* A caller's requirement as text; execute takes a text that begins with @ for the name
\* of a file, and parse has no other way to say that one was named.
Inline(t) == IF t = Empty THEN NoTest
             ELSE [from |-> IF t = Text("@file") THEN "file" ELSE "text", text |-> t]
InFile(t) == [from |-> "file", text |-> t]

FieldOf(name) ==
  CASE name = "password-file" -> "password" [] name = "trust-root" -> "root"
    [] name = "timestamp-root" -> "stampRoot" [] OTHER -> name
Value(st, name, t) ==
  CASE name = "sign" -> SetField(Operation(st, "sign"), "identity", t)
    [] name = "requirements" -> SetField(SetField(st, "requirements", t), "required", TRUE)
    [] name = "test-requirement" -> SetField(st, "test", Inline(t))
    [] name = "test file" -> SetField(st, "test", InFile(t))
    [] name = "pagesize" -> IF t[2] = "bad" THEN Refuse(st, 2) ELSE SetField(st, "page", t[2])
    [] name = "entitlements" -> IF t = Empty THEN Refuse(st, 1) ELSE SetField(st, "entitlements", t)
    [] name = "timestamp-timeout" -> IF t[2] = "bad" THEN Refuse(st, 2) ELSE SetField(st, "timeout", TRUE)
    [] name = "file-list" -> SetField(st, "fileList", TRUE)
    [] OTHER -> SetField(st, FieldOf(name), t)

Numbers == [zero |-> 0, two |-> 2, negative |-> -1]

Valued == {"sign", "identifier", "requirements", "test-requirement", "pagesize", "config", "entitlements", "key",
           "trust", "trust-root", "password-file", "timestamp-root", "timestamp-timeout", "file-list"}

\* Mutant of Take: the separate argument is the text.
TakeAsText(st, name) == [st EXCEPT !.take = name]
\* The requirement of -R or --test-requirement in an argument of its own is a file.
Take(st, name) == [st EXCEPT !.take = IF name = "test-requirement" THEN "test file" ELSE name]

Long(st, name, t) ==
  CASE name \in Valued -> IF t = Absent THEN Take(st, name) ELSE Value(st, name, t)
    [] name = "display" -> Operation(st, "display")
    [] name = "verify" -> Operation(st, "verify")
    [] name = "remove-signature" -> Operation(st, "remove")
    [] name = "strict" -> Strict(st, t)
    [] name = "no-strict" -> IF t # Absent THEN Refuse(st, 2) ELSE SetField(SetField(st, "strict", TRUE), "disabled", TRUE)
    [] name = "json" -> SetField(st, "json", TRUE)
    [] name = "verbose" -> IF t = Absent THEN SetField(st, "verbose", st.o.verbose + 1)
                           ELSE IF t[2] \in DOMAIN Numbers THEN SetField(st, "verbose", Numbers[t[2]]) ELSE Refuse(st, 2)
    [] name = "timestamp" -> IF t = Empty \/ t[2] = "bad" THEN Refuse(st, 1)
                             ELSE SetField(st, "stamp", IF t = Absent THEN Text("apple url") ELSE t)
    [] OTHER -> Refuse(st, 2)

Letter(st, c) ==
  CASE st.code # None -> st
    [] c = "v" -> SetField(st, "verbose", st.o.verbose + 1)
    [] c = "d" -> Operation(st, "display")
    [] c = "f" -> st
    [] OTHER -> Refuse(st, 2)             \* -h, or no option

NameOf(flag) ==
  CASE flag = "s" -> "sign" [] flag = "i" -> "identifier" [] flag = "r" -> "requirements"
    [] flag = "R" -> "test-requirement" [] flag = "P" -> "pagesize"

\* One equal sign between a flag and its value belongs to neither, but -r keeps it and
\* -R tells a text from a file by it.
Flag(st, flag, t) ==
  CASE st.code # None \/ flag = "" -> st
    [] t \in {Absent, Empty} -> Take(st, NameOf(flag))
    [] flag = "r" -> Value(st, "requirements", t)
    [] flag = "R" /\ t[1] = 0 -> Value(st, "test file", t)
    [] OTHER -> Value(st, NameOf(flag), Strip(t))
Cluster(st, letters, flag, t) == Flag(FoldLeft(Letter, st, letters), flag, t)

\* An argument as the value of the option before it, or as an operand.
AsText(a) == CASE a[1] = "text" -> a[2] [] a[1] = "end" -> Text("--") [] OTHER -> Text("option")

Argument(st, a) ==
  CASE st.code # None -> st
    [] st.take # "" -> [Value(st, st.take, AsText(a)) EXCEPT !.take = ""]
    [] st.rest \/ a[1] = "text" -> SetField(st, "paths", Append(st.o.paths, AsText(a)))
    [] a[1] = "end" -> [st EXCEPT !.rest = TRUE]
    [] a[1] = "long" -> Long(st, a[2], a[3])
    [] OTHER -> Cluster(st, a[2], a[3], a[4])

\* Apple's overloaded -v: without an operation it is one, and the others are verbosity.
Promote(o) == IF o.operation = "" /\ o.verbose > 0
              THEN [o EXCEPT !.operation = "verify", !.verbose = @ - 1] ELSE o
\* Mutant of StrictAllowed: the operation is not looked at.
BitsAllowed(o) == "other" \notin o.mask
StrictAllowed(o) ==
  o.strict => /\ o.operation = "verify" \/ (o.operation = "sign" /\ o.disabled /\ o.mask = {})
              /\ "other" \notin o.mask

Checked(st) ==
  CASE st.code # None -> st
    [] st.take # "" -> Refuse(st, 2)
    [] OTHER -> IF StrictAllowed(Promote(st.o)) THEN [st EXCEPT !.o = Promote(@)] ELSE Refuse(st, 2)

parse(args) == Checked(FoldLeft(Argument, Unparsed, args))

\* parse returns a struct.
ASSUME OptionsAssumption ==
  \A l \in Lines : DOMAIN parse(l.args).o = DOMAIN NoOptions

OptionsInit ==
  /\ line \in Lines
  /\ opts = NoOptions /\ stage = "parse" /\ exit = None /\ loaded = {}

Exit(code) == exit' = code /\ stage' = "end"
Go(next) == stage' = next /\ UNCHANGED exit

Parse ==
  /\ stage = "parse"
  /\ \E st \in {parse(line.args)} :
       /\ opts' = IF st.code = None THEN st.o ELSE opts
       /\ IF st.code = None THEN Go("configure") ELSE Exit(st.code)
  /\ UNCHANGED <<line, loaded>>

\* A configuration, named here or by the environment, sets --json and nothing else.
configure ==
  /\ stage = "configure"
  /\ \/ Go("usage") /\ opts' \in {opts, [opts EXCEPT !.json = TRUE]}
     \/ Exit(2) /\ UNCHANGED opts
  /\ UNCHANGED <<line, loaded>>

Usage ==
  /\ stage = "usage"
  /\ IF opts.operation = "" \/ opts.paths = <<>> THEN Exit(2) ELSE Go("host")
  /\ UNCHANGED <<line, opts, loaded>>

Signs == opts.operation = "sign"
Verifies == opts.operation = "verify"
Certified == Signs /\ opts.identity # Adhoc
Stamped == Certified /\ opts.stamp \notin {Empty, Text("none")}

\* The page size, and the profile of the host.
Host ==
  /\ stage = "host"
  /\ IF Signs /\ opts.page = "odd" THEN Exit(1)
     ELSE Go("combinations") \/ (Signs /\ Exit(1))
  /\ UNCHANGED <<line, opts, loaded>>

\* Mutant of Combined: whether the identity is one is not looked at.
CombinedLoosely ==
  /\ opts.key # Empty \/ opts.password # Empty => Signs
  /\ opts.trust # Empty \/ opts.root # Empty => Verifies
  /\ opts.password = Empty \/ opts.key = Empty
  /\ opts.stampRoot # Empty => Verifies \/ Stamped
  /\ opts.timeout => Stamped
Combined ==
  /\ opts.key # Empty \/ opts.password # Empty => Certified
  /\ opts.trust # Empty \/ opts.root # Empty => Verifies
  /\ opts.password = Empty \/ opts.key = Empty
  /\ opts.stampRoot # Empty => Verifies \/ Stamped
  /\ opts.timeout => Stamped

Combinations ==
  /\ stage = "combinations"
  /\ IF Combined THEN Go("trust") ELSE Exit(2)
  /\ UNCHANGED <<line, opts, loaded>>

\* Reading one file when the condition holds; it, or what it says, may be refused.
ReadFile(here, next, condition, t) ==
  /\ stage = here
  /\ \/ Go(next) /\ loaded' = IF condition THEN loaded \cup {t} ELSE loaded
     \/ condition /\ Exit(1) /\ UNCHANGED loaded
  /\ UNCHANGED <<line, opts>>

ReadTrust == ReadFile("trust", "root", opts.trust # Empty, opts.trust)
ReadTrustRoot == ReadFile("root", "stamp root", opts.root # Empty, opts.root)
ReadTimestampRoot ==
  ReadFile("stamp root", "entitlements", opts.stampRoot \notin {Empty, Text("apple")}, opts.stampRoot)
ReadEntitlements ==
  ReadFile("entitlements", "identity", opts.entitlements # Empty /\ Signs, opts.entitlements)

\* A PEM identity may have a key file, a PKCS #12 identity a password file.
LoadIdentity ==
  /\ stage = "identity"
  /\ \/ ~Certified /\ Go("requirements") /\ UNCHANGED loaded
     \/ /\ Certified /\ Go("requirements")
        /\ \/ opts.password = Empty /\ loaded' = loaded \cup {opts.identity} \cup ({opts.key} \ {Empty})
           \/ opts.key = Empty /\ loaded' = loaded \cup {opts.identity} \cup ({opts.password} \ {Empty})
     \/ Certified /\ Exit(1) /\ UNCHANGED loaded
  /\ UNCHANGED <<line, opts>>

ReadRequirements ==
  /\ stage = "requirements"
  /\ \/ opts.operation = "remove" /\ opts.required /\ Exit(1) /\ UNCHANGED loaded
     \/ /\ ~(opts.operation = "remove" /\ opts.required)
        /\ \E given \in {Signs /\ opts.requirements # Empty} :
             \/ Go("test") /\ loaded' = IF given /\ opts.requirements[1] = 0
                                       THEN loaded \cup {opts.requirements} ELSE loaded
             \/ given /\ Exit(1) /\ UNCHANGED loaded
  /\ UNCHANGED <<line, opts>>

\* What the file says takes the place of its name; an empty file is no requirement, and
\* no file has the empty name.
ReadTest ==
  /\ stage = "test"
  /\ \/ opts.test.from # "file" /\ Go("list") /\ UNCHANGED <<opts, loaded>>
     \/ /\ opts.test.from = "file" /\ opts.test.text # Empty /\ Go("list") /\ loaded' = loaded \cup {opts.test.text}
        /\ opts' \in {opts, [opts EXCEPT !.test = NoTest]}
     \/ opts.test.from = "file" /\ Exit(1) /\ UNCHANGED <<opts, loaded>>
  /\ UNCHANGED line

CheckList ==
  /\ stage = "list"
  /\ IF opts.fileList /\ opts.operation = "remove" THEN Exit(1) ELSE Go("operands")
  /\ UNCHANGED <<line, opts, loaded>>

OptionsNext ==
  \/ Parse \/ configure \/ Usage \/ Host \/ Combinations \/ ReadTrust \/ ReadTrustRoot
  \/ ReadTimestampRoot \/ ReadEntitlements \/ LoadIdentity \/ ReadRequirements \/ ReadTest \/ CheckList

OptionsSpec == OptionsInit /\ [][OptionsNext]_optionVars

---------------------------------------------------------------------------
(* What a command means: a sequence of units, each an option with its value in   *)
(* whatever form, or an operand.                                               *)

Kind(u) == u[1]
UnitsOf(us, k) == {i \in DOMAIN us : Kind(us[i]) = k}
Highest(S) == CHOOSE i \in S : \A j \in S : j <= i
LastOf(us, k, default) == IF UnitsOf(us, k) = {} THEN default ELSE us[Highest(UnitsOf(us, k))][2]
Has(us, k) == UnitsOf(us, k) # {}

NamedBy(u) == IF Kind(u) = "sign" THEN "sign" ELSE IF Kind(u) = "operation" THEN u[2] ELSE ""
Conflict(us, i) == \E j \in 1..i - 1 : NamedBy(us[i]) # "" /\ NamedBy(us[j]) \notin {"", NamedBy(us[i])}
Refusals(us) == {i \in DOMAIN us : Kind(us[i]) = "bad" \/ Conflict(us, i)}
Refusal(us) ==
  LET i == CHOOSE i \in Refusals(us) : \A j \in Refusals(us) : i <= j
  IN IF Kind(us[i]) = "bad" THEN us[i][2] ELSE 2

\* The verbosity that --verbose=N set last, and one for each -v after it.
Verbosity(us) ==
  LET set == IF Has(us, "verbosity") THEN Highest(UnitsOf(us, "verbosity")) ELSE 0
  IN LastOf(us, "verbosity", 0) + Cardinality({i \in UnitsOf(us, "v") : i > set})

Selectors(us) == {us[i][2] : i \in UnitsOf(us, "strict")}
Operands(us) == FoldLeft(LAMBDA all, u : IF Kind(u) = "path" THEN Append(all, u[2]) ELSE all, <<>>, us)

Stated(us) ==
  [operation |-> LET named == {NamedBy(us[i]) : i \in DOMAIN us} \ {""}
                 IN IF named = {} THEN "" ELSE CHOOSE op \in named : TRUE,
   identity |-> LastOf(us, "sign", Empty), identifier |-> LastOf(us, "identifier", Empty),
   requirements |-> LastOf(us, "requirements", Empty), required |-> Has(us, "requirements"),
   test |-> LET t == LastOf(us, "test", NoTest) IN IF t.text = Empty /\ t.from = "text" THEN NoTest ELSE t,
   strict |-> Has(us, "strict"), disabled |-> \E x \in Selectors(us) : "none" \in x,
   mask |-> UNION Selectors(us) \ {"none"},
   verbose |-> Verbosity(us), page |-> LastOf(us, "page", "default"),
   entitlements |-> LastOf(us, "entitlements", Empty), key |-> LastOf(us, "key", Empty),
   password |-> LastOf(us, "password", Empty), trust |-> LastOf(us, "trust", Empty),
   root |-> LastOf(us, "root", Empty), config |-> LastOf(us, "config", Empty),
   stampRoot |-> LastOf(us, "stampRoot", Empty), stamp |-> LastOf(us, "stamp", Empty),
   timeout |-> Has(us, "timeout"), fileList |-> Has(us, "fileList"), json |-> Has(us, "json"),
   paths |-> Operands(us)]

Meant(us) ==
  LET o == Stated(us)
  IN IF o.operation = "" /\ o.verbose > 0 THEN [o EXCEPT !.operation = "verify", !.verbose = @ - 1] ELSE o

\* Strict checks are of a verification; signing can only do without them.
StrictMeant(us, o) ==
  Has(us, "strict") =>
    /\ "other" \notin o.mask
    /\ o.operation = "verify"
       \/ (o.operation = "sign" /\ UNION Selectors(us) = {"none"})

(* Every way to write an option - in one argument, in two, in a cluster, with or   *)
(* without an equal sign - is parsed to what it means, whatever stands before and   *)
(* after it, and the first argument that is wrong decides the exit status.          *)
ParsedAsMeant ==
  stage = "parse" =>
    \E st \in {parse(line.args)} :
      IF Refusals(line.units) # {} THEN st.code = Refusal(line.units)
      ELSE IF ~StrictMeant(line.units, Meant(line.units)) THEN st.code = 2
      ELSE st.code = None /\ st.o = Meant(line.units)

OptionStages == {"parse", "configure", "usage", "host", "combinations", "trust", "root", "stamp root", "entitlements",
           "identity", "requirements", "test", "list", "operands", "end"}

(* Every variable has its type. *)
OptionsTypeOK ==
  /\ stage \in OptionStages /\ (stage = "end" <=> exit # None) /\ exit \in {1, 2, None}
  /\ opts.operation \in {"", "sign", "verify", "display", "remove"}
  /\ opts.mask \subseteq {"symlinks", "sideband", "other"} /\ opts.verbose \in Int
  /\ \A i \in DOMAIN opts.paths : opts.paths[i] \in Nat \X STRING

(* Options mean the same in every form. *)
FormsAgree == OptionsTypeOK /\ ParsedAsMeant

(* No credential, no root of trust and no requirement that a command names is       *)
(* ignored by an operation that starts, except what only the others use: every file  *)
(* was read, and what was named for another operation was refused.                  *)
NothingIgnored ==
  stage = "operands" =>
    /\ {opts.key, opts.password, opts.trust, opts.root, opts.stampRoot}
         \ {Empty, Text("apple")} \subseteq loaded
    /\ opts.key # Empty \/ opts.password # Empty => opts.identity \in loaded
    /\ Certified => opts.identity \in loaded
    /\ Signs /\ opts.entitlements # Empty => opts.entitlements \in loaded
    /\ Signs /\ opts.requirements # Empty /\ opts.requirements[1] = 0 => opts.requirements \in loaded
    /\ opts.test.from = "file" => opts.test.text \in loaded
    /\ opts.operation = "remove" => ~opts.required /\ ~opts.fileList

(* Nothing is read for a command that is refused for how its options combine.      *)
RefusedUnread == exit = 2 => loaded = {}

(* What a command that starts was told is heeded, and one that is refused did         *)
(* nothing.                                                                         *)
CommandsAreObeyed == NothingIgnored /\ RefusedUnread
=============================================================================
