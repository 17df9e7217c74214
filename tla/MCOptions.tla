------------------------------ MODULE MCOptions ------------------------------
(***************************************************************************)
(* Command lines of up to three options, each in all its forms, before and   *)
(* after operands.                                                          *)
(***************************************************************************)
EXTENDS Options

Piece(units, args) == [units |-> units, args |-> args]
Forms(u, forms) == {Piece(<<u>>, f) : f \in forms}

ArgOf(t) == CASE t = Text("--") -> <<"end">> [] t = Text("option") -> <<"long", "json", Absent>> [] OTHER -> <<"text", t>>
Separate(n, t) == <<<<"long", n, Absent>>, ArgOf(t)>>
Attached(n, t) == <<<<"long", n, t>>>>
LongForms(n, t) == {Separate(n, t)} \cup (IF t[2] \in {"--", "option"} THEN {} ELSE {Attached(n, t)})

ShortSeparate(f, t) == <<<<"short", <<>>, f, Absent>>, ArgOf(t)>>
Short(letters, f, t) == <<<<"short", letters, f, t>>>>
Equal(t) == <<t[1] + 1, t[2]>>
ShortForms(f, t) ==
  {ShortSeparate(f, t)}
    \cup (IF t[2] \in {"--", "option"} THEN {} ELSE {Short(<<>>, f, Equal(t))})
    \cup (IF t[1] = 0 /\ t[2] \notin {"", "--", "option"} THEN {Short(<<>>, f, t)} ELSE {})

SignForms == UNION {Forms(<<"sign", t>>, LongForms("sign", t) \cup ShortForms("s", t)) :
                      t \in {Adhoc, Text("id"), <<1, "id">>, Text("--"), Text("option")}}

RequirementForms ==
  UNION {Forms(<<"requirements", t>>, LongForms("requirements", t) \cup {ShortSeparate("r", t)}
               \cup (IF t = Empty THEN {} ELSE {Short(<<>>, "r", t)})) :
           t \in {Empty, Text("file"), <<1, "">>, <<1, "text">>, <<2, "text">>}}

TestForms ==
  UNION {Forms(<<"test", [from |-> "text", text |-> t]>>, {Attached("test-requirement", t), Short(<<>>, "R", Equal(t))}) :
           t \in {Empty, Text("text"), <<1, "text">>}}
  \cup Forms(<<"test", [from |-> "file", text |-> Text("@file")]>>, {Attached("test-requirement", Text("@file"))})
  \cup UNION {Forms(<<"test", [from |-> "file", text |-> t]>>,
                    {Separate("test-requirement", t), ShortSeparate("R", t)}
                    \cup (IF t[1] = 0 /\ t # Empty THEN {Short(<<>>, "R", t)} ELSE {})) :
                t \in {Empty, Text("file"), <<1, "text">>}}

Named(name, kind, t) == Forms(<<kind, t>>, LongForms(name, t))
Files ==
  Named("key", "key", Text("k")) \cup Named("password-file", "password", Text("p"))
  \cup Named("trust", "trust", Text("t")) \cup Named("trust-root", "root", Text("r"))
  \cup UNION {Named("timestamp-root", "stampRoot", Text(t)) : t \in {"apple", "r"}}
  \cup Named("entitlements", "entitlements", Text("e")) \cup Named("config", "config", Text("c"))
  \cup Forms(<<"fileList">>, LongForms("file-list", Text("-")))
  \cup Forms(<<"timeout">>, LongForms("timestamp-timeout", Text("15s")))
  \cup Forms(<<"identifier", Text("--")>>, {Separate("identifier", Text("--")), ShortSeparate("i", Text("--"))})
  \cup UNION {Forms(<<"page", n>>, LongForms("pagesize", Text(n)) \cup ShortForms("P", Text(n))) : n \in {"4096", "odd"}}

Bare(u, name) == Forms(u, {<<<<"long", name, Absent>>>>})
Flags ==
  Bare(<<"operation", "verify">>, "verify") \cup Bare(<<"operation", "remove">>, "remove-signature")
  \cup Forms(<<"operation", "display">>, {<<<<"long", "display", Absent>>>>, Short(<<"d">>, "", Absent)})
  \cup Forms(<<"v">>, {<<<<"long", "verbose", Absent>>>>, Short(<<"v">>, "", Absent)})
  \cup {Piece(<<<<"v">>, <<"v">>>>, Short(<<"v", "f", "v">>, "", Absent))}
  \cup UNION {Forms(<<"verbosity", Numbers[t]>>, {Attached("verbose", Text(t))}) : t \in DOMAIN Numbers}
  \cup {Piece(<<<<"v">>, <<"sign", Adhoc>>>>, Short(<<"f", "v">>, "s", Adhoc))}
  \cup {Piece(<<<<"operation", "display">>, <<"requirements", Text("-")>>>>, Short(<<"d">>, "r", Text("-")))}
  \cup Bare(<<"json">>, "json")
  \cup Bare(<<"stamp", Text("apple url")>>, "timestamp")
  \cup UNION {Forms(<<"stamp", Text(t)>>, {Attached("timestamp", Text(t))}) : t \in {"none", "url"}}

Selections ==
  Forms(<<"strict", {"symlinks", "sideband"}>>, {<<<<"long", "strict", Absent>>>>, Attached("strict", Empty)})
  \cup UNION {Forms(<<"strict", {t}>>, {Attached("strict", Text(t))}) : t \in {"symlinks", "other", "none"}}
  \cup Forms(<<"strict", {}>>, {Attached("strict", Text("zero"))}) \cup Bare(<<"strict", {"none"}>>, "no-strict")

Wrong ==
  Forms(<<"bad", 1>>, {Attached("strict", Text("bad")), Attached("entitlements", Empty), Separate("entitlements", Empty),
                       Attached("timestamp", Empty), Attached("timestamp", Text("bad"))})
  \cup Forms(<<"bad", 2>>, {Attached("no-strict", Empty), Attached("verbose", Text("x")), Attached("pagesize", Text("bad")),
                            Short(<<>>, "P", Text("bad")), Attached("timestamp-timeout", Text("bad")),
                            <<<<"long", "unknown", Absent>>>>, Short(<<"v", "h">>, "", Absent), Short(<<"x">>, "s", Adhoc)})

\* A value that is missing.
Dangling == Forms(<<"bad", 2>>, {<<<<"long", "sign", Absent>>>>, Short(<<"v">>, "R", Absent)})

Pieces == SignForms \cup RequirementForms \cup TestForms \cup Files \cup Flags \cup Selections \cup Wrong
Operand(t) == Piece(<<<<"path", t>>>>, <<<<"text", t>>>>)
Rest == Piece(<<<<"path", Text("option")>>, <<"path", Text("--")>>>>, <<<<"end">>, <<"long", "json", Absent>>, <<"end">>>>)

\* Enough to combine with every other, and three with each other.
Some ==
  Bare(<<"operation", "verify">>, "verify") \cup Bare(<<"operation", "remove">>, "remove-signature")
  \cup Forms(<<"v">>, {Short(<<"v">>, "", Absent)}) \cup Forms(<<"verbosity", 2>>, {Attached("verbose", Text("two"))})
  \cup Forms(<<"sign", Text("id")>>, {ShortSeparate("s", Text("id"))}) \cup Forms(<<"sign", Adhoc>>, {Short(<<>>, "s", Adhoc)})
  \cup Forms(<<"key", Text("k")>>, {Attached("key", Text("k"))})
  \cup Forms(<<"password", Text("p")>>, {Attached("password-file", Text("p"))})
  \cup Forms(<<"stampRoot", Text("r")>>, {Separate("timestamp-root", Text("r"))})
  \cup Forms(<<"timeout">>, {Attached("timestamp-timeout", Text("15s"))})
  \cup Bare(<<"stamp", Text("apple url")>>, "timestamp") \cup Forms(<<"strict", {"none"}>>, {Attached("strict", Text("none"))})

Nothing == Piece(<<>>, <<>>)
Joined(ps) == Piece(FoldLeft(LAMBDA all, p : all \o p.units, <<>>, ps), FoldLeft(LAMBDA all, p : all \o p.args, <<>>, ps))

MCLines ==
  {Joined(<<p, q, Operand(Text("a"))>>) : p \in Some, q \in Pieces}
  \cup {Joined(<<p, Operand(Text("a")), q>>) : p \in Pieces, q \in Some}
  \cup {Joined(<<Operand(Adhoc), p, last>>) : p \in Pieces \cup {Nothing}, last \in {Nothing, Rest} \cup Dangling}
  \cup {Joined(<<p, q, r, Operand(Text("a"))>>) : p, q, r \in Some}

(* A requirement that -R or --test-requirement supplies to a verification is         *)
(* evaluated (docs/requirement-verification.md:19).                                  *)
SuppliedIsEvaluated ==
  stage = "operands" /\ Verifies /\ Has(line.units, "test") => opts.test # NoTest
=============================================================================
