------------------------------ MODULE MCStartup ------------------------------
\* Command lines of up to four words and job files with up to three fields.
EXTENDS Startup, TLC

MCBoolFlags == {"-v"}
MCBadFlags == {"-x"}
MCWords == {"-v", "-x", "-f", "-j", "--", "a", "b", "jobs", "[", "*", "home"}
MCInputs == UNION { [1..n -> MCWords \ {"home"}] : n \in 0..4 }
\* "*" selects every file, a name the file of that name.
MCSelects == [w \in MCWords |-> CASE w = "*" -> MCWords [] w = "[" -> {} [] OTHER -> {w}]
MCFilesUnder == [w \in MCWords |-> IF w = "jobs" THEN <<"a", "b">> ELSE <<>>]

\* Chains in both directions, a cycle, a field that is not there and a
\* variable whose value is a reference.
MCDocuments ==
  {Literal("n"), Env("NAME"), Field(2)} \X
  {Literal("n"), Env("REF"), Field(1), Field(3)} \X
  {Literal("x"), Field(2), Field(4)}
MCContents ==
  ("a" :> MCDocuments) @@ ("b" :> {<<Literal("n")>>, <<Literal("m")>>}) @@ ("home" :> {<<Literal("n")>>})
MCEnvironment == ("NAME" :> Literal("m")) @@ ("REF" :> Field(3))
=============================================================================
