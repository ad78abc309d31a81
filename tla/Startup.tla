------------------------------- MODULE Startup -------------------------------
(***************************************************************************)
(* From the command line to the list of jobs: ParseFlagSet, the choice     *)
(* between a folder and single files, getOneConfig with its substitutions, *)
(* and the checks of main before it starts the jobs.                       *)
(*                                                                         *)
(* A job file is the sequence of its texts, one per field in the order of  *)
(* the document; the first field is JOB_NAME.  A text is a literal or, as  *)
(* a whole, a reference to a variable or to another field.                 *)
(***************************************************************************)
EXTENDS Integers, Sequences

CONSTANTS
  Words,       \* words of a command line, and names of files and folders
  BoolFlags,   \* the ones that are flags: -v, -verbose, -oncerun
  BadFlags,    \* flags that are not defined
  Inputs,      \* command lines
  FilesUnder,  \* the files in each folder, in the order of the walk
  Selects,     \* the names of files each word selects as a pattern of filepath.Match
  BadPattern,  \* a word that is no such pattern
  HomeConfig,  \* $HOME/.config/cdddru/config.json
  Contents,    \* for each word that names a file, what a well-formed one may hold
  Environment  \* the text each variable stands for; unset ones are empty

ValueFlags == {"-f", "-j"}
Dashes == "--"
Flags == BoolFlags \cup ValueFlags \cup BadFlags \cup {Dashes}

Literal(x) == [kind |-> "literal", of |-> x]
Env(x) == [kind |-> "env", of |-> x]
Field(k) == [kind |-> "field", of |-> k]

ASSUME StartupAssumption ==
  /\ Flags \cup {BadPattern, HomeConfig} \subseteq Words
  /\ "" \notin Words
  /\ BoolFlags \cap (ValueFlags \cup BadFlags \cup {Dashes}) = {}
  /\ BadFlags \cap (ValueFlags \cup {Dashes}) = {}
  /\ Inputs \subseteq Seq(Words)
  /\ FilesUnder \in [Words -> Seq(Words)]
  /\ Selects \in [Words -> SUBSET Words] /\ Selects[BadPattern] = {}
  /\ DOMAIN Contents \subseteq Words
  /\ \A file \in DOMAIN Contents :
       \A text \in Contents[file] : text \in Seq({text[k] : k \in DOMAIN text})

VARIABLES
  phase,       \* where Startup, and then main, is
  input,       \* the command line; forgotten once it is parsed
  args,        \* words still to parse, then flag.Args()
  positional,  \* positionalArgs
  seen,        \* boolean flags that were set
  value,       \* values of the flags that have one
  folder,      \* whether a folder is walked
  todo,        \* files still to read
  doc,         \* the job file being read
  raw,         \* the same after the variables and before the fields
  matches,     \* references still to replace
  jobs         \* jobsConfigs

parseVars == <<input, args, positional, seen, value>>
fileVars == <<doc, raw, matches>>
vars == <<phase, parseVars, folder, todo, fileVars, jobs>>

\* Mutant: JOB_PATH is not set either.
ZeroWithoutPath(file) == [file |-> "", name |-> Literal("")]

\* A configuration that was not there, and one of a file whose extension is
\* neither .yaml nor .json, in which no field of the file is set.
Nil == [file |-> "", name |-> Literal("nil")]
Zero(file) == [file |-> file, name |-> Literal("")]

Phases == {"flags", "final", "plan", "load", "envs", "fields", "running", "exited"}

TypeOK ==
  /\ phase \in Phases
  /\ input \in Seq(Words) /\ args \in Seq(Words) /\ positional \in Seq(Words)
  /\ seen \subseteq BoolFlags
  /\ value \in [ValueFlags -> Words \cup {""}]
  /\ folder \in BOOLEAN
  /\ todo \in Seq(Words)
  /\ Len(raw) = Len(doc) /\ Len(matches) <= Len(doc)
  /\ \A k \in DOMAIN jobs : jobs[k] = Nil \/ jobs[k].file \in Words

Init ==
  /\ phase = "flags"
  /\ input \in Inputs /\ args = input
  /\ positional = <<>> /\ seen = {} /\ value = [f \in ValueFlags |-> ""]
  /\ folder = FALSE /\ todo = <<>>
  /\ doc = <<>> /\ raw = <<>> /\ matches = <<>>
  /\ jobs = <<>>

\* An error of Startup, a panic of main and os.Exit.
Exit == phase' = "exited"

-----------------------------------------------------------------------------
(***************************************************************************)
(* ParseFlagSet.  flag.Parse, of the standard library, stops at the first  *)
(* word that is no flag, or behind "--".                                   *)
(***************************************************************************)

\* The next word is a flag.
AtFlag == args # <<>> /\ Head(args) \in Flags \ {Dashes}

\* One flag at the head of args is parsed; an unknown one and one without its
\* value end the process.
ParseFlag ==
  /\ AtFlag
  /\ CASE Head(args) \in BoolFlags ->
            /\ seen' = seen \cup {Head(args)} /\ args' = Tail(args)
            /\ UNCHANGED <<phase, value>>
       [] Head(args) \in ValueFlags /\ Len(args) > 1 ->
            /\ value' = [value EXCEPT ![Head(args)] = args[2]] /\ args' = Tail(Tail(args))
            /\ UNCHANGED <<phase, seen>>
       [] OTHER -> Exit /\ UNCHANGED <<args, seen, value>>
  /\ UNCHANGED <<input, positional>>

Flag == phase = "flags" /\ ParseFlag /\ UNCHANGED <<folder, todo, fileVars, jobs>>

\* The words flag.Parse leaves.
Left == IF Head(args) = Dashes THEN Tail(args) ELSE args

\* Mutant: what flag.Parse leaves is all positional.
PositionalsLast ==
  /\ phase = "flags" /\ args # <<>> /\ ~AtFlag
  /\ positional' = positional \o Left /\ args' = <<>>
  /\ UNCHANGED <<phase, input, seen, value, folder, todo, fileVars, jobs>>

\* flag.Parse stopped: one word is positional and the rest is parsed again.
Positional ==
  /\ phase = "flags" /\ args # <<>> /\ ~AtFlag
  /\ IF Left = <<>>
       THEN args' = <<>> /\ UNCHANGED positional
       ELSE positional' = Append(positional, Head(Left)) /\ args' = Tail(Left)
  /\ UNCHANGED <<phase, input, seen, value, folder, todo, fileVars, jobs>>

\* The positional words are parsed once more, for flag.Args().
ParseAgain ==
  /\ phase = "flags" /\ args = <<>>
  /\ phase' = "final" /\ args' = positional
  /\ UNCHANGED <<input, positional, seen, value, folder, todo, fileVars, jobs>>

FlagAgain == phase = "final" /\ ParseFlag /\ UNCHANGED <<folder, todo, fileVars, jobs>>

Parsed ==
  /\ phase = "final" /\ ~AtFlag
  /\ phase' = "plan"
  /\ args' = IF args = <<>> THEN args ELSE Left
  /\ UNCHANGED <<input, positional, seen, value, folder, todo, fileVars, jobs>>

-----------------------------------------------------------------------------
(***************************************************************************)
(* Startup: which files are read.                                          *)
(***************************************************************************)

\* Without any word a binary walks jobs/config.json beside it, which is no
\* folder and so gives no file; go run reads a file in the home directory.
\* -jobname and -delay are defined and not used.
Plan ==
  /\ phase = "plan"
  /\ \/ /\ value["-j"] # ""
        /\ folder' = TRUE /\ todo' = FilesUnder[value["-j"]] /\ phase' = "load"
     \/ /\ value["-j"] = "" /\ (value["-f"] # "" \/ args # <<>>)
        /\ folder' = FALSE /\ phase' = "load"
        /\ todo' = (IF value["-f"] = "" THEN <<>> ELSE <<value["-f"]>>) \o args
     \/ /\ value["-j"] = "" /\ value["-f"] = "" /\ args = <<>>
        /\ \/ folder' = TRUE /\ todo' = <<>> /\ phase' = "load"
           \/ folder' = FALSE /\ todo' = <<HomeConfig>> /\ phase' = "load"
           \/ Exit /\ UNCHANGED <<folder, todo>>
  /\ input' = <<>> /\ positional' = <<>> /\ seen' = {}
  /\ UNCHANGED <<args, value, fileVars, jobs>>

\* filepath.Match of -f against the name of a file in the folder.
Selected(file) == (folder /\ value["-f"] # "") => file \in Selects[value["-f"]]

NextFile == todo' = Tail(todo) /\ UNCHANGED <<parseVars, folder>>

\* Mutant: every configuration is appended.
AppendAlways(config) == phase' = "load" /\ jobs' = Append(jobs, config)

\* A configuration is appended.  The walk looks for its name among the earlier
\* ones, which panics if one of them or the new one is nil.
AppendConfig(config) ==
  LET clash == \E k \in DOMAIN jobs : Nil \in {config, jobs[k]} \/ jobs[k].name = config.name
  IN  IF folder /\ clash
        THEN Exit /\ UNCHANGED jobs
        ELSE phase' = "load" /\ jobs' = Append(jobs, config)

\* Mutant: a file that cannot be read is skipped, wherever it was named.
SkipFile == phase' = "load" /\ UNCHANGED jobs

\* An error of getOneConfig ends Startup; in the walk the error that is
\* returned is another variable, so the file is only skipped.
ReadError == IF folder THEN phase' = "load" /\ UNCHANGED jobs ELSE Exit /\ UNCHANGED jobs

Skip ==
  /\ phase = "load" /\ todo # <<>> /\ ~Selected(Head(todo))
  /\ IF value["-f"] = BadPattern THEN Exit ELSE phase' = "load"
  /\ NextFile /\ UNCHANGED <<fileVars, jobs>>

\* The walk calls back without a FileInfo for a file that has disappeared since
\* the folder was listed, which panics.
WalkPanics ==
  /\ phase = "load" /\ folder /\ todo # <<>>
  /\ Exit /\ NextFile /\ UNCHANGED <<fileVars, jobs>>

\* at lists a set of positions in ascending order.
Ascending(at, where) ==
  /\ {at[k] : k \in DOMAIN at} = where
  /\ \A j, k \in DOMAIN at : j < k => at[j] < at[k]

Positions(where, n) ==
  CHOOSE at \in UNION {[1..m -> where] : m \in 0..n} : Ascending(at, where)

\* What stands at some positions of a line, in its order.
Pick(line, where) ==
  LET at == Positions(where, Len(line)) IN [k \in DOMAIN at |-> line[at[k]]]

\* Mutant: references are collected from the end of the document.
MatchesFromTheEnd(text, kind) ==
  LET found == Pick(text, {k \in DOMAIN text : text[k].kind = kind})
  IN  [k \in 1..Len(found) |-> found[Len(found) + 1 - k]]

\* FindAllStringSubmatch: the references in the order of the document.
Matches(text, kind) == Pick(text, {k \in DOMAIN text : text[k].kind = kind})

\* getOneConfig reads the file, which may be missing (also if the walk has seen
\* it), unreadable or not named .yaml or .json, or has a content.
Read ==
  /\ phase = "load" /\ todo # <<>> /\ Selected(Head(todo))
  /\ \/ AppendConfig(Nil) /\ NextFile /\ UNCHANGED fileVars
     \/ Head(todo) \in DOMAIN Contents /\ ReadError /\ NextFile /\ UNCHANGED fileVars
     \/ /\ Head(todo) \in DOMAIN Contents
        /\ AppendConfig(Zero(Head(todo))) /\ NextFile /\ UNCHANGED fileVars
     \/ /\ Head(todo) \in DOMAIN Contents
        /\ \E text \in Contents[Head(todo)] :
             /\ phase' = "envs" /\ doc' = text /\ raw' = text /\ matches' = Matches(text, "env")
             /\ UNCHANGED <<parseVars, folder, todo, jobs>>

ReplaceAll(text, old, new) == [k \in DOMAIN text |-> IF text[k] = old THEN new ELSE text[k]]

\* ReplaceEnvs: every occurrence of the next variable.
ReplaceEnv ==
  /\ phase = "envs" /\ matches # <<>>
  /\ doc' = ReplaceAll(doc, Head(matches), Environment[Head(matches).of])
  /\ matches' = Tail(matches)
  /\ UNCHANGED <<phase, parseVars, folder, todo, raw, jobs>>

\* The text is parsed and its references to fields are collected.
Unmarshal ==
  /\ phase = "envs" /\ matches = <<>>
  /\ \/ ReadError /\ NextFile /\ UNCHANGED fileVars
     \/ /\ phase' = "fields" /\ raw' = doc /\ matches' = Matches(doc, "field")
        /\ UNCHANGED <<parseVars, folder, todo, doc, jobs>>

\* Mutant: the text is searched again as long as there are references.
ReplaceFieldsLeft ==
  /\ phase = "fields" /\ matches # <<>>
  /\ IF Head(matches).of \in DOMAIN raw
       THEN /\ doc' = ReplaceAll(doc, Head(matches), raw[Head(matches).of])
            /\ matches' = Matches(doc', "field")
            /\ UNCHANGED <<phase, parseVars, folder, todo, raw, jobs>>
       ELSE ReadError /\ NextFile /\ UNCHANGED fileVars

\* ReplaceConfigFields: getFieldValue answers from the configuration parsed
\* before, or with an error.
ReplaceField ==
  /\ phase = "fields" /\ matches # <<>>
  /\ IF Head(matches).of \in DOMAIN raw
       THEN /\ doc' = ReplaceAll(doc, Head(matches), raw[Head(matches).of])
            /\ matches' = Tail(matches)
            /\ UNCHANGED <<phase, parseVars, folder, todo, raw, jobs>>
       ELSE ReadError /\ NextFile /\ UNCHANGED fileVars

\* The changed text is parsed again, and the configuration is complete.
Complete ==
  /\ phase = "fields" /\ matches = <<>>
  /\ \/ doc # raw /\ ReadError
     \/ AppendConfig([file |-> Head(todo), name |-> doc[1]])
  /\ NextFile
  /\ doc' = <<>> /\ raw' = <<>> /\ matches' = <<>>

\* main: no configuration at all, and the name of a nil one, end the process.
StartJobs ==
  /\ phase = "load" /\ todo = <<>>
  /\ IF jobs = <<>> \/ \E k \in DOMAIN jobs : jobs[k] = Nil THEN Exit ELSE phase' = "running"
  /\ UNCHANGED <<parseVars, folder, todo, fileVars, jobs>>

Next ==
  \/ Flag \/ Positional \/ ParseAgain \/ FlagAgain \/ Parsed
  \/ Plan \/ Skip \/ WalkPanics \/ Read \/ ReplaceEnv \/ Unmarshal \/ ReplaceField \/ Complete \/ StartJobs

Spec == Init /\ [][Next]_vars /\ WF_vars(Next)

-----------------------------------------------------------------------------
(***************************************************************************)
(* What makes the start-up correct.                                        *)
(***************************************************************************)

\* Position k of a command line is the value of the flag before it.
ReadAsValues(v, line) ==
  \A k \in DOMAIN line : v[k] = (k > 1 /\ line[k - 1] \in ValueFlags /\ ~v[k - 1])

IsValue(line) == CHOOSE v \in [DOMAIN line -> BOOLEAN] : ReadAsValues(v, line)

\* Flags are recognised wherever they stand among the positional words, and
\* these keep their order: what is parsed is what a reader of the whole line
\* would say (the comment of ParseFlags).  Lines with "--" are left out.
FlagsAnywhere ==
  (phase = "plan" /\ \A k \in DOMAIN input : input[k] # Dashes) =>
    LET isValue == IsValue(input)
    IN  /\ args = Pick(input, {k \in DOMAIN input : ~isValue[k] /\ input[k] \notin Flags})
        /\ seen = {input[k] : k \in {i \in DOMAIN input : ~isValue[i]}} \cap BoolFlags
        /\ \A f \in ValueFlags :
             LET given == {k \in DOMAIN input : isValue[k] /\ input[k - 1] = f}
             IN  \/ given = {} /\ value[f] = ""
                 \/ \E k \in given : value[f] = input[k] /\ \A j \in given : j <= k

\* A field refers to another reference only further down the document.
Forward(text) ==
  \A k \in DOMAIN text :
    (text[k].kind = "field" /\ text[text[k].of].kind = "field") => k < text[k].of

\* One pass over the references resolves chains of them, provided that they
\* lead down the document: no reference is left, and each one has become what
\* the field it names has become.
ReferencesResolved ==
  (phase = "fields" /\ matches = <<>> /\ Forward(raw)) =>
    \A k \in DOMAIN raw :
      /\ doc[k].kind # "field"
      /\ doc[k] = IF raw[k].kind = "field" THEN doc[raw[k].of] ELSE raw[k]

\* The files that were named on the command line.
Named == (IF value["-f"] = "" THEN <<>> ELSE <<value["-f"]>>) \o args

\* Jobs are started for all files named on the command line or for none.
AllOrNothing ==
  (phase = "running" /\ ~folder /\ Named # <<>>) =>
    /\ Len(jobs) = Len(Named)
    /\ \A k \in DOMAIN jobs : jobs[k].file = Named[k]

\* Two jobs of a folder never share a name, with which they would share a
\* start-tag file, also if the names are the result of substitutions.
DistinctNames ==
  (phase = "running" /\ folder) =>
    \A j, k \in DOMAIN jobs : jobs[j].name = jobs[k].name => j = k

\* Start-up ends, whatever the command line and the job files are, also if
\* references run in a circle.
Terminates == <>(phase \in {"running", "exited"})
=============================================================================
