---------------------------- MODULE StartupProofs ----------------------------
(***************************************************************************)
(* Which jobs are started, for every command line, folder and content of   *)
(* the job files.                                                          *)
(***************************************************************************)
EXTENDS StartupLists

Reading == {"load", "envs", "fields"}

\* Words are parsed to words; the list of jobs is a list.
Lists ==
  /\ phase \in Phases /\ folder \in BOOLEAN
  /\ args \in Seq(Words) /\ positional \in Seq(Words) /\ todo \in Seq(Words)
  /\ value \in [ValueFlags -> Words \cup {""}]
  /\ \E S : jobs \in Seq(S)

\* No job is read before the command line is parsed.
NoneYet == phase \in {"flags", "final", "plan"} => jobs = <<>>

\* The walk has found different names so far.
NamesDiffer == folder => \A j, k \in 1..Len(jobs) : jobs[j].name = jobs[k].name => j = k

\* The jobs read and the files still to read are the ones that were named.
Pending ==
  (~folder /\ phase \in Reading \cup {"running"} /\ Named # <<>>) =>
    /\ Len(jobs) + Len(todo) = Len(Named)
    /\ \A k \in 1..Len(jobs) : jobs[k] = Nil \/ jobs[k].file = Named[k]
    /\ \A k \in 1..Len(todo) : todo[k] = Named[Len(jobs) + k]

\* A file is being read, or all are and none was missing.
Position ==
  /\ phase \in {"envs", "fields"} => todo # <<>>
  /\ phase = "running" => todo = <<>> /\ \A k \in 1..Len(jobs) : jobs[k] # Nil

StartupInv == Lists /\ NoneYet /\ NamesDiffer /\ Pending /\ Position

-----------------------------------------------------------------------------
\* A list one element longer.
LEMMA Appended ==
  ASSUME NEW s, \E S : s \in Seq(S), NEW e
  PROVE  /\ \E S : Append(s, e) \in Seq(S)
         /\ Len(s) \in Nat /\ Len(Append(s, e)) = Len(s) + 1
         /\ \A k \in 1..Len(s) : Append(s, e)[k] = s[k]
         /\ Append(s, e)[Len(s) + 1] = e
<1>1. PICK S : s \in Seq(S)
  OBVIOUS
<1>2. s \in Seq(S \cup {e}) /\ e \in S \cup {e}
  BY <1>1
<1>3. Append(s, e) \in Seq(S \cup {e})
  BY <1>2
<1> QED
  BY <1>2, <1>3

\* Positions of the list of jobs.
LEMMA JobsDomain ==
  ASSUME Lists
  PROVE  DOMAIN jobs = 1..Len(jobs) /\ Len(jobs) \in Nat
<1>1. PICK S : jobs \in Seq(S)
  BY DEF Lists
<1> QED
  BY <1>1

\* Lists of words.
LEMMA EmptyList == <<>> \in Seq(Words)
OBVIOUS

LEMMA OneWord == ASSUME NEW w \in Words PROVE <<w>> \in Seq(Words)
OBVIOUS

LEMMA Joined == ASSUME NEW s \in Seq(Words), NEW t \in Seq(Words) PROVE s \o t \in Seq(Words)
OBVIOUS

LEMMA NothingJoined == <<>> \o <<>> = <<>>
OBVIOUS

LEMMA Longer == ASSUME NEW s \in Seq(Words), NEW w \in Words PROVE Append(s, w) \in Seq(Words)
OBVIOUS

LEMMA SecondWord ==
  ASSUME NEW s \in Seq(Words), Len(s) > 1
  PROVE  s[2] \in Words /\ Tail(s) \in Seq(Words) /\ Tail(s) # <<>>
<1>1. s # <<>>
  OBVIOUS
<1>2. Tail(s) \in Seq(Words) /\ Len(Tail(s)) > 0
  BY <1>1
<1>3. s[2] \in Words
  BY Len(s) \in Nat
<1> QED
  BY <1>2, <1>3

\* The rest of the words.
LEMMA Rest ==
  ASSUME NEW s \in Seq(Words), s # <<>>
  PROVE  /\ Head(s) \in Words /\ Tail(s) \in Seq(Words) /\ Len(s) \in Nat \ {0}
         /\ Head(s) = s[1] /\ Len(Tail(s)) = Len(s) - 1
         /\ \A k \in 1..Len(Tail(s)) : Tail(s)[k] = s[k + 1]
OBVIOUS

LEMMA NamedIsList ==
  ASSUME Lists
  PROVE  Named \in Seq(Words)
<1>1. "-f" \in ValueFlags
  BY DEF ValueFlags
<1>2. value["-f"] \in Words \cup {""} /\ args \in Seq(Words)
  BY <1>1 DEF Lists
<1>3. (IF value["-f"] = "" THEN <<>> ELSE <<value["-f"]>>) \in Seq(Words)
  BY <1>2, EmptyList, OneWord
<1> QED
  BY <1>2, <1>3, Joined DEF Named
-----------------------------------------------------------------------------
(***************************************************************************)
(* The command line.                                                       *)
(***************************************************************************)

\* Steps before the files are read touch neither the files nor the jobs.
LEMMA ParsingKeepsInv ==
  ASSUME StartupInv, Lists', phase' \in {"flags", "final", "plan", "exited"},
         phase \in {"flags", "final", "plan"}, UNCHANGED <<folder, jobs>>
  PROVE  StartupInv'
BY DEF StartupInv, NoneYet, NamesDiffer, Pending, Position, Reading

LEMMA ParseFlagType ==
  ASSUME Lists, ParseFlag
  PROVE  /\ args' \in Seq(Words) /\ positional' \in Seq(Words)
         /\ value' \in [ValueFlags -> Words \cup {""}]
         /\ phase' \in {phase, "exited"}
<1>1. args \in Seq(Words) /\ args # <<>> /\ value \in [ValueFlags -> Words \cup {""}]
  BY DEF Lists, ParseFlag, AtFlag
<1>2. CASE UNCHANGED <<args, value>> /\ Exit
  BY <1>1, <1>2 DEF ParseFlag, Lists, Exit
<1>3. CASE args' = Tail(args) /\ UNCHANGED <<phase, value>>
  BY <1>1, <1>3, Rest DEF ParseFlag, Lists
<1>4. CASE /\ Len(args) > 1 /\ value' = [value EXCEPT ![Head(args)] = args[2]]
           /\ args' = Tail(Tail(args)) /\ UNCHANGED phase
  <2>1. args[2] \in Words /\ Tail(args) \in Seq(Words) /\ Tail(args) # <<>>
    BY <1>1, <1>4, SecondWord
  <2>2. args' \in Seq(Words)
    BY <1>4, <2>1, Rest
  <2>3. value' \in [ValueFlags -> Words \cup {""}]
    BY <1>1, <1>4, <2>1
  <2> QED
    BY <1>4, <2>2, <2>3 DEF ParseFlag, Lists
<1> QED
  BY <1>2, <1>3, <1>4 DEF ParseFlag

LEMMA ParsingStep ==
  ASSUME StartupInv, Flag \/ FlagAgain \/ Positional \/ ParseAgain \/ Parsed
  PROVE  StartupInv'
<1>0. Lists
  BY DEF StartupInv
<1>1. CASE Flag \/ FlagAgain
  <2>1. Lists'
    BY <1>0, <1>1, ParseFlagType DEF Flag, FlagAgain, Lists, Phases
  <2> QED
    BY <1>0, <1>1, <2>1, ParseFlagType, ParsingKeepsInv DEF Flag, FlagAgain
<1>2. ASSUME args # <<>> PROVE Left \in Seq(Words)
  BY <1>0, <1>2, Rest DEF Lists, Left
<1>3. CASE Positional
  <2>1. Left \in Seq(Words)
    BY <1>2, <1>3 DEF Positional
  <2>2. args' \in Seq(Words) /\ positional' \in Seq(Words)
    <3>1. CASE Left = <<>>
      BY <1>0, <1>3, <3>1, EmptyList DEF Positional, Lists
    <3>2. CASE Left # <<>>
      <4>1. Head(Left) \in Words /\ Tail(Left) \in Seq(Words)
        BY <2>1, <3>2, Rest
      <4> QED
        BY <1>0, <1>3, <3>2, <4>1, Longer DEF Positional, Lists
    <3> QED
      BY <3>1, <3>2
  <2>3. Lists'
    BY <1>0, <1>3, <2>2 DEF Positional, Lists
  <2> QED
    BY <1>3, <2>3, ParsingKeepsInv DEF Positional
<1>4. CASE ParseAgain \/ Parsed
  <2>1. Lists'
    BY <1>0, <1>2, <1>4 DEF ParseAgain, Parsed, Lists, Phases
  <2> QED
    BY <1>4, <2>1, ParsingKeepsInv DEF ParseAgain, Parsed
<1> QED
  BY <1>1, <1>3, <1>4

LEMMA PlanStep ==
  ASSUME StartupInv, Plan
  PROVE  StartupInv'
<1>0. /\ Lists /\ jobs = <<>> /\ jobs' = <<>> /\ args' = args /\ value' = value
      /\ Named' = Named /\ Named \in Seq(Words)
  BY NamedIsList DEF StartupInv, NoneYet, Plan, Named
<1>1. /\ value["-j"] \in Words \cup {""} /\ FilesUnder \in [Words -> Seq(Words)]
      /\ HomeConfig \in Words /\ "" \notin Words
  BY <1>0, StartupAssumption DEF Lists, ValueFlags
<1>2. /\ phase' \in {"load", "exited"} /\ folder' \in BOOLEAN /\ todo' \in Seq(Words)
      /\ (~folder' /\ phase' = "load" /\ Named # <<>>) => todo' = Named
  <2>1. CASE value["-j"] # "" /\ folder' = TRUE /\ todo' = FilesUnder[value["-j"]] /\ phase' = "load"
    BY <1>1, <2>1
  <2>2. CASE folder' = FALSE /\ phase' = "load" /\ todo' = Named
    BY <1>0, <2>2
  <2>3. CASE /\ Named = <<>> /\ phase' = "load"
             /\ (folder' = TRUE /\ todo' = <<>>) \/ (folder' = FALSE /\ todo' = <<HomeConfig>>)
    BY <1>1, <2>3, EmptyList, OneWord
  <2>4. CASE phase' = "exited" /\ UNCHANGED <<folder, todo>>
    BY <1>0, <2>4 DEF Lists
  <2>5. value["-f"] = "" /\ args = <<>> => Named = <<>>
    BY NothingJoined DEF Named
  <2> QED
    BY <2>1, <2>2, <2>3, <2>4, <2>5 DEF Plan, Named, Exit
<1>3. Lists'
  BY <1>0, <1>2, EmptyList DEF Lists, Plan, Phases
<1>4. NoneYet' /\ NamesDiffer' /\ Position'
  BY <1>0, <1>2 DEF NoneYet, NamesDiffer, Position
<1>5. Pending'
  BY <1>0, <1>2 DEF Pending, Reading
<1> QED
  BY <1>3, <1>4, <1>5 DEF StartupInv
-----------------------------------------------------------------------------
(***************************************************************************)
(* The job files.                                                          *)
(***************************************************************************)

\* Types of what a step that is done with a file leaves.
LEMMA NextFileType ==
  ASSUME Lists, todo # <<>>, NextFile, phase' \in Phases, \E S : jobs' \in Seq(S)
  PROVE  Lists' /\ Named' = Named
BY Rest DEF Lists, NextFile, parseVars, Named

\* Start-up is over: nothing is asked of the list any more.
LEMMA ExitKeepsInv ==
  ASSUME StartupInv, todo # <<>>, NextFile, Exit, UNCHANGED jobs
  PROVE  StartupInv'
<1>1. Lists'
  BY NextFileType DEF StartupInv, Lists, Exit, Phases
<1> QED
  BY <1>1 DEF StartupInv, NoneYet, NamesDiffer, Pending, Position, Exit, Reading, NextFile

\* The walk goes on without the file.
LEMMA SkippedKeepsInv ==
  ASSUME StartupInv, phase \in Reading, todo # <<>>, NextFile, folder, phase' = "load", UNCHANGED jobs
  PROVE  StartupInv'
<1>1. Lists'
  BY NextFileType DEF StartupInv, Lists, Phases
<1> QED
  BY <1>1 DEF StartupInv, NoneYet, NamesDiffer, Pending, Position, NextFile

\* The configuration of the file, or nil, is appended, or the process ends.
LEMMA AppendKeepsInv ==
  ASSUME StartupInv, phase \in Reading, todo # <<>>, NextFile,
         NEW config, config = Nil \/ config.file = Head(todo), AppendConfig(config)
  PROVE  StartupInv'
<1>1. CASE Exit /\ UNCHANGED jobs
  BY <1>1, ExitKeepsInv
<1>2. CASE /\ phase' = "load" /\ jobs' = Append(jobs, config)
           /\ folder => \A k \in DOMAIN jobs : jobs[k].name # config.name
  <2>1. Lists /\ \E S : jobs \in Seq(S)
    BY DEF StartupInv, Lists
  <2>2. /\ \E S : jobs' \in Seq(S)
        /\ Len(jobs) \in Nat /\ Len(jobs') = Len(jobs) + 1
        /\ \A k \in 1..Len(jobs) : jobs'[k] = jobs[k]
        /\ jobs'[Len(jobs) + 1] = config
    <3>1. jobs' = Append(jobs, config)
      BY <1>2
    <3>2. /\ \E S : Append(jobs, config) \in Seq(S)
          /\ Len(jobs) \in Nat /\ Len(Append(jobs, config)) = Len(jobs) + 1
          /\ \A k \in 1..Len(jobs) : Append(jobs, config)[k] = jobs[k]
          /\ Append(jobs, config)[Len(jobs) + 1] = config
      BY <2>1, Appended
    <3> QED
      BY <3>1, <3>2, Zenon
  <2>3. Lists' /\ Named' = Named /\ folder' = folder /\ todo' = Tail(todo)
    <3>1. phase' \in Phases
      BY <1>2 DEF Phases
    <3>2. \E S : jobs' \in Seq(S)
      BY <2>2
    <3>3. Lists' /\ Named' = Named
      BY <2>1, <3>1, <3>2, NextFileType
    <3> QED
      BY <3>3 DEF NextFile
  <2>4. NamesDiffer'
    <3>1. DOMAIN jobs = 1..Len(jobs)
      BY <2>1, JobsDomain
    <3> SUFFICES ASSUME folder, NEW j \in 1..(Len(jobs) + 1), NEW k \in 1..(Len(jobs) + 1),
                        jobs'[j].name = jobs'[k].name
                 PROVE  j = k
      BY <2>2, <2>3 DEF NamesDiffer
    <3>2. \A i \in 1..Len(jobs) : jobs[i].name # config.name
      BY <1>2, <3>1
    <3>3. CASE j \in 1..Len(jobs) /\ k \in 1..Len(jobs)
      BY <2>2, <3>3 DEF StartupInv, NamesDiffer
    <3>4. CASE j = Len(jobs) + 1 \/ k = Len(jobs) + 1
      BY <2>2, <3>2, <3>4
    <3> QED
      BY <2>2, <3>3, <3>4
  <2>5. Pending'
    <3> SUFFICES ASSUME ~folder, Named # <<>>
                 PROVE  /\ Len(jobs') + Len(todo') = Len(Named)
                        /\ \A k \in 1..Len(jobs') : jobs'[k] = Nil \/ jobs'[k].file = Named[k]
                        /\ \A k \in 1..Len(todo') : todo'[k] = Named[Len(jobs') + k]
      BY <2>3 DEF Pending
    <3>1. /\ Len(jobs) + Len(todo) = Len(Named)
          /\ \A k \in 1..Len(jobs) : jobs[k] = Nil \/ jobs[k].file = Named[k]
          /\ \A k \in 1..Len(todo) : todo[k] = Named[Len(jobs) + k]
      BY DEF StartupInv, Pending
    <3>2. /\ Len(todo) \in Nat \ {0} /\ Head(todo) = todo[1] /\ Len(todo') = Len(todo) - 1
          /\ \A k \in 1..Len(todo') : todo'[k] = todo[k + 1]
      BY <2>1, <2>3, Rest DEF Lists
    <3>3. Head(todo) = Named[Len(jobs) + 1]
      <4>1. 1 \in 1..Len(todo)
        BY <3>2
      <4> QED
        BY <3>1, <3>2, <4>1
    <3>4. Len(jobs') + Len(todo') = Len(Named)
      <4>1. Len(jobs') = Len(jobs) + 1 /\ Len(todo') = Len(todo) - 1
        BY <2>2, <3>2
      <4>2. Len(jobs) \in Nat /\ Len(todo) \in Nat /\ Len(jobs) + Len(todo) = Len(Named)
        BY <2>2, <3>1, <3>2
      <4> QED
        BY <4>1, <4>2
    <3>5. ASSUME NEW k \in 1..Len(jobs') PROVE jobs'[k] = Nil \/ jobs'[k].file = Named[k]
      <4>1. CASE k \in 1..Len(jobs)
        BY <2>2, <3>1, <4>1
      <4>2. CASE k = Len(jobs) + 1
        BY <2>2, <3>3, <4>2
      <4> QED
        BY <2>2, <3>5, <4>1, <4>2
    <3>6. ASSUME NEW k \in 1..Len(todo') PROVE todo'[k] = Named[Len(jobs') + k]
      <4>1. k + 1 \in 1..Len(todo) /\ todo'[k] = todo[k + 1]
        BY <3>2, <3>6
      <4>2. todo[k + 1] = Named[Len(jobs) + (k + 1)] /\ Len(jobs) + (k + 1) = Len(jobs') + k
        BY <2>2, <3>1, <4>1
      <4> QED
        BY <4>1, <4>2
    <3> QED
      BY <3>4, <3>5, <3>6
  <2>6. NoneYet' /\ Position'
    BY <1>2 DEF NoneYet, Position
  <2> QED
    BY <2>3, <2>4, <2>5, <2>6 DEF StartupInv
<1> QED
  BY <1>1, <1>2 DEF AppendConfig
\* An error in a job file: the walk skips it, else the process ends.
LEMMA ReadErrorKeepsInv ==
  ASSUME StartupInv, phase \in Reading, todo # <<>>, NextFile, ReadError
  PROVE  StartupInv'
BY SkippedKeepsInv, ExitKeepsInv DEF ReadError

\* A file goes on being read.
LEMMA ReadingKeepsInv ==
  ASSUME StartupInv, phase \in Reading, phase' \in {"envs", "fields"}, todo # <<>>,
         UNCHANGED <<parseVars, folder, todo, jobs>>
  PROVE  StartupInv'
BY DEF StartupInv, Lists, NoneYet, NamesDiffer, Pending, Position, Reading, Phases, Named, parseVars

LEMMA SkipStep ==
  ASSUME StartupInv, Skip \/ WalkPanics
  PROVE  StartupInv'
<1>1. phase \in Reading /\ todo # <<>> /\ NextFile /\ folder /\ UNCHANGED jobs
  BY DEF Skip, WalkPanics, Selected, Reading, StartupInv, Lists
<1>2. Exit \/ phase' = "load"
  BY DEF Skip, WalkPanics
<1> QED
  BY <1>1, <1>2, SkippedKeepsInv, ExitKeepsInv

LEMMA ReadStep ==
  ASSUME StartupInv, Read
  PROVE  StartupInv'
<1>0. phase \in Reading /\ todo # <<>>
  BY DEF Read, Reading
<1>1. CASE AppendConfig(Nil) /\ NextFile
  BY <1>0, <1>1, AppendKeepsInv
<1>2. CASE ReadError /\ NextFile
  BY <1>0, <1>2, ReadErrorKeepsInv
<1>3. CASE AppendConfig(Zero(Head(todo))) /\ NextFile
  <2>1. Zero(Head(todo)).file = Head(todo)
    BY DEF Zero
  <2> QED
    BY <1>0, <1>3, <2>1, AppendKeepsInv
<1>4. CASE phase' = "envs" /\ UNCHANGED <<parseVars, folder, todo, jobs>>
  BY <1>0, <1>4, ReadingKeepsInv
<1> QED
  BY <1>1, <1>2, <1>3, <1>4 DEF Read

LEMMA SubstitutionStep ==
  ASSUME StartupInv, ReplaceEnv \/ Unmarshal \/ ReplaceField
  PROVE  StartupInv'
<1>0. phase \in Reading /\ todo # <<>>
  BY DEF ReplaceEnv, Unmarshal, ReplaceField, Reading, StartupInv, Position
<1>1. CASE ReadError /\ NextFile
  BY <1>0, <1>1, ReadErrorKeepsInv
<1>2. CASE phase' \in {"envs", "fields"} /\ UNCHANGED <<parseVars, folder, todo, jobs>>
  BY <1>0, <1>2, ReadingKeepsInv
<1> QED
  BY <1>1, <1>2 DEF ReplaceEnv, Unmarshal, ReplaceField

LEMMA CompleteStep ==
  ASSUME StartupInv, Complete
  PROVE  StartupInv'
<1>0. phase \in Reading /\ todo # <<>> /\ NextFile
  BY DEF Complete, Reading, StartupInv, Position
<1>1. CASE ReadError
  BY <1>0, <1>1, ReadErrorKeepsInv
<1>2. CASE AppendConfig([file |-> Head(todo), name |-> doc[1]])
  <2>1. [file |-> Head(todo), name |-> doc[1]].file = Head(todo)
    OBVIOUS
  <2> QED
    BY <1>0, <1>2, <2>1, AppendKeepsInv
<1> QED
  BY <1>1, <1>2 DEF Complete

LEMMA StartJobsStep ==
  ASSUME StartupInv, StartJobs
  PROVE  StartupInv'
<1>1. /\ Lists /\ phase = "load" /\ todo = <<>> /\ phase' \in {"running", "exited"}
      /\ UNCHANGED <<parseVars, folder, todo, jobs>>
      /\ phase' = "running" => \A k \in DOMAIN jobs : jobs[k] # Nil
  BY DEF StartJobs, StartupInv, Exit
<1>2. DOMAIN jobs = 1..Len(jobs)
  BY <1>1, JobsDomain
<1>3. Lists' /\ NoneYet' /\ NamesDiffer' /\ Pending'
  BY <1>1 DEF StartupInv, Lists, NoneYet, NamesDiffer, Pending, Reading, Phases, Named, parseVars
<1>4. Position'
  BY <1>1, <1>2 DEF Position
<1> QED
  BY <1>3, <1>4 DEF StartupInv

-----------------------------------------------------------------------------
LEMMA StartupInvHolds == Spec => []StartupInv
<1>1. Init => StartupInv
  <2> SUFFICES ASSUME Init PROVE StartupInv
    OBVIOUS
  <2>1. args \in Seq(Words) /\ value \in [ValueFlags -> Words \cup {""}]
    BY StartupAssumption DEF Init
  <2>2. Lists
    BY <2>1, EmptyList DEF Init, Lists, Phases
  <2> QED
    BY <2>2 DEF Init, StartupInv, NoneYet, NamesDiffer, Pending, Position, Reading
<1>2. StartupInv /\ [Next]_vars => StartupInv'
  <2> SUFFICES ASSUME StartupInv, [Next]_vars PROVE StartupInv'
    OBVIOUS
  <2>1. CASE UNCHANGED vars
    BY <2>1 DEF vars, parseVars, StartupInv, Lists, NoneYet, NamesDiffer, Pending, Position, Named
  <2> QED
    BY <2>1, ParsingStep, PlanStep, SkipStep, ReadStep, SubstitutionStep, CompleteStep, StartJobsStep
    DEF Next
<1> QED
  BY <1>1, <1>2, PTL DEF Spec

\* Jobs are started for all files named on a command line, in their order, or
\* for none: a file that is missing or cannot be parsed ends the process.
THEOREM NamedJobsCorrect == Spec => []AllOrNothing
<1>1. StartupInv => AllOrNothing
  <2> SUFFICES ASSUME StartupInv, phase = "running", ~folder, Named # <<>>
               PROVE  Len(jobs) = Len(Named) /\ \A k \in DOMAIN jobs : jobs[k].file = Named[k]
    BY DEF AllOrNothing
  <2>1. DOMAIN jobs = 1..Len(jobs) /\ Len(jobs) \in Nat
    BY JobsDomain DEF StartupInv
  <2>2. /\ Len(jobs) + Len(todo) = Len(Named) /\ todo = <<>>
        /\ \A k \in 1..Len(jobs) : jobs[k] # Nil /\ (jobs[k] = Nil \/ jobs[k].file = Named[k])
    BY DEF StartupInv, Pending, Position, Reading
  <2>3. Len(todo) = 0
    BY <2>2
  <2> QED
    BY <2>1, <2>2, <2>3
<1> QED
  BY <1>1, StartupInvHolds, PTL

\* The jobs of a folder have different names, and so different start-tag files.
THEOREM NamesCorrect == Spec => []DistinctNames
<1>1. StartupInv => DistinctNames
  <2> SUFFICES ASSUME StartupInv PROVE DistinctNames
    OBVIOUS
  <2>1. DOMAIN jobs = 1..Len(jobs)
    BY JobsDomain DEF StartupInv
  <2> QED
    BY <2>1 DEF StartupInv, NamesDiffer, DistinctNames
<1> QED
  BY <1>1, StartupInvHolds, PTL

-----------------------------------------------------------------------------
(***************************************************************************)
(* Types.                                                                  *)
(***************************************************************************)

\* The document being read, as read and as changed so far, is a list with the
\* same fields throughout, and there are no more references than fields.
Document ==
  /\ \E S : doc \in Seq(S)
  /\ \E S : raw \in Seq(S)
  /\ \E S : matches \in Seq(S)
  /\ Len(raw) = Len(doc) /\ Len(matches) <= Len(doc)

\* A job has the name of its file.
JobFiles == \A k \in 1..Len(jobs) : jobs[k] = Nil \/ jobs[k].file \in Words

Types == input \in Seq(Words) /\ seen \subseteq BoolFlags /\ Document /\ JobFiles

\* A document read from a file is a list.
LEMMA ContentsAreLists ==
  ASSUME NEW file \in DOMAIN Contents, NEW text \in Contents[file]
  PROVE  \E S : text \in Seq(S)
BY StartupAssumption

\* There are at most as many references as fields.
LEMMA MatchesType ==
  ASSUME NEW text, \E S : text \in Seq(S), NEW kind
  PROVE  (\E S : Matches(text, kind) \in Seq(S)) /\ Len(Matches(text, kind)) <= Len(text)
<1> DEFINE where == {k \in DOMAIN text : text[k].kind = kind}
<1>1. PICK S : text \in Seq(S)
  OBVIOUS
<1>2. where \in SUBSET (1..Len(text)) /\ Matches(text, kind) = Pick(text, where)
  BY <1>1 DEF Matches
<1> HIDE DEF where
<1>m. PICK m \in 0..Len(text) : \E at : PickedAt(Pick(text, where), text, where, m, at)
  BY <1>1, <1>2, Picked
<1>3. PICK at : PickedAt(Pick(text, where), text, where, m, at)
  BY <1>m
<1>4. Pick(text, where) \in Seq(S) /\ Len(Pick(text, where)) <= Len(text)
  BY <1>1, <1>2, <1>3, PickType
<1> QED
  BY <1>2, <1>4

\* Replacing keeps the number of fields.
LEMMA Replaced ==
  ASSUME NEW text, \E S : text \in Seq(S), NEW old, NEW new
  PROVE  /\ \E S : ReplaceAll(text, old, new) \in Seq(S)
         /\ Len(ReplaceAll(text, old, new)) = Len(text)
         /\ \A k \in 1..Len(text) : ReplaceAll(text, old, new)[k] = IF text[k] = old THEN new ELSE text[k]
<1>1. PICK S : text \in Seq(S)
  OBVIOUS
<1>2. DOMAIN text = 1..Len(text) /\ Len(text) \in Nat
  BY <1>1
<1>3. ReplaceAll(text, old, new) \in [1..Len(text) -> S \cup {new}]
  BY <1>1, <1>2 DEF ReplaceAll
<1>4. ReplaceAll(text, old, new) \in Seq(S \cup {new}) /\ Len(ReplaceAll(text, old, new)) = Len(text)
  BY <1>2, <1>3
<1> QED
  BY <1>2, <1>4 DEF ReplaceAll

LEMMA ShorterList ==
  ASSUME NEW s, \E S : s \in Seq(S), s # <<>>
  PROVE  /\ \E S : Tail(s) \in Seq(S)
         /\ Len(s) \in Nat \ {0} /\ Len(Tail(s)) = Len(s) - 1
         /\ \A k \in 1..Len(Tail(s)) : Tail(s)[k] = s[k + 1]
         /\ Head(s) = s[1]
<1>1. PICK S : s \in Seq(S)
  OBVIOUS
<1> QED
  BY <1>1

LEMMA AppendTypes ==
  ASSUME Lists, JobFiles, NEW config, config = Nil \/ config.file \in Words, AppendConfig(config)
  PROVE  JobFiles'
<1>1. CASE UNCHANGED jobs
  BY <1>1 DEF JobFiles
<1>2. CASE jobs' = Append(jobs, config)
  <2>1. \E S : jobs \in Seq(S)
    BY DEF Lists
  <2>2. /\ Len(jobs) \in Nat /\ Len(Append(jobs, config)) = Len(jobs) + 1
        /\ \A k \in 1..Len(jobs) : Append(jobs, config)[k] = jobs[k]
        /\ Append(jobs, config)[Len(jobs) + 1] = config
    BY <2>1, Appended
  <2>3. ASSUME NEW k \in 1..(Len(jobs) + 1)
        PROVE  Append(jobs, config)[k] = Nil \/ Append(jobs, config)[k].file \in Words
    <3>1. CASE k \in 1..Len(jobs)
      BY <2>2, <3>1 DEF JobFiles
    <3>2. CASE k = Len(jobs) + 1
      BY <2>2, <3>2
    <3> QED
      BY <2>2, <3>1, <3>2
  <2> QED
    BY <1>2, <2>2, <2>3 DEF JobFiles
<1> QED
  BY <1>1, <1>2 DEF AppendConfig

\* The command line is parsed.
LEMMA ParsingTypes ==
  ASSUME StartupInv, Types,
         Flag \/ FlagAgain \/ Positional \/ ParseAgain \/ Parsed \/ Plan \/ Skip \/ WalkPanics \/ StartJobs
  PROVE  Types'
<1>1. UNCHANGED <<fileVars, jobs>>
  BY DEF Flag, FlagAgain, Positional, ParseAgain, Parsed, Plan, Skip, WalkPanics, StartJobs
<1>2. Document' /\ JobFiles'
  BY <1>1 DEF Types, Document, JobFiles, fileVars
<1>3. input' \in Seq(Words)
  BY EmptyList DEF Types, Flag, FlagAgain, ParseFlag, Positional, ParseAgain, Parsed, Plan, Skip, WalkPanics,
     StartJobs, NextFile, parseVars
<1>4. seen' \subseteq BoolFlags
  BY DEF Types, Flag, FlagAgain, ParseFlag, Positional, ParseAgain, Parsed, Plan, Skip, WalkPanics,
     StartJobs, NextFile, parseVars
<1> QED
  BY <1>2, <1>3, <1>4 DEF Types

\* A job file is read.
LEMMA ReadingTypes ==
  ASSUME StartupInv, Types, Read \/ ReplaceEnv \/ Unmarshal \/ ReplaceField \/ Complete
  PROVE  Types'
<1>0. /\ Lists /\ todo # <<>> /\ Head(todo) \in Words
      /\ UNCHANGED parseVars /\ input' \in Seq(Words) /\ seen' \subseteq BoolFlags
  <2>1. todo # <<>> /\ todo \in Seq(Words) /\ Lists
    BY DEF StartupInv, Position, Lists, Read, ReplaceEnv, Unmarshal, ReplaceField, Complete
  <2>2. UNCHANGED parseVars
    BY DEF Read, ReplaceEnv, Unmarshal, ReplaceField, Complete, NextFile
  <2> QED
    BY <2>1, <2>2, Rest DEF Types, parseVars
<1>1. JobFiles'
  <2>1. CASE UNCHANGED jobs
    BY <2>1 DEF Types, JobFiles
  <2>2. CASE AppendConfig(Nil) \/ AppendConfig(Zero(Head(todo)))
    <3>1. Zero(Head(todo)).file \in Words
      BY <1>0 DEF Zero
    <3> QED
      BY <1>0, <2>2, <3>1, AppendTypes DEF Types
  <2>3. CASE AppendConfig([file |-> Head(todo), name |-> doc[1]])
    <3>1. [file |-> Head(todo), name |-> doc[1]].file \in Words
      BY <1>0
    <3> QED
      BY <1>0, <2>3, <3>1, AppendTypes DEF Types
  <2> QED
    BY <2>1, <2>2, <2>3 DEF Read, ReplaceEnv, Unmarshal, ReplaceField, Complete, ReadError
<1>2. Document'
  <2>1. CASE UNCHANGED fileVars
    BY <2>1 DEF Types, Document, fileVars
  <2>2. CASE \E file \in DOMAIN Contents : \E text \in Contents[file] :
               doc' = text /\ raw' = text /\ matches' = Matches(text, "env")
    BY <2>2, ContentsAreLists, MatchesType DEF Document
  <2>3. CASE /\ matches # <<>> /\ matches' = Tail(matches) /\ UNCHANGED raw
             /\ \E new : doc' = ReplaceAll(doc, Head(matches), new)
    <3>1. PICK new : doc' = ReplaceAll(doc, Head(matches), new)
      BY <2>3
    <3>2. (\E S : doc' \in Seq(S)) /\ Len(doc') = Len(doc)
      BY <3>1, Replaced DEF Types, Document
    <3>3. (\E S : matches' \in Seq(S)) /\ Len(matches) \in Nat /\ Len(matches') = Len(matches) - 1
      BY <2>3, ShorterList DEF Types, Document
    <3>4. Len(doc) \in Nat
      BY DEF Types, Document
    <3> QED
      BY <2>3, <3>2, <3>3, <3>4 DEF Types, Document
  <2>4. CASE raw' = doc /\ matches' = Matches(doc, "field") /\ UNCHANGED doc
    BY <2>4, MatchesType DEF Types, Document
  <2>5. CASE doc' = <<>> /\ raw' = <<>> /\ matches' = <<>>
    BY <2>5, EmptyList DEF Document
  <2> QED
    BY <2>1, <2>2, <2>3, <2>4, <2>5 DEF Read, ReplaceEnv, Unmarshal, ReplaceField, Complete
<1> QED
  BY <1>0, <1>1, <1>2 DEF Types

LEMMA TypesHold == Spec => []Types
<1>1. Init => Types
  <2> SUFFICES ASSUME Init PROVE Types
    OBVIOUS
  <2>1. input \in Seq(Words) /\ seen \subseteq BoolFlags
    BY StartupAssumption DEF Init
  <2>2. Document
    <3>1. doc = <<>> /\ raw = <<>> /\ matches = <<>>
      BY DEF Init
    <3>2. doc \in Seq(Words) /\ raw \in Seq(Words) /\ matches \in Seq(Words) /\ Len(doc) = 0
      BY <3>1, EmptyList
    <3> QED
      BY <3>1, <3>2 DEF Document
  <2>3. JobFiles
    <3>1. jobs = <<>>
      BY DEF Init
    <3>2. Len(jobs) = 0
      BY <3>1
    <3> QED
      BY <3>2 DEF JobFiles
  <2> QED
    BY <2>1, <2>2, <2>3 DEF Types
<1>2. StartupInv /\ Types /\ [Next]_vars => Types'
  <2> SUFFICES ASSUME StartupInv, Types, [Next]_vars PROVE Types'
    OBVIOUS
  <2>1. CASE UNCHANGED vars
    BY <2>1 DEF vars, parseVars, fileVars, Types, Document, JobFiles
  <2> QED
    BY <2>1, ParsingTypes, ReadingTypes DEF Next
<1> QED
  BY <1>1, <1>2, StartupInvHolds, PTL DEF Spec

\* The variables have their types; in particular a document keeps its fields
\* and there are never more references to replace than fields.
THEOREM StartupTypeCorrect == Spec => []TypeOK
<1>1. StartupInv /\ Types => TypeOK
  <2> SUFFICES ASSUME StartupInv, Types PROVE TypeOK
    OBVIOUS
  <2>1. DOMAIN jobs = 1..Len(jobs)
    BY JobsDomain DEF StartupInv
  <2> QED
    BY <2>1 DEF StartupInv, Lists, Types, Document, JobFiles, TypeOK
<1> QED
  BY <1>1, StartupInvHolds, TypesHold, PTL

-----------------------------------------------------------------------------
(***************************************************************************)
(* References.                                                             *)
(***************************************************************************)

\* The positions of the references in the document before the replacements.
References == {k \in 1..Len(raw) : raw[k].kind = "field"}

\* The references at the first i of the positions at are replaced: they are to
\* fields of the document; a reference that is left is one of the others; the
\* document still resolves to what it resolved to before.
Replacing(at, m, i) ==
  /\ at \in [1..m -> References] /\ Ascending(at, References)
  /\ Len(matches) = m - i
  /\ \A j \in 1..(m - i) : matches[j] = raw[at[i + j]]
  /\ \A j \in 1..i : raw[at[j]].of \in 1..Len(raw)
  /\ Forward(raw) =>
       \A k \in 1..Len(raw) : doc[k].kind = "field" => \E j \in (i + 1)..m : doc[k] = raw[at[j]]
  /\ \A T : Resolution(T, raw) =>
       \A k \in 1..Len(raw) : T[k] = IF doc[k].kind = "field" THEN T[doc[k].of] ELSE doc[k]

FieldsInv == phase = "fields" => \E m \in Nat : \E at : \E i \in 0..m : Replacing(at, m, i)

\* All references are still to be replaced.
LEMMA UnmarshalFields ==
  ASSUME Types, raw' = doc, doc' = doc, matches' = Matches(doc, "field")
  PROVE  FieldsInv'
<1>1. PICK S : doc \in Seq(S)
  BY DEF Types, Document
<1>2. DOMAIN doc = 1..Len(doc) /\ Len(doc) \in Nat
  BY <1>1
<1>3. References' \in SUBSET (1..Len(doc)) /\ matches' = Pick(doc, References')
  BY <1>2 DEF References, Matches
<1>m. PICK m \in 0..Len(doc) : \E at : PickedAt(Pick(doc, References'), doc, References', m, at)
  BY <1>1, <1>3, Picked
<1>4. PICK at : PickedAt(Pick(doc, References'), doc, References', m, at)
  BY <1>m
<1>5. Len(matches') = m /\ m \in Nat
  BY <1>1, <1>2, <1>3, <1>4, PickType
<1>6. at \in [1..m -> References'] /\ Ascending(at, References') /\ matches' = [k \in 1..m |-> doc[at[k]]]
  BY <1>3, <1>4 DEF PickedAt
<1>7. ASSUME NEW k \in 1..Len(doc), doc[k].kind = "field" PROVE \E j \in (0 + 1)..m : doc[k] = doc[at[j]]
  <2>1. k \in References'
    BY <1>7 DEF References
  <2>2. PICK j \in 1..m : at[j] = k
    BY <1>6, <2>1 DEF Ascending
  <2> QED
    BY <1>5, <2>2
<1>8. ASSUME NEW T, Resolution(T, doc), NEW k \in 1..Len(doc)
      PROVE  T[k] = IF doc[k].kind = "field" THEN T[doc[k].of] ELSE doc[k]
  BY <1>8 DEF Resolution
<1>9. Replacing(at, m, 0)'
  BY <1>5, <1>6, <1>7, <1>8 DEF Replacing
<1> QED
  BY <1>5, <1>9 DEF FieldsInv

\* The next reference is replaced wherever it stands.
LEMMA ReplaceFieldFields ==
  ASSUME Types, FieldsInv, phase = "fields", matches # <<>>, Head(matches).of \in DOMAIN raw,
         doc' = ReplaceAll(doc, Head(matches), raw[Head(matches).of]),
         matches' = Tail(matches), raw' = raw
  PROVE  FieldsInv'
<1>0. DOMAIN raw = 1..Len(raw) /\ Len(raw) \in Nat /\ Len(doc) = Len(raw)
  BY DEF Types, Document
<1>m. PICK m \in Nat : \E at : \E i \in 0..m : Replacing(at, m, i)
  BY DEF FieldsInv
<1>1. PICK at : \E i \in 0..m : Replacing(at, m, i)
  BY <1>m
<1>2. PICK i \in 0..m : Replacing(at, m, i)
  BY <1>1
<1> DEFINE ref == Head(matches)
<1>3. /\ Len(matches) \in Nat \ {0} /\ Len(matches') = Len(matches) - 1
      /\ \A k \in 1..Len(matches') : matches'[k] = matches[k + 1]
      /\ ref = matches[1]
  BY ShorterList DEF Types, Document
<1>4. i + 1 \in 1..m /\ i + 1 \in 0..m /\ ref = raw[at[i + 1]] /\ Len(matches') = m - (i + 1)
  BY <1>2, <1>3 DEF Replacing
<1>5. \A k \in 1..Len(raw) : doc'[k] = IF doc[k] = ref THEN raw[ref.of] ELSE doc[k]
  <2>1. \E S : doc \in Seq(S)
    BY DEF Types, Document
  <2>2. \A k \in 1..Len(doc) : doc'[k] = IF doc[k] = Head(matches) THEN raw[Head(matches).of] ELSE doc[k]
    BY <2>1, Replaced
  <2> QED
    BY <1>0, <2>2
<1>6. /\ at \in [1..m -> References] /\ Ascending(at, References)
      /\ at[i + 1] \in References /\ ref.kind = "field" /\ ref.of \in 1..Len(raw)
  BY <1>0, <1>2, <1>4 DEF Replacing, References
<1> HIDE DEF ref
<1>7. ASSUME NEW j \in 1..(m - (i + 1)) PROVE matches'[j] = raw[at[(i + 1) + j]]
  <2>1. j + 1 \in 1..(m - i) /\ i + (j + 1) = (i + 1) + j /\ j \in 1..Len(matches')
    BY <1>4
  <2>2. matches[j + 1] = raw[at[i + (j + 1)]]
    BY <1>2, <2>1 DEF Replacing
  <2> QED
    BY <1>3, <2>1, <2>2
<1>8. ASSUME NEW j \in 1..(i + 1) PROVE raw[at[j]].of \in 1..Len(raw)
  BY <1>2, <1>4, <1>6 DEF Replacing
<1>9. ASSUME Forward(raw), NEW k \in 1..Len(raw), doc'[k].kind = "field"
      PROVE  \E j \in ((i + 1) + 1)..m : doc'[k] = raw[at[j]]
  <2>1. CASE doc[k] = ref
    <3>1. doc'[k] = raw[ref.of] /\ ref.of \in References
      BY <1>5, <1>6, <1>9, <2>1 DEF References
    <3>2. at[i + 1] < ref.of
      BY <1>0, <1>4, <1>6, <1>9, <3>1 DEF Forward, References
    <3>3. PICK j \in 1..m : at[j] = ref.of
      BY <1>6, <3>1 DEF Ascending
    <3>4. i + 1 < j
      <4>1. DOMAIN at = 1..m /\ at[i + 1] \in Nat /\ at[j] \in Nat /\ j \in Nat /\ i + 1 \in Nat
        BY <1>4, <1>6, <3>1, <3>3 DEF References
      <4>2. j # i + 1
        BY <3>2, <3>3, <4>1
      <4>3. ~(j < i + 1)
        BY <1>4, <1>6, <3>2, <3>3, <4>1 DEF Ascending
      <4> QED
        BY <4>1, <4>2, <4>3
    <3>5. j \in ((i + 1) + 1)..m
      BY <3>4
    <3> QED
      BY <3>1, <3>3, <3>5
  <2>2. CASE doc[k] # ref
    <3>1. doc'[k] = doc[k]
      BY <1>5, <2>2
    <3>2. PICK j \in (i + 1)..m : doc[k] = raw[at[j]]
      BY <1>2, <1>9, <3>1 DEF Replacing
    <3>3. j # i + 1
      BY <1>4, <2>2, <3>2
    <3>4. j \in ((i + 1) + 1)..m
      BY <3>2, <3>3
    <3> QED
      BY <3>1, <3>2, <3>4
  <2> QED
    BY <2>1, <2>2
<1>10. ASSUME NEW T, Resolution(T, raw), NEW k \in 1..Len(raw)
       PROVE  T[k] = IF doc'[k].kind = "field" THEN T[doc'[k].of] ELSE doc'[k]
  <2>1. T[k] = IF doc[k].kind = "field" THEN T[doc[k].of] ELSE doc[k]
    BY <1>2, <1>10 DEF Replacing
  <2>2. CASE doc[k] = ref
    <3>1. T[k] = T[ref.of] /\ doc'[k] = raw[ref.of]
      BY <1>5, <1>6, <2>1, <2>2
    <3>2. T[ref.of] = IF raw[ref.of].kind = "field" THEN T[raw[ref.of].of] ELSE raw[ref.of]
      BY <1>6, <1>10 DEF Resolution
    <3> QED
      BY <3>1, <3>2
  <2>3. CASE doc[k] # ref
    BY <1>5, <2>1, <2>3
  <2> QED
    BY <2>2, <2>3
<1>11. References' = References
  BY DEF References
<1>12. Replacing(at, m, i + 1)'
  BY <1>4, <1>6, <1>7, <1>8, <1>9, <1>10, <1>11 DEF Replacing
<1> QED
  BY <1>4, <1>12 DEF FieldsInv

LEMMA FieldsHold == Spec => []FieldsInv
<1>1. Init => FieldsInv
  BY DEF Init, FieldsInv
<1>2. StartupInv /\ Types /\ FieldsInv /\ [Next]_vars => FieldsInv'
  <2> SUFFICES ASSUME StartupInv, Types, FieldsInv, [Next]_vars, phase' = "fields" PROVE FieldsInv'
    BY DEF FieldsInv
  <2>1. CASE UNCHANGED vars
    <3>1. doc' = doc /\ raw' = raw /\ matches' = matches /\ phase' = phase
      BY <2>1 DEF vars, fileVars
    <3>2. ASSUME NEW m, NEW at, NEW i PROVE Replacing(at, m, i)' = Replacing(at, m, i)
      BY <3>1 DEF Replacing, References, Forward, Resolution
    <3> QED
      BY <3>1, <3>2 DEF FieldsInv
  <2>2. CASE Unmarshal
    BY <2>2, UnmarshalFields DEF Unmarshal, ReadError, Exit
  <2>3. CASE ReplaceField
    BY <2>3, ReplaceFieldFields DEF ReplaceField, ReadError, Exit
  <2>4. CASE Flag \/ FlagAgain \/ Positional \/ ParseAgain \/ Parsed \/ Plan
    BY <2>4 DEF Flag, FlagAgain, ParseFlag, Positional, ParseAgain, Parsed, Plan, Exit
  <2>5. CASE Skip \/ WalkPanics \/ Read \/ ReplaceEnv \/ StartJobs
    BY <2>5 DEF Skip, WalkPanics, Read, ReplaceEnv, StartJobs, AppendConfig, ReadError, Exit
  <2>6. CASE Complete
    BY <2>6 DEF Complete, AppendConfig, ReadError, Exit
  <2> QED
    BY <2>1, <2>2, <2>3, <2>4, <2>5, <2>6 DEF Next
<1> QED
  BY <1>1, <1>2, StartupInvHolds, TypesHold, PTL DEF Spec

\* When the references of a document lead down it, one pass of replacements in
\* the order of the document leaves none, and each field has become what the
\* field it refers to has become.
THEOREM ReferencesCorrect == Spec => []ReferencesResolved
<1>1. Types /\ FieldsInv => ReferencesResolved
  <2> SUFFICES ASSUME Types, FieldsInv, phase = "fields", matches = <<>>, Forward(raw),
                      NEW k \in DOMAIN raw
               PROVE  /\ doc[k].kind # "field"
                      /\ doc[k] = IF raw[k].kind = "field" THEN doc[raw[k].of] ELSE raw[k]
    BY DEF ReferencesResolved
  <2>1. PICK S : raw \in Seq(S)
    BY DEF Types, Document
  <2>2. DOMAIN raw = 1..Len(raw) /\ Len(raw) \in Nat
    BY <2>1
  <2>m. PICK m \in Nat : \E at : \E i \in 0..m : Replacing(at, m, i)
    BY DEF FieldsInv
  <2>3. PICK at : \E i \in 0..m : Replacing(at, m, i)
    BY <2>m
  <2>4. Replacing(at, m, m)
    <3>1. PICK i \in 0..m : Replacing(at, m, i)
      BY <2>3
    <3>2. i = m
      BY <3>1 DEF Replacing
    <3> QED
      BY <3>1, <3>2
  <2>5. \A j \in 1..Len(raw) : doc[j].kind # "field"
    <3>1. (m + 1)..m = {}
      OBVIOUS
    <3> QED
      BY <2>4, <3>1 DEF Replacing
  <2>6. Closed(raw)
    <3> SUFFICES ASSUME NEW j \in 1..Len(raw), raw[j].kind = "field" PROVE raw[j].of \in 1..Len(raw)
      BY DEF Closed
    <3>1. PICK x \in 1..m : at[x] = j
      BY <2>4 DEF Replacing, Ascending, References
    <3> QED
      BY <2>4, <3>1 DEF Replacing
  <2>7. PICK T : Resolution(T, raw)
    BY <2>1, <2>6, Resolvable
  <2>8. \A j \in 1..Len(raw) : T[j] = doc[j]
    BY <2>4, <2>5, <2>7 DEF Replacing
  <2>9. doc[k] = IF raw[k].kind = "field" THEN T[raw[k].of] ELSE raw[k]
    BY <2>2, <2>7, <2>8 DEF Resolution
  <2> QED
    BY <2>2, <2>5, <2>6, <2>8, <2>9 DEF Closed
<1> QED
  BY <1>1, TypesHold, FieldsHold, PTL

-----------------------------------------------------------------------------
(***************************************************************************)
(* Flags among positional words.                                           *)
(***************************************************************************)

NoDashes == \A k \in 1..Len(input) : input[k] # Dashes

\* What a reader of the first n words finds: the words that are values of
\* others, the positions of positional words, the words that are no values,
\* and the positions of the values of a flag.
ValueAt(k) == IsValue(input)[k]
WordsTo(n) == {k \in 1..n : ~ValueAt(k) /\ input[k] \notin Flags}
BareTo(n) == {input[k] : k \in {i \in 1..n : ~ValueAt(i)}}
GivenTo(f, n) == {k \in 1..n : ValueAt(k) /\ input[k - 1] = f}

LastGiven(f, n) ==
  \/ GivenTo(f, n) = {} /\ value[f] = ""
  \/ \E k \in GivenTo(f, n) : value[f] = input[k] /\ \A j \in GivenTo(f, n) : j <= k

\* The first n words are parsed to what a reader finds in them.
ParsedTo(n) ==
  /\ seen = BareTo(n) \cap BoolFlags
  /\ \A f \in ValueFlags : LastGiven(f, n)

\* The words behind the first n are left, and the next one is no value.
LeftFrom(n) ==
  /\ Len(args) = Len(input) - n
  /\ \A k \in 1..Len(args) : args[k] = input[n + k]
  /\ n > 0 => (input[n] \notin ValueFlags \/ ValueAt(n))

LineInv ==
  NoDashes =>
    /\ phase = "flags" =>
         \E n \in 0..Len(input) :
           LeftFrom(n) /\ ParsedTo(n) /\ positional = Pick(input, WordsTo(n))
    /\ phase \in {"final", "plan"} =>
         args = Pick(input, WordsTo(Len(input))) /\ ParsedTo(Len(input))

\* Whether a word is a value depends on the word before it.
LEMMA WordAfter ==
  ASSUME input \in Seq(Words), NEW n \in 0..Len(input), n + 1 \in 1..Len(input)
  PROVE  /\ (n > 0 => (input[n] \notin ValueFlags \/ ValueAt(n))) => ~ValueAt(n + 1)
         /\ (n > 0 /\ input[n] \in ValueFlags /\ ~ValueAt(n)) => ValueAt(n + 1)
<1>1. ReadTo(IsValue(input), input, Len(input))
  BY IsValueReads
<1>2. IsValue(input)[n + 1] = (n + 1 > 1 /\ input[n + 1 - 1] \in ValueFlags /\ ~IsValue(input)[n + 1 - 1])
  BY <1>1 DEF ReadTo
<1>3. n + 1 - 1 = n /\ (n + 1 > 1 <=> n > 0)
  OBVIOUS
<1> QED
  BY <1>2, <1>3 DEF ValueAt

\* The reader goes on by one word.
LEMMA OneMoreWord ==
  ASSUME NEW n \in Nat
  PROVE  /\ WordsTo(n + 1) = WordsTo(n) \cup
              (IF ~ValueAt(n + 1) /\ input[n + 1] \notin Flags THEN {n + 1} ELSE {})
         /\ BareTo(n + 1) = BareTo(n) \cup (IF ~ValueAt(n + 1) THEN {input[n + 1]} ELSE {})
         /\ \A f : GivenTo(f, n + 1) = GivenTo(f, n) \cup
              (IF ValueAt(n + 1) /\ input[n] = f THEN {n + 1} ELSE {})
<1>1. 1..(n + 1) = (1..n) \cup {n + 1} /\ n + 1 - 1 = n
  OBVIOUS
<1> QED
  BY <1>1 DEF WordsTo, BareTo, GivenTo

\* The reader finds the same in the same line.
LEMMA SameLine ==
  ASSUME UNCHANGED input
  PROVE  /\ \A n : WordsTo(n)' = WordsTo(n) /\ BareTo(n)' = BareTo(n) /\ ValueAt(n)' = ValueAt(n)
         /\ \A f, n : GivenTo(f, n)' = GivenTo(f, n)
BY DEF WordsTo, BareTo, GivenTo, ValueAt

LEMMA SameGiven ==
  ASSUME UNCHANGED input, NEW f, NEW m, NEW n, LastGiven(f, m), GivenTo(f, n) = GivenTo(f, m),
         value'[f] = value[f]
  PROVE  LastGiven(f, n)'
<1>1. GivenTo(f, n)' = GivenTo(f, m)
  BY SameLine
<1> QED
  BY <1>1 DEF LastGiven

LEMMA SameParsed ==
  ASSUME UNCHANGED <<input, seen, value>>, NEW n, ParsedTo(n)
  PROVE  ParsedTo(n)'
<1>1. \A f \in ValueFlags : LastGiven(f, n)'
  BY SameGiven DEF ParsedTo
<1> QED
  BY <1>1, SameLine DEF ParsedTo

\* A flag that has no value is parsed.
LEMMA BoolFlagLine ==
  ASSUME Lists, Types, NEW n \in 0..Len(input), LeftFrom(n), ParsedTo(n), args # <<>>,
         Head(args) \in BoolFlags, seen' = seen \cup {Head(args)}, args' = Tail(args),
         UNCHANGED <<input, value>>
  PROVE  /\ n + 1 \in 0..Len(input) /\ LeftFrom(n + 1)' /\ ParsedTo(n + 1)'
         /\ WordsTo(n + 1)' = WordsTo(n)
<1>1. /\ Len(args) \in Nat \ {0} /\ Head(args) = args[1] /\ Len(Tail(args)) = Len(args) - 1
      /\ \A k \in 1..Len(Tail(args)) : Tail(args)[k] = args[k + 1]
  BY Rest DEF Lists
<1>2. n + 1 \in 1..Len(input) /\ n \in Nat /\ Len(input) \in Nat /\ input[n + 1] = Head(args)
  BY <1>1 DEF LeftFrom, Types
<1>3. ~ValueAt(n + 1)
  BY <1>2, WordAfter DEF LeftFrom, Types
<1>4. Head(args) \in Flags /\ Head(args) \notin ValueFlags
  BY StartupAssumption DEF Flags
<1>5. /\ WordsTo(n + 1) = WordsTo(n) /\ BareTo(n + 1) = BareTo(n) \cup {Head(args)}
      /\ \A f : GivenTo(f, n + 1) = GivenTo(f, n)
  <2>1. WordsTo(n + 1) = WordsTo(n) \cup {}
    BY <1>2, <1>4, OneMoreWord
  <2>2. BareTo(n + 1) = BareTo(n) \cup {Head(args)}
    BY <1>2, <1>3, OneMoreWord
  <2>3. \A f : GivenTo(f, n + 1) = GivenTo(f, n) \cup {}
    BY <1>2, <1>3, OneMoreWord
  <2> QED
    BY <2>1, <2>2, <2>3
<1>6. ASSUME NEW k \in 1..Len(args') PROVE args'[k] = input[(n + 1) + k]
  <2>1. k + 1 \in 1..Len(args) /\ n + (k + 1) = (n + 1) + k /\ args'[k] = args[k + 1]
    BY <1>1
  <2> QED
    BY <2>1 DEF LeftFrom
<1>7. LeftFrom(n + 1)'
  BY <1>1, <1>2, <1>4, <1>6 DEF LeftFrom, ValueAt
<1>8. ParsedTo(n + 1)'
  <2>1. seen' = BareTo(n + 1) \cap BoolFlags
    BY <1>5 DEF ParsedTo
  <2>2. \A f \in ValueFlags : LastGiven(f, n + 1)'
    BY <1>5, SameGiven DEF ParsedTo
  <2> QED
    BY <2>1, <2>2, SameLine DEF ParsedTo
<1> QED
  BY <1>2, <1>5, <1>7, <1>8, SameLine

\* A flag is parsed with its value.
LEMMA ValueFlagLine ==
  ASSUME Lists, Types, NEW n \in 0..Len(input), LeftFrom(n), ParsedTo(n), Len(args) > 1,
         Head(args) \in ValueFlags, value' = [value EXCEPT ![Head(args)] = args[2]],
         args' = Tail(Tail(args)), UNCHANGED <<input, seen>>
  PROVE  /\ n + 2 \in 0..Len(input) /\ LeftFrom(n + 2)' /\ ParsedTo(n + 2)'
         /\ WordsTo(n + 2)' = WordsTo(n)
<1>a. PICK flag : flag = Head(args)
  OBVIOUS
<1>0. Tail(args) \in Seq(Words) /\ Tail(args) # <<>> /\ args # <<>> /\ args \in Seq(Words)
  <2>1. args \in Seq(Words)
    BY DEF Lists
  <2>2. args # <<>>
    BY <2>1
  <2> QED
    BY <2>1, <2>2, SecondWord
<1>1. /\ Len(args) \in Nat /\ flag = args[1] /\ Len(args') = Len(args) - 2
      /\ \A k \in 1..Len(args') : args'[k] = args[k + 2]
  <2>1. /\ Len(args) \in Nat \ {0} /\ flag = args[1] /\ Len(Tail(args)) = Len(args) - 1
        /\ \A k \in 1..Len(Tail(args)) : Tail(args)[k] = args[k + 1]
    BY <1>a, <1>0, Rest
  <2>2. /\ Len(args') = Len(Tail(args)) - 1
        /\ \A k \in 1..Len(args') : args'[k] = Tail(args)[k + 1]
    BY <1>0, Rest
  <2>3. ASSUME NEW k \in 1..Len(args') PROVE args'[k] = args[k + 2]
    <3>1. k + 1 \in 1..Len(Tail(args)) /\ (k + 1) + 1 = k + 2
      BY <2>1, <2>2
    <3> QED
      BY <2>1, <2>2, <3>1
  <2> QED
    BY <2>1, <2>2, <2>3
<1>2. /\ n \in Nat /\ Len(input) \in Nat /\ n + 1 \in 1..Len(input) /\ (n + 1) + 1 \in 1..Len(input)
      /\ n + 1 \in 0..Len(input) /\ input[n + 1] = flag /\ input[n + 2] = args[2] /\ (n + 1) + 1 = n + 2
  BY <1>1 DEF LeftFrom, Types
<1>3. ~ValueAt(n + 1)
  BY <1>2, WordAfter DEF LeftFrom, Types
<1>4. ValueAt(n + 2) /\ ValueAt((n + 1) + 1)
  <2>1. flag \in ValueFlags /\ input \in Seq(Words) /\ n + 1 > 0
    BY <1>a, <1>2 DEF Types
  <2> QED
    BY <1>2, <1>3, <2>1, WordAfter
<1>5. flag \in Flags /\ flag \notin BoolFlags
  BY <1>a, StartupAssumption DEF Flags
<1>b. n + 1 \in Nat
  BY <1>2
<1>6. WordsTo(n + 2) = WordsTo(n)
  <2>1. WordsTo(n + 1) = WordsTo(n) \cup {}
    BY <1>2, <1>5, OneMoreWord
  <2>2. WordsTo((n + 1) + 1) = WordsTo(n + 1) \cup
          (IF ~ValueAt((n + 1) + 1) /\ input[(n + 1) + 1] \notin Flags THEN {(n + 1) + 1} ELSE {})
    BY <1>b, OneMoreWord
  <2> QED
    BY <1>2, <1>4, <2>1, <2>2
<1>7. BareTo(n + 2) = BareTo(n) \cup {flag}
  <2>1. BareTo(n + 1) = BareTo(n) \cup {flag}
    BY <1>2, <1>3, OneMoreWord
  <2>2. BareTo((n + 1) + 1) = BareTo(n + 1) \cup (IF ~ValueAt((n + 1) + 1) THEN {input[(n + 1) + 1]} ELSE {})
    BY <1>b, OneMoreWord
  <2> QED
    BY <1>2, <1>4, <2>1, <2>2
<1>8. \A f : GivenTo(f, n + 2) = GivenTo(f, n) \cup (IF f = flag THEN {n + 2} ELSE {})
  <2>1. \A f : GivenTo(f, n + 1) = GivenTo(f, n) \cup {}
    BY <1>2, <1>3, OneMoreWord
  <2>2. \A f : GivenTo(f, (n + 1) + 1) = GivenTo(f, n + 1) \cup
                 (IF ValueAt((n + 1) + 1) /\ input[n + 1] = f THEN {(n + 1) + 1} ELSE {})
    BY <1>b, OneMoreWord
  <2> QED
    BY <1>2, <1>4, <2>1, <2>2
<1>9. LeftFrom(n + 2)'
  <2>1. ASSUME NEW k \in 1..Len(args') PROVE args'[k] = input[(n + 2) + k]
    <3>1. args'[k] = args[k + 2]
      BY <1>1
    <3>2. Len(args) \in Nat /\ Len(args') = Len(args) - 2 /\ n \in Nat
      BY <1>1, <1>2
    <3>3. k + 2 \in 1..Len(args) /\ n + (k + 2) = (n + 2) + k
      BY <3>2
    <3> QED
      BY <3>1, <3>3 DEF LeftFrom
  <2>2. Len(args') = Len(input) - (n + 2)
    BY <1>1, <1>2 DEF LeftFrom
  <2> QED
    BY <1>4, <2>1, <2>2, SameLine DEF LeftFrom
<1>10. ParsedTo(n + 2)'
  <2>1. seen' = BareTo(n + 2) \cap BoolFlags
    BY <1>5, <1>7 DEF ParsedTo
  <2>2. ASSUME NEW f \in ValueFlags, f # flag PROVE LastGiven(f, n + 2)'
    <3>1. GivenTo(f, n + 2) = GivenTo(f, n) \cup {}
      BY <1>8, <2>2
    <3>2. value'[f] = value[f]
      BY <1>a, <2>2 DEF Lists
    <3> QED
      BY <3>1, <3>2, SameGiven DEF ParsedTo
  <2>3. LastGiven(flag, n + 2)'
    <3>1. GivenTo(flag, n + 2)' = GivenTo(flag, n) \cup {n + 2}
      <4>1. GivenTo(flag, n + 2)' = GivenTo(flag, n + 2)
        BY SameLine
      <4> QED
        BY <1>8, <4>1
    <3>2. value'[flag] = input[n + 2]
      BY <1>a, <1>2 DEF Lists
    <3>3. \A j \in GivenTo(flag, n) : j <= n + 2
      BY <1>2 DEF GivenTo
    <3>4. n + 2 \in GivenTo(flag, n + 2)' /\ \A j \in GivenTo(flag, n + 2)' : j <= n + 2
      BY <1>2, <3>1, <3>3
    <3> QED
      BY <3>2, <3>4 DEF LastGiven
  <2> QED
    BY <2>1, <2>2, <2>3, SameLine DEF ParsedTo
<1> QED
  BY <1>2, <1>6, <1>9, <1>10, SameLine

\* A word that is no flag becomes positional.
LEMMA PositionalLine ==
  ASSUME Lists, Types, NoDashes, NEW n \in 0..Len(input), LeftFrom(n), ParsedTo(n),
         positional = Pick(input, WordsTo(n)), Positional
  PROVE  /\ n + 1 \in 0..Len(input) /\ LeftFrom(n + 1)' /\ ParsedTo(n + 1)'
         /\ positional' = Pick(input, WordsTo(n + 1))
<1>0. args # <<>> /\ args \in Seq(Words) /\ input \in Seq(Words)
  BY DEF Positional, Lists, Types
<1>1. /\ Len(args) \in Nat \ {0} /\ Head(args) = args[1] /\ Len(Tail(args)) = Len(args) - 1
      /\ \A k \in 1..Len(Tail(args)) : Tail(args)[k] = args[k + 1]
  BY <1>0, Rest
<1>2. /\ n + 1 \in 1..Len(input) /\ n \in Nat /\ Len(input) \in Nat /\ n + 1 \in 0..Len(input)
      /\ input[n + 1] = Head(args)
  BY <1>0, <1>1 DEF LeftFrom
<1>3. Head(args) # Dashes
  BY <1>2 DEF NoDashes
<1>4. Head(args) \notin Flags
  BY <1>0, <1>3 DEF Positional, AtFlag
<1>5. /\ positional' = Append(positional, Head(args)) /\ args' = Tail(args)
      /\ UNCHANGED <<input, seen, value>>
  BY <1>0, <1>3 DEF Positional, Left
<1>6. ~ValueAt(n + 1)
  BY <1>0, <1>2, WordAfter DEF LeftFrom
<1>7. WordsTo(n + 1) = WordsTo(n) \cup {n + 1}
  BY <1>2, <1>4, <1>6, OneMoreWord
<1>8. BareTo(n + 1) = BareTo(n) \cup {Head(args)}
  BY <1>2, <1>6, OneMoreWord
<1>9. \A f : GivenTo(f, n + 1) = GivenTo(f, n) \cup {}
  BY <1>2, <1>6, OneMoreWord
<1>10. LeftFrom(n + 1)'
  <2>1. ASSUME NEW k \in 1..Len(args') PROVE args'[k] = input[(n + 1) + k]
    <3>1. k + 1 \in 1..Len(args) /\ n + (k + 1) = (n + 1) + k /\ args'[k] = args[k + 1]
      BY <1>1, <1>5
    <3> QED
      BY <3>1 DEF LeftFrom
  <2>2. Len(args') = Len(input) - (n + 1)
    BY <1>1, <1>2, <1>5 DEF LeftFrom
  <2>3. input[n + 1] \notin ValueFlags
    BY <1>2, <1>4 DEF Flags
  <2> QED
    BY <1>5, <2>1, <2>2, <2>3 DEF LeftFrom
<1>11. ParsedTo(n + 1)'
  <2>1. seen' = BareTo(n + 1) \cap BoolFlags
    BY <1>4, <1>5, <1>8 DEF ParsedTo, Flags
  <2>2. \A f \in ValueFlags : LastGiven(f, n + 1)'
    BY <1>5, <1>9, SameGiven DEF ParsedTo
  <2> QED
    BY <1>5, <2>1, <2>2, SameLine DEF ParsedTo
<1>12. positional' = Pick(input, WordsTo(n + 1))
  <2>1. WordsTo(n) \in SUBSET (1..Len(input)) /\ \A w \in WordsTo(n) : w < n + 1
    BY <1>2 DEF WordsTo
  <2>2. Pick(input, WordsTo(n) \cup {n + 1}) = Append(Pick(input, WordsTo(n)), input[n + 1])
    BY <1>0, <1>2, <2>1, PickAppend
  <2> QED
    BY <1>2, <1>5, <1>7, <2>2
<1> QED
  BY <1>2, <1>10, <1>11, <1>12

\* No flag is among the positional words.
LEMMA NoFlagLeft ==
  ASSUME Types, args = Pick(input, WordsTo(Len(input))), args # <<>>
  PROVE  Head(args) \notin Flags
<1>1. input \in Seq(Words) /\ WordsTo(Len(input)) \in SUBSET (1..Len(input))
  BY DEF Types, WordsTo
<1>m. PICK m \in 0..Len(input) : \E at : PickedAt(args, input, WordsTo(Len(input)), m, at)
  BY <1>1, Picked
<1>2. PICK at : PickedAt(args, input, WordsTo(Len(input)), m, at)
  BY <1>m
<1>3. args \in Seq(Words) /\ Len(args) = m
  BY <1>1, <1>2, PickType
<1>4. 1 \in 1..m /\ Head(args) = args[1]
  BY <1>3
<1>5. args[1] = input[at[1]] /\ at[1] \in WordsTo(Len(input))
  BY <1>2, <1>4 DEF PickedAt
<1> QED
  BY <1>4, <1>5 DEF WordsTo

LEMMA LineStep ==
  ASSUME StartupInv, Types, LineInv, [Next]_vars
  PROVE  LineInv'
<1> SUFFICES ASSUME NoDashes', phase' \in {"flags", "final", "plan"}
             PROVE  /\ phase' = "flags" =>
                         \E n \in 0..Len(input') :
                           LeftFrom(n)' /\ ParsedTo(n)' /\ positional' = Pick(input', WordsTo(n)')
                    /\ phase' \in {"final", "plan"} =>
                         args' = Pick(input', WordsTo(Len(input))') /\ ParsedTo(Len(input))'
  BY DEF LineInv
<1>0. Lists
  BY DEF StartupInv
<1>1. Flag \/ FlagAgain \/ Positional \/ ParseAgain \/ Parsed \/ UNCHANGED vars
  <2>1. CASE Plan
    BY <2>1 DEF Plan, Exit
  <2>2. CASE Skip \/ WalkPanics \/ Read \/ ReplaceEnv \/ StartJobs
    BY <2>2 DEF Skip, WalkPanics, Read, ReplaceEnv, StartJobs, AppendConfig, ReadError, Exit
  <2>3. CASE Unmarshal \/ ReplaceField \/ Complete
    BY <2>3 DEF Unmarshal, ReplaceField, Complete, AppendConfig, ReadError, Exit
  <2> QED
    BY <2>1, <2>2, <2>3 DEF Next
<1>2. UNCHANGED input /\ NoDashes
  <2>1. UNCHANGED input
    BY <1>1 DEF Flag, FlagAgain, ParseFlag, Positional, ParseAgain, Parsed, vars, parseVars
  <2> QED
    BY <2>1 DEF NoDashes
<1>3. phase = "flags" => \E n \in 0..Len(input) :
        LeftFrom(n) /\ ParsedTo(n) /\ positional = Pick(input, WordsTo(n))
  BY <1>2 DEF LineInv
<1>4. phase \in {"final", "plan"} => args = Pick(input, WordsTo(Len(input))) /\ ParsedTo(Len(input))
  BY <1>2 DEF LineInv
<1>5. CASE UNCHANGED vars
  <2>1. UNCHANGED <<phase, input, args, positional, seen, value>>
    BY <1>5 DEF vars, parseVars
  <2>2. \A n : WordsTo(n)' = WordsTo(n) /\ (LeftFrom(n) => LeftFrom(n)') /\ (ParsedTo(n) => ParsedTo(n)')
    BY <2>1, SameLine, SameParsed DEF LeftFrom
  <2> QED
    BY <1>3, <1>4, <2>1, <2>2
<1>6. CASE Flag
  <2>1. PICK n \in 0..Len(input) : LeftFrom(n) /\ ParsedTo(n) /\ positional = Pick(input, WordsTo(n))
    BY <1>3, <1>6 DEF Flag
  <2>2. phase = "flags" /\ ParseFlag /\ args # <<>> /\ UNCHANGED <<input, positional>> /\ ~Exit
    BY <1>6 DEF Flag, ParseFlag, AtFlag, Exit
  <2>3. CASE Head(args) \in BoolFlags
    <3>1. seen' = seen \cup {Head(args)} /\ args' = Tail(args) /\ UNCHANGED <<phase, value>>
      BY <2>2, <2>3, StartupAssumption DEF ParseFlag
    <3>2. /\ n + 1 \in 0..Len(input) /\ LeftFrom(n + 1)' /\ ParsedTo(n + 1)'
          /\ WordsTo(n + 1)' = WordsTo(n)
      BY <1>0, <2>1, <2>2, <2>3, <3>1, BoolFlagLine
    <3> QED
      BY <2>1, <2>2, <3>1, <3>2
  <2>4. CASE Head(args) \in ValueFlags /\ Len(args) > 1 /\ Head(args) \notin BoolFlags
    <3>1. /\ value' = [value EXCEPT ![Head(args)] = args[2]] /\ args' = Tail(Tail(args))
          /\ UNCHANGED <<phase, seen>>
      BY <2>2, <2>4 DEF ParseFlag
    <3>2. /\ n + 2 \in 0..Len(input) /\ LeftFrom(n + 2)' /\ ParsedTo(n + 2)'
          /\ WordsTo(n + 2)' = WordsTo(n)
      BY <1>0, <2>1, <2>2, <2>4, <3>1, ValueFlagLine
    <3> QED
      BY <2>1, <2>2, <3>1, <3>2
  <2> QED
    BY <2>2, <2>3, <2>4 DEF ParseFlag
<1>7. CASE Positional
  <2>1. PICK n \in 0..Len(input) : LeftFrom(n) /\ ParsedTo(n) /\ positional = Pick(input, WordsTo(n))
    BY <1>3, <1>7 DEF Positional
  <2>2. /\ n + 1 \in 0..Len(input) /\ LeftFrom(n + 1)' /\ ParsedTo(n + 1)'
        /\ positional' = Pick(input, WordsTo(n + 1))
    BY <1>0, <1>2, <1>7, <2>1, PositionalLine
  <2>3. phase' = "flags"
    BY <1>7 DEF Positional
  <2> QED
    BY <1>2, <2>2, <2>3, SameLine
<1>8. CASE ParseAgain
  <2>1. PICK n \in 0..Len(input) : LeftFrom(n) /\ ParsedTo(n) /\ positional = Pick(input, WordsTo(n))
    BY <1>3, <1>8 DEF ParseAgain
  <2>2. n = Len(input)
    <3>1. Len(args) = 0 /\ Len(input) \in Nat
      BY <1>8 DEF ParseAgain, Types
    <3> QED
      BY <2>1, <3>1 DEF LeftFrom
  <2>3. ParsedTo(Len(input))'
    BY <1>8, <2>1, <2>2, SameParsed DEF ParseAgain
  <2> QED
    BY <1>2, <1>8, <2>1, <2>2, <2>3, SameLine DEF ParseAgain
<1>9. CASE FlagAgain
  BY <1>4, <1>9, NoFlagLeft DEF FlagAgain, ParseFlag, AtFlag
<1>10. CASE Parsed
  <2>1. args = Pick(input, WordsTo(Len(input))) /\ ParsedTo(Len(input))
    BY <1>4, <1>10 DEF Parsed
  <2>2. args' = args
    BY <1>10, <2>1, NoFlagLeft DEF Parsed, Left, Flags
  <2>3. ParsedTo(Len(input))'
    BY <1>10, <2>1, SameParsed DEF Parsed
  <2> QED
    BY <1>2, <1>10, <2>1, <2>2, <2>3, SameLine DEF Parsed
<1> QED
  BY <1>1, <1>5, <1>6, <1>7, <1>8, <1>9, <1>10

LEMMA LineHolds == Spec => []LineInv
<1>1. Init => LineInv
  <2> SUFFICES ASSUME Init PROVE LineInv
    OBVIOUS
  <2>0. input \in Seq(Words)
    BY StartupAssumption DEF Init
  <2>1. /\ args = input /\ positional = <<>> /\ phase = "flags"
        /\ seen = {} /\ value = [f \in ValueFlags |-> ""]
    BY DEF Init
  <2>2. Len(input) \in Nat
    BY <2>0
  <2>a. LeftFrom(0)
    <3>1. args = input
      BY <2>1
    <3> QED
      BY <2>2, <3>1 DEF LeftFrom
  <2>3. WordsTo(0) = {} /\ BareTo(0) = {} /\ \A f : GivenTo(f, 0) = {}
    BY DEF WordsTo, BareTo, GivenTo
  <2>4. ParsedTo(0)
    BY <2>1, <2>3 DEF ParsedTo, LastGiven
  <2>5. positional = Pick(input, WordsTo(0))
    BY <2>0, <2>1, <2>3, PickNothing
  <2>6. 0 \in 0..Len(input)
    BY <2>2
  <2> QED
    BY <2>1, <2>a, <2>4, <2>5, <2>6 DEF LineInv
<1>2. StartupInv /\ Types /\ LineInv /\ [Next]_vars => LineInv'
  BY LineStep
<1> QED
  BY <1>1, <1>2, StartupInvHolds, TypesHold, PTL DEF Spec

\* Whatever the order of flags, values and positional words on a line, the
\* loop of ParseFlagSet finds the flags, their last values and the positional
\* words in their order.
THEOREM FlagsCorrect == Spec => []FlagsAnywhere
<1>1. Types /\ LineInv => FlagsAnywhere
  <2> SUFFICES ASSUME Types, LineInv, phase = "plan", \A k \in DOMAIN input : input[k] # Dashes
               PROVE  FlagsAnywhere
    BY DEF FlagsAnywhere
  <2>1. DOMAIN input = 1..Len(input)
    BY DEF Types
  <2>2. args = Pick(input, WordsTo(Len(input))) /\ ParsedTo(Len(input))
    BY <2>1 DEF LineInv, NoDashes
  <2> QED
    BY <2>1, <2>2 DEF FlagsAnywhere, ParsedTo, LastGiven, WordsTo, BareTo, GivenTo, ValueAt
<1> QED
  BY <1>1, TypesHold, LineHolds, PTL

-----------------------------------------------------------------------------
(***************************************************************************)
(* Start-up comes to an end.                                               *)
(***************************************************************************)

\* What is still to do: the stage of start-up, the words to parse or the files
\* to read, the part of getOneConfig, and the references to replace.
Stage == IF phase = "flags" THEN 4 ELSE IF phase = "final" THEN 3 ELSE IF phase = "plan" THEN 2
         ELSE IF phase \in Reading THEN 1 ELSE 0
Size == IF phase \in {"flags", "final"} THEN Len(args) ELSE Len(todo)
Part == IF phase = "load" THEN 2 ELSE IF phase = "envs" THEN 1 ELSE 0

Lower ==
  \/ Stage' < Stage
  \/ Stage' = Stage /\ Size' < Size
  \/ Stage' = Stage /\ Size' = Size /\ Part' < Part
  \/ Stage' = Stage /\ Size' = Size /\ Part' = Part /\ Len(matches') < Len(matches)

Rank == [i \in 1..4 |-> IF i = 1 THEN Stage ELSE IF i = 2 THEN Size ELSE IF i = 3 THEN Part ELSE Len(matches)]

\* The lexicographic order of four numbers.
Below == LexProductOrdering({ss \in Nat \X Nat : ss[1] < ss[2]}, Nat, 4)

Descends == <<Rank', Rank>> \in Below

LEMMA RankType ==
  ASSUME Lists, Types
  PROVE  Stage \in Nat /\ Size \in Nat /\ Part \in Nat /\ Len(matches) \in Nat
<1>1. Len(args) \in Nat /\ Len(todo) \in Nat
  <2>1. args \in Seq(Words) /\ todo \in Seq(Words)
    BY DEF Lists
  <2> QED
    BY <2>1
<1>2. Len(matches) \in Nat
  BY DEF Types, Document
<1> QED
  BY <1>1, <1>2 DEF Stage, Size, Part

LEMMA LowerIsBelow ==
  ASSUME Lists, Types, Lists', Types', Lower
  PROVE  <<Rank', Rank>> \in Below
<1>1. /\ Stage \in Nat /\ Size \in Nat /\ Part \in Nat /\ Len(matches) \in Nat
      /\ Stage' \in Nat /\ Size' \in Nat /\ Part' \in Nat /\ Len(matches') \in Nat
  <2>1. (Stage \in Nat /\ Size \in Nat /\ Part \in Nat /\ Len(matches) \in Nat)'
    <3>1. Len(args)' \in Nat /\ Len(todo)' \in Nat
      <4>1. args' \in Seq(Words) /\ todo' \in Seq(Words)
        BY DEF Lists
      <4> QED
        BY <4>1
    <3>2. Len(matches)' \in Nat
      BY DEF Types, Document
    <3> QED
      BY <3>1, <3>2 DEF Stage, Size, Part
  <2> QED
    BY <2>1, RankType
<1>2. /\ Rank[1] = Stage /\ Rank[2] = Size /\ Rank[3] = Part /\ Rank[4] = Len(matches)
      /\ Rank'[1] = Stage' /\ Rank'[2] = Size' /\ Rank'[3] = Part' /\ Rank'[4] = Len(matches')
  BY DEF Rank
<1>3. Rank \in [1..4 -> Nat] /\ Rank' \in [1..4 -> Nat]
  BY <1>1 DEF Rank
<1> DEFINE R == {ss \in Nat \X Nat : ss[1] < ss[2]}
<1>4. \A x, y \in Nat : x < y => <<x, y>> \in R
  OBVIOUS
<1> HIDE DEF R
<1>5. \E j \in 1..4 : (\A i \in 1..(j - 1) : Rank'[i] = Rank[i]) /\ <<Rank'[j], Rank[j]>> \in R
  <2>1. CASE Stage' < Stage
    <3>1. <<Rank'[1], Rank[1]>> \in R
      BY <1>1, <1>2, <1>4, <2>1
    <3> QED
      BY <3>1
  <2>2. CASE Stage' = Stage /\ Size' < Size
    <3>1. <<Rank'[2], Rank[2]>> \in R
      BY <1>1, <1>2, <1>4, <2>2
    <3>2. \A i \in 1..(2 - 1) : Rank'[i] = Rank[i]
      BY <1>2, <2>2
    <3> QED
      BY <3>1, <3>2
  <2>3. CASE Stage' = Stage /\ Size' = Size /\ Part' < Part
    <3>1. <<Rank'[3], Rank[3]>> \in R
      BY <1>1, <1>2, <1>4, <2>3
    <3>2. \A i \in 1..(3 - 1) : Rank'[i] = Rank[i]
      BY <1>2, <2>3
    <3> QED
      BY <3>1, <3>2
  <2>4. CASE Stage' = Stage /\ Size' = Size /\ Part' = Part /\ Len(matches') < Len(matches)
    <3>1. <<Rank'[4], Rank[4]>> \in R
      BY <1>1, <1>2, <1>4, <2>4
    <3>2. \A i \in 1..(4 - 1) : Rank'[i] = Rank[i]
      BY <1>2, <2>4
    <3> QED
      BY <3>1, <3>2
  <2> QED
    BY <2>1, <2>2, <2>3, <2>4 DEF Lower
<1> QED
  BY <1>3, <1>5 DEF Below, LexProductOrdering, R

LEMMA StepsLower ==
  ASSUME StartupInv, Types, Next
  PROVE  Lower
<1>0. Lists /\ args \in Seq(Words) /\ todo \in Seq(Words) /\ Len(args) \in Nat /\ Len(todo) \in Nat
  <2>1. Lists /\ args \in Seq(Words) /\ todo \in Seq(Words)
    BY DEF StartupInv, Lists
  <2> QED
    BY <2>1
<1>a. ASSUME phase' = "exited", phase \in {"flags", "final", "plan", "load", "envs", "fields"} PROVE Lower
  <2>1. Stage' = 0
    BY <1>a DEF Stage, Reading
  <2>2. Stage \in {1, 2, 3, 4}
    BY <1>a DEF Stage, Reading
  <2> QED
    BY <2>1, <2>2 DEF Lower
<1>b. ASSUME phase \in {"flags", "final"}, phase' = phase, Len(args') < Len(args) PROVE Lower
  <2>1. Stage' = Stage
    BY <1>b DEF Stage
  <2>2. Size' < Size
    BY <1>b DEF Size
  <2> QED
    BY <2>1, <2>2 DEF Lower
<1>1. ASSUME Flag \/ FlagAgain PROVE Lower
  <2>1. args # <<>> /\ phase \in {"flags", "final"}
    BY <1>1 DEF Flag, FlagAgain, ParseFlag, AtFlag
  <2>2. Len(Tail(args)) = Len(args) - 1
    BY <1>0, <2>1, Rest
  <2>3. CASE Exit
    BY <1>a, <2>1, <2>3 DEF Exit
  <2>4. CASE phase' = phase /\ args' = Tail(args)
    <3>1. Len(args') = Len(args) - 1
      BY <2>2, <2>4
    <3>2. Len(args') < Len(args)
      BY <1>0, <3>1
    <3> QED
      BY <1>b, <2>1, <2>4, <3>2
  <2>5. CASE phase' = phase /\ args' = Tail(Tail(args)) /\ Len(args) > 1
    <3>1. Tail(args) \in Seq(Words) /\ Tail(args) # <<>>
      BY <1>0, <2>5, SecondWord
    <3>2. Len(args') = Len(args) - 2
      BY <1>0, <2>2, <2>5, <3>1, Rest
    <3>3. Len(args') < Len(args)
      BY <1>0, <3>2
    <3> QED
      BY <1>b, <2>1, <2>5, <3>3
  <2> QED
    BY <1>1, <2>3, <2>4, <2>5 DEF Flag, FlagAgain, ParseFlag
<1>2. ASSUME Positional PROVE Lower
  <2>1. args # <<>> /\ phase = "flags" /\ phase' = phase
    BY <1>2 DEF Positional
  <2>2. Len(args) \in Nat \ {0} /\ Tail(args) \in Seq(Words) /\ Len(Tail(args)) = Len(args) - 1
    BY <1>0, <2>1, Rest
  <2>3. Left \in Seq(Words) /\ Len(Left) <= Len(args) /\ Len(Left) \in Nat
    BY <1>0, <2>2 DEF Left
  <2>4. Len(args') < Len(args)
    <3>1. CASE Left = <<>>
      <4>1. args' = <<>>
        BY <1>2, <3>1 DEF Positional
      <4>2. Len(args') = 0
        BY <4>1
      <4> QED
        BY <2>2, <4>2
    <3>2. CASE Left # <<>>
      <4>1. Len(Tail(Left)) = Len(Left) - 1
        BY <2>3, <3>2, Rest
      <4>2. args' = Tail(Left)
        BY <1>2, <3>2 DEF Positional
      <4> QED
        <5>1. Len(args') = Len(Left) - 1
          BY <4>1, <4>2
        <5> QED
          BY <1>0, <2>3, <5>1
    <3> QED
      BY <3>1, <3>2
  <2> QED
    BY <1>b, <2>1, <2>4
<1>3. ASSUME ParseAgain \/ Parsed \/ Plan \/ StartJobs PROVE Lower
  <2>1. CASE phase' = "exited"
    BY <1>a, <1>3, <2>1 DEF ParseAgain, Parsed, Plan, StartJobs
  <2>2. CASE phase = "flags" /\ phase' = "final"
    BY <2>2 DEF Lower, Stage
  <2>3. CASE phase = "final" /\ phase' = "plan"
    BY <2>3 DEF Lower, Stage
  <2>4. CASE phase = "plan" /\ phase' = "load"
    BY <2>4 DEF Lower, Stage, Reading
  <2>5. CASE phase = "load" /\ phase' = "running"
    BY <2>5 DEF Lower, Stage, Reading
  <2> QED
    BY <1>3, <2>1, <2>2, <2>3, <2>4, <2>5 DEF ParseAgain, Parsed, Plan, StartJobs, Exit
<1>4. ASSUME phase \in Reading, todo # <<>>, NextFile, phase' \in {"load", "exited"} PROVE Lower
  <2>1. Len(todo') = Len(todo) - 1
    BY <1>0, <1>4, Rest DEF NextFile
  <2> QED
    BY <1>0, <1>4, <2>1 DEF Lower, Stage, Size, Reading
<1>5. ASSUME Skip \/ WalkPanics PROVE Lower
  BY <1>4, <1>5 DEF Skip, WalkPanics, Exit, Reading
<1>6. ASSUME Read PROVE Lower
  <2>1. CASE NextFile /\ phase' \in {"load", "exited"}
    BY <1>4, <1>6, <2>1 DEF Read, Reading
  <2>2. CASE phase' = "envs" /\ UNCHANGED todo
    BY <1>6, <2>2 DEF Read, Lower, Stage, Size, Part, Reading
  <2> QED
    BY <1>6, <2>1, <2>2 DEF Read, AppendConfig, ReadError, Exit
<1>7. ASSUME ReplaceEnv \/ Unmarshal \/ ReplaceField \/ Complete PROVE Lower
  <2>1. phase \in {"envs", "fields"} /\ todo # <<>> /\ phase \in Reading
    BY <1>7 DEF ReplaceEnv, Unmarshal, ReplaceField, Complete, StartupInv, Position, Reading
  <2>2. CASE NextFile /\ phase' \in {"load", "exited"}
    BY <1>4, <2>1, <2>2
  <2>3. CASE phase = "envs" /\ phase' = "fields" /\ UNCHANGED todo
    BY <2>3 DEF Lower, Stage, Size, Part, Reading
  <2>4. CASE matches # <<>> /\ matches' = Tail(matches) /\ UNCHANGED <<phase, todo>>
    <3>1. Len(matches) \in Nat \ {0} /\ Len(matches') = Len(matches) - 1
      BY <2>4, ShorterList DEF Types, Document
    <3> QED
      BY <2>1, <2>4, <3>1 DEF Lower, Stage, Size, Part
  <2>5. CASE Complete
    BY <2>2, <2>5 DEF Complete, AppendConfig, ReadError, Exit
  <2>6. CASE ReplaceEnv \/ Unmarshal \/ ReplaceField
    BY <2>2, <2>3, <2>4, <2>6 DEF ReplaceEnv, Unmarshal, ReplaceField, ReadError, Exit
  <2> QED
    BY <1>7, <2>5, <2>6
<1> QED
  BY <1>1, <1>2, <1>3, <1>5, <1>6, <1>7 DEF Next

\* Start-up cannot go on for ever, whatever the line, the folder and the
\* references in the job files are, circles of them included: every step lowers
\* its rank in an order without infinite descent.
THEOREM StartupIsFinite ==
  /\ IsWellFoundedOn(Below, [1..4 -> Nat])
  /\ Spec => [][Descends]_vars
<1>1. IsWellFoundedOn(Below, [1..4 -> Nat])
  <2> DEFINE R == {ss \in Nat \X Nat : ss[1] < ss[2]}
  <2>1. IsWellFoundedOn(R, Nat)
    BY NatLessThanWellFounded DEF OpToRel
  <2> HIDE DEF R
  <2>2. IsWellFoundedOn(LexProductOrdering(R, Nat, 4), [1..4 -> Nat])
    BY <2>1, WFLexProductOrdering
  <2> QED
    BY <2>2 DEF R, Below
<1>2. StartupInv /\ Types /\ StartupInv' /\ Types' /\ [Next]_vars => [Descends]_vars
  <2> SUFFICES ASSUME StartupInv, Types, StartupInv', Types', Next PROVE <<Rank', Rank>> \in Below
    BY DEF Descends
  <2>1. Lists /\ Lists'
    BY DEF StartupInv
  <2> QED
    BY <2>1, StepsLower, LowerIsBelow
<1> QED
  BY <1>1, <1>2, StartupInvHolds, TypesHold, PTL DEF Spec
=============================================================================
