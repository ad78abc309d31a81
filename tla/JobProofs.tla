------------------------------ MODULE JobProofs ------------------------------
(***************************************************************************)
(* Safety of the job for every set of tags, commits and job files and any  *)
(* number of faults, crashes, pushes and edits.  None of the properties is *)
(* inductive; JobInv adds what each stage of the pipeline has established. *)
(***************************************************************************)
EXTENDS Job, TagsProofs

\* The loop is entered only with a limit that is a version.
LimitIsVersion ==
  pc \in Loop => ConvertTagToNumeric(cfg.maxTag, cfg.prefix).status = "ok"

\* In the pipeline the release is the current one moved, or a greater one, and
\* is not above the limit.
Chosen ==
  pc \in Pipeline =>
    /\ strMaxTag = gitCurrentTag \/ Num(strMaxTag) > Num(gitCurrentTag)
    /\ Num(strMaxTag) <= Num(cfg.maxTag) \/ strMaxTag = Version("v", 1, 0, 0)

\* After the check-out the work tree is the commit of the release.
CheckedOut ==
  pc \in {"build", "sync", "apply", "wait", "verify", "record"} =>
    strMaxTag \in GitTags /\ head = local[strMaxTag] /\ head # None

Built ==
  (pc \in {"sync", "apply", "wait", "verify", "record"} /\ cfg.build) => registry[strMaxTag] = head

Synced ==
  (pc \in {"apply", "wait", "verify", "record"} /\ cfg.sync) => target = head

Attempts ==
  /\ retryApply <= 4
  /\ pc \notin {"wait", "verify", "done", "down"} => retryApply <= 3
  /\ pc = "wait" => checks <= 4

JobInv ==
  /\ TypeOK /\ LimitIsVersion /\ Chosen /\ CheckedOut /\ Built /\ Synced /\ Attempts

-----------------------------------------------------------------------------
\* The parts of a configuration have their types.
LEMMA ConfigType ==
  ASSUME NEW c \in Configs
  PROVE  /\ c.prefix \in Prefixes /\ c.startTag \in Tag /\ c.maxTag \in Tag
         /\ c # None
BY JobAssumption DEF Config

\* Events are counted in natural numbers.
LEMMA EventType ==
  ASSUME TypeOK, NEW e \in Events, Happens(e)
  PROVE  used' \in [Events -> Nat]
BY DEF TypeOK, Happens

LEMMA FaultType ==
  ASSUME TypeOK, Fault
  PROVE  used' \in [Events -> Nat]
BY EventType DEF Fault, Events

LEMMA WorksType ==
  ASSUME TypeOK, Works
  PROVE  used' \in [Events -> Nat]
BY DEF TypeOK, Works

\* The tags of a pulled clone.
LEMMA PulledType ==
  ASSUME TypeOK
  PROVE  Pulled \in [GitTags -> Commits \cup {None}]
BY DEF TypeOK, Pulled

\* Outside the loop only the types and the attempts have to be shown.
LEMMA OutsideLoop ==
  ASSUME TypeOK', pc' \notin Loop, retryApply' <= 4,
         pc' \notin {"done", "down"} => retryApply' <= 3
  PROVE  JobInv'
BY DEF JobInv, LimitIsVersion, Chosen, CheckedOut, Built, Synced, Attempts, Loop, Pipeline

\* What the surroundings do to the git remote, the job file, the deployment
\* and the pods does not matter to the invariant.
LEMMA SurroundingsKeepInv ==
  ASSUME JobInv, TypeOK', UNCHANGED <<jobVars, registry, target>>
  PROVE  JobInv'
BY DEF JobInv, LimitIsVersion, Chosen, CheckedOut, Built, Synced, Attempts, Num,
       jobVars, loopVars, gitVars

\* Truncating and writing the start-tag file.
LEMMA BeginRecordType ==
  ASSUME TypeOK, NEW tag \in Tag, BeginRecord(tag)
  PROVE  /\ gitCurrentTag' = tag /\ gitCurrentTag' \in Tag /\ file' \in Tag \cup {None}
         /\ used' \in [Events -> Nat] /\ pc' \in {"record", "tail"}
<1>1. file \in Tag \cup {None}
  BY DEF TypeOK
<1>2. CASE Works /\ file' = EmptyTag /\ Goto("record") /\ gitCurrentTag' = tag
  BY <1>2, WorksType, EmptyTagIsTag DEF Goto
<1>3. CASE Fault /\ file' \in {file, EmptyTag} /\ Goto("tail") /\ gitCurrentTag' = tag
  BY <1>1, <1>3, FaultType, EmptyTagIsTag DEF Goto
<1> QED
  BY <1>2, <1>3 DEF BeginRecord

-----------------------------------------------------------------------------
(***************************************************************************)
(* The start of the job.                                                   *)
(***************************************************************************)
LEMMA StartFromType ==
  ASSUME TypeOK, NEW tag \in Tag, StartFrom(tag)
  PROVE  gitCurrentTag' \in Tag /\ file' \in Tag \cup {None} /\ pc' \in {"done", "store"}
<1>1. cfg.prefix \in Prefixes
  BY ConfigType DEF TypeOK
<1>2. DowngradedTag(tag) \in Tag
  BY <1>1, VersionIsTag DEF DowngradedTag
<1>3. CASE EndJob /\ UNCHANGED <<gitCurrentTag, file>>
  BY <1>3 DEF EndJob, TypeOK
<1>4. CASE gitCurrentTag' = DowngradedTag(tag) /\ file' = EmptyTag /\ Goto("store")
  BY <1>2, <1>4, EmptyTagIsTag DEF Goto
<1> QED
  BY <1>3, <1>4 DEF StartFrom

LEMMA StoredTagType ==
  ASSUME TypeOK
  PROVE  StoredTag \in Tag
BY ConfigType DEF TypeOK, StoredTag

LEMMA ImageAnswerType ==
  ASSUME TypeOK, NEW answer \in ImageTagAnswers
  PROVE  answer.status \in {"ok", "err", "panic"} /\ answer.tag \in Tag
<1>1. clusterTag # None => clusterTag \in Tag
  BY JobAssumption DEF TypeOK
<1> QED
  BY <1>1, ImageTagType, EmptyTagIsTag DEF ImageTagAnswers, NoAnswer

LEMMA ImageAnswerEvents ==
  ASSUME TypeOK, NEW answer, GetImageTag(answer)
  PROVE  used' \in [Events -> Nat]
BY FaultType, WorksType DEF GetImageTag

\* What the start of the job leaves.
LEMMA BeginType ==
  ASSUME TypeOK, Begin
  PROVE  /\ gitCurrentTag' \in Tag /\ file' \in Tag \cup {None}
         /\ pc' \in {"done", "store"} /\ used' \in [Events -> Nat]
<1>1. CASE EndJob /\ Works /\ UNCHANGED <<gitCurrentTag, file>>
  BY <1>1, WorksType DEF EndJob, TypeOK
<1>2. CASE Fault /\ EndJob /\ UNCHANGED <<gitCurrentTag, file>>
  BY <1>2, FaultType DEF EndJob, TypeOK
<1>3. CASE Works /\ StartFrom(StoredTag)
  BY <1>3, WorksType, StoredTagType, StartFromType
<1>4. CASE Fault /\ StartFrom(cfg.startTag)
  BY <1>4, FaultType, StartFromType, ConfigType DEF TypeOK
<1>5. ASSUME NEW answer \in ImageTagAnswers, GetImageTag(answer),
             CASE answer.status = "panic" -> EndJob /\ UNCHANGED <<gitCurrentTag, file>>
               [] answer.status = "err" -> StartFrom(StoredTag)
               [] answer.status = "ok" -> StartFrom(answer.tag)
      PROVE  /\ gitCurrentTag' \in Tag /\ file' \in Tag \cup {None}
             /\ pc' \in {"done", "store"} /\ used' \in [Events -> Nat]
  <2>1. used' \in [Events -> Nat] /\ answer.tag \in Tag
    BY <1>5, ImageAnswerEvents, ImageAnswerType
  <2>2. \/ answer.status = "panic" /\ EndJob /\ UNCHANGED <<gitCurrentTag, file>>
        \/ StartFrom(StoredTag)
        \/ StartFrom(answer.tag)
    BY <1>5, ImageAnswerType
  <2>3. CASE EndJob /\ UNCHANGED <<gitCurrentTag, file>>
    BY <2>1, <2>3 DEF EndJob, TypeOK
  <2>4. CASE StartFrom(StoredTag)
    BY <2>1, <2>4, StoredTagType, StartFromType
  <2>5. CASE StartFrom(answer.tag)
    BY <2>1, <2>5, StartFromType
  <2> QED
    BY <2>2, <2>3, <2>4, <2>5
<1> QED
  BY <1>1, <1>2, <1>3, <1>4, <1>5 DEF Begin

LEMMA BeginKeepsInv ==
  ASSUME JobInv, Begin
  PROVE  JobInv'
<1> USE DEF JobInv
<1>1. /\ gitCurrentTag' \in Tag /\ file' \in Tag \cup {None}
      /\ pc' \in {"done", "store"} /\ used' \in [Events -> Nat]
  BY BeginType
<1>2. /\ UNCHANGED <<cfg, nMaxTag, strMaxTag, retryApply, checks, applied, gitVars, jobFile, remote, worldVars>>
      /\ originalSHA' \in {jobFile, originalSHA}
  BY DEF Begin, CalculateSHA256
<1>3. TypeOK'
  BY <1>1, <1>2 DEF TypeOK, Stages, gitVars, worldVars
<1>4. retryApply' <= 3
  BY <1>2 DEF Begin, Attempts
<1> QED
  BY <1>1, <1>3, <1>4, OutsideLoop DEF Loop, Pipeline, TypeOK

LEMMA StoreKeepsInv ==
  ASSUME JobInv, Store
  PROVE  JobInv'
<1> USE DEF JobInv
<1>1. /\ pc' \in {"open", "done"} /\ file' \in Tag \cup {None} /\ used' \in [Events -> Nat]
      /\ UNCHANGED <<cfg, originalSHA, loopVars, gitVars, jobFile, remote, worldVars>>
  BY FaultType, WorksType DEF Store, Goto, EndJob, TypeOK
<1>2. TypeOK'
  BY <1>1 DEF TypeOK, Stages, loopVars, gitVars, worldVars
<1>3. retryApply' <= 3
  BY <1>1 DEF Store, Attempts, loopVars
<1> QED
  BY <1>1, <1>2, <1>3, OutsideLoop DEF Loop, Pipeline, TypeOK

\* The test before the loop makes sure of the limit.
LEMMA EnterLoopKeepsInv ==
  ASSUME JobInv, TypeOK', EnterLoop, cfg' = cfg, retryApply' = retryApply, retryApply <= 3
  PROVE  JobInv'
<1>1. CASE StartTagIsBelowMax /\ Goto("poll")
  <2>1. ConvertTagToNumeric(cfg.maxTag, cfg.prefix).status = "ok"
    BY <1>1, ConfigType, CompareLess DEF JobInv, TypeOK, StartTagIsBelowMax
  <2> QED
    BY <1>1, <2>1 DEF JobInv, Goto, LimitIsVersion, Chosen, CheckedOut, Built, Synced, Attempts,
                      Pipeline, TypeOK
<1>2. CASE EndJob
  BY <1>2, OutsideLoop DEF EndJob, Loop, Pipeline, JobInv, TypeOK
<1> QED
  BY <1>1, <1>2 DEF EnterLoop

LEMMA OpenRepoKeepsInv ==
  ASSUME JobInv, OpenRepo
  PROVE  JobInv'
<1>1. TypeOK /\ retryApply \in Nat /\ retryApply <= 3
  BY DEF JobInv, TypeOK, Attempts, OpenRepo
<1>2. UNCHANGED <<cfg, originalSHA, loopVars, file, local, jobFile, remote, worldVars>>
  BY DEF OpenRepo
<1>3. used' \in [Events -> Nat]
  BY <1>1, FaultType, WorksType DEF OpenRepo
<1>4. pc' \in Stages /\ repo' \in {"none", "partial", "full"} /\ head' \in Commits \cup {None}
  BY <1>1 DEF OpenRepo, TypeOK, Stages, EndJob, Goto, EnterLoop
<1>5. TypeOK'
  BY <1>1, <1>2, <1>3, <1>4 DEF TypeOK, loopVars, worldVars
<1>6. pc' \in {"clone", "done"} \/ EnterLoop
  BY DEF OpenRepo, EndJob, Goto
<1>7. cfg' = cfg /\ retryApply' = retryApply
  BY <1>2 DEF loopVars
<1> QED
  BY <1>1, <1>5, <1>6, <1>7, OutsideLoop, EnterLoopKeepsInv DEF Loop, Pipeline

LEMMA CloneRepoKeepsInv ==
  ASSUME JobInv, CloneRepo
  PROVE  JobInv'
<1>1. TypeOK /\ retryApply \in Nat /\ retryApply <= 3
  BY DEF JobInv, TypeOK, Attempts, CloneRepo
<1>2. UNCHANGED <<cfg, originalSHA, loopVars, file, jobFile, remote, worldVars>>
  BY DEF CloneRepo
<1>3. used' \in [Events -> Nat]
  BY <1>1, FaultType, WorksType DEF CloneRepo
<1>4. /\ pc' \in Stages /\ repo' \in {"none", "partial", "full"} /\ head' \in Commits \cup {None}
      /\ local' \in [GitTags -> Commits \cup {None}]
  BY <1>1 DEF CloneRepo, TypeOK, Stages, EndJob, Goto, EnterLoop
<1>5. TypeOK'
  BY <1>1, <1>2, <1>3, <1>4 DEF TypeOK, loopVars, worldVars
<1>6. pc' = "done" \/ EnterLoop
  BY DEF CloneRepo, EndJob
<1>7. cfg' = cfg /\ retryApply' = retryApply
  BY <1>2 DEF loopVars
<1> QED
  BY <1>1, <1>5, <1>6, <1>7, OutsideLoop, EnterLoopKeepsInv DEF Loop, Pipeline

-----------------------------------------------------------------------------
(***************************************************************************)
(* The loop.                                                               *)
(***************************************************************************)

\* A limit that is a version is the one GetMaxTag compares with.
LEMMA LimitInLoop ==
  ASSUME JobInv, pc \in Loop
  PROVE  ScanLimit(cfg.maxTag, cfg.prefix).n = Num(cfg.maxTag)
<1>1. ConvertTagToNumeric(cfg.maxTag, cfg.prefix).status = "ok"
  BY DEF JobInv, LimitIsVersion
<1>2. cfg.maxTag # EmptyTag
  BY <1>1, EmptyTagIsNoVersion
<1> QED
  BY <1>2 DEF ScanLimit, Num

LEMMA PollKeepsInv ==
  ASSUME JobInv, Poll
  PROVE  JobInv'
<1>1. TypeOK /\ retryApply \in Nat /\ retryApply <= 3 /\ pc \in Loop
  BY DEF JobInv, TypeOK, Attempts, Poll, Loop
<1>2. UNCHANGED <<cfg, originalSHA, gitCurrentTag, checks, applied, file, repo, jobFile, remote, worldVars>>
  BY DEF Poll
<1>3. Pulled \in [GitTags -> Commits \cup {None}] /\ TagsOf(Pulled, cfg.prefix) \subseteq Tag
  <2>1. Pulled \in [GitTags -> Commits \cup {None}]
    BY <1>1, PulledType
  <2>2. TagsOf(Pulled, cfg.prefix) \subseteq GitTags
    BY DEF TagsOf
  <2> QED
    BY <2>1, <2>2, JobAssumption
<1>4. cfg.maxTag \in Tag
  BY <1>1, ConfigType DEF TypeOK
<1>5. CASE /\ Fault /\ EndJob
           /\ head' \in {head, None} /\ local' \in {local, Pulled}
           /\ UNCHANGED <<nMaxTag, strMaxTag, retryApply>>
  <2>1. TypeOK'
    BY <1>1, <1>2, <1>3, <1>5, FaultType DEF TypeOK, Stages, EndJob, worldVars
  <2> QED
    BY <1>1, <1>5, <2>1, OutsideLoop DEF EndJob, Loop, Pipeline
<1>6. ASSUME Works, head' = None, local' = Pulled,
             NEW found \in MaxTagAnswers(TagsOf(Pulled, cfg.prefix), cfg.maxTag, cfg.prefix),
             IF found.status # "ok"
               THEN EndJob /\ UNCHANGED <<nMaxTag, strMaxTag, retryApply>>
               ELSE /\ nMaxTag' = found.n /\ strMaxTag' = found.tag
                    /\ retryApply' = RetriesFor(found)
                    /\ IF DoUpgrade(found) THEN Goto("checkout") ELSE Goto("tail")
      PROVE  JobInv'
  <2>1. /\ found.n \in Int /\ found.tag \in Tag
        /\ found.status = "ok" =>
             /\ found.n = Num(found.tag)
             /\ \/ found.tag = Version("v", 1, 0, 0)
                \/ found.n <= ScanLimit(cfg.maxTag, cfg.prefix).n
    BY <1>3, <1>4, MaxTagAnswersType DEF Num
  <2>2. ScanLimit(cfg.maxTag, cfg.prefix).n = Num(cfg.maxTag)
    BY <1>1, LimitInLoop
  <2>3. CASE found.status # "ok"
    <3>1. pc' = "done" /\ UNCHANGED <<nMaxTag, strMaxTag, retryApply>>
      BY <1>6, <2>3 DEF EndJob
    <3>2. TypeOK'
      BY <1>1, <1>2, <1>3, <1>6, <3>1, WorksType DEF TypeOK, Stages, worldVars
    <3> QED
      BY <1>1, <3>1, <3>2, OutsideLoop DEF Loop, Pipeline
  <2>4. CASE found.status = "ok"
    <3>1. /\ nMaxTag' = found.n /\ strMaxTag' = found.tag /\ retryApply' = RetriesFor(found)
          /\ IF DoUpgrade(found) THEN pc' = "checkout" ELSE pc' = "tail"
      BY <1>6, <2>4 DEF Goto
    <3>2. retryApply' \in Nat /\ retryApply' <= 3
      BY <1>1, <3>1 DEF RetriesFor
    <3>3. TypeOK'
      BY <1>1, <1>2, <1>3, <1>6, <2>1, <3>1, <3>2, WorksType DEF TypeOK, Stages, worldVars
    <3>4. LimitIsVersion'
      BY <1>1, <1>2 DEF JobInv, LimitIsVersion
    <3>5. DoUpgrade(found) => found.tag = gitCurrentTag \/ Num(found.tag) > Num(gitCurrentTag)
      BY <2>1, <2>4 DEF DoUpgrade, Num
    <3>6. Chosen'
      BY <1>2, <2>1, <2>2, <2>4, <3>1, <3>5 DEF Chosen, Pipeline, Num
    <3> QED
      BY <3>1, <3>2, <3>3, <3>4, <3>6 DEF JobInv, CheckedOut, Built, Synced, Attempts
  <2> QED
    BY <2>3, <2>4
<1> QED
  BY <1>5, <1>6 DEF Poll

\* The chosen release stays chosen while its tag and the limit stay.
LEMMA ChosenStays ==
  ASSUME JobInv, pc \in Pipeline, UNCHANGED <<cfg, strMaxTag, gitCurrentTag>>
  PROVE  Chosen' /\ LimitIsVersion'
BY DEF JobInv, Chosen, LimitIsVersion, Num, Loop

LEMMA CheckoutKeepsInv ==
  ASSUME JobInv, Checkout
  PROVE  JobInv'
<1>1. TypeOK /\ retryApply \in Nat /\ retryApply <= 3 /\ pc \in Pipeline
  BY DEF JobInv, TypeOK, Attempts, Checkout, Pipeline
<1>2. UNCHANGED <<cfg, originalSHA, loopVars, file, local, repo, jobFile, remote, worldVars>>
  BY DEF Checkout
<1>3. Chosen' /\ LimitIsVersion'
  BY <1>1, <1>2, ChosenStays DEF loopVars
<1>4. CASE EndJob
  <2>1. TypeOK'
    BY <1>1, <1>2, <1>4, FaultType, WorksType DEF Checkout, TypeOK, Stages, EndJob, loopVars, worldVars
  <2> QED
    BY <1>1, <1>2, <1>4, <2>1, OutsideLoop DEF EndJob, Loop, Pipeline, loopVars
<1>5. CASE /\ strMaxTag \in GitTags /\ local[strMaxTag] # None
           /\ Works /\ head' = local[strMaxTag] /\ Goto(AfterCheckout)
  <2>1. /\ pc' \in {"build", "sync", "apply", "tail"}
        /\ cfg.build => pc' = "build"
        /\ cfg.sync => pc' \in {"build", "sync"}
    BY <1>5 DEF Goto, AfterCheckout, AfterBuild, AfterSync
  <2>2. TypeOK'
    BY <1>1, <1>2, <1>5, <2>1, WorksType DEF TypeOK, Stages, loopVars, worldVars
  <2>3. CheckedOut' /\ Built' /\ Synced' /\ Attempts'
    BY <1>1, <1>2, <1>5, <2>1 DEF CheckedOut, Built, Synced, Attempts, loopVars, worldVars
  <2> QED
    BY <1>3, <2>2, <2>3 DEF JobInv
<1> QED
  BY <1>4, <1>5 DEF Checkout

\* Recording the release that was delivered.
LEMMA RecordedRelease ==
  ASSUME JobInv, TypeOK', pc \in Pipeline, pc' \in {"record", "tail"},
         cfg' = cfg, strMaxTag' = strMaxTag, UNCHANGED gitVars, retryApply' <= 3,
         strMaxTag \in GitTags, head = local[strMaxTag], head # None,
         cfg.build => registry'[strMaxTag] = head, cfg.sync => target' = head
  PROVE  JobInv'
<1>1. LimitIsVersion'
  BY DEF JobInv, LimitIsVersion, Loop
<1>2. Chosen' /\ CheckedOut'
  BY DEF Chosen, CheckedOut, Pipeline, gitVars
<1>3. Built' /\ Synced'
  BY DEF Built, Synced, gitVars
<1>4. Attempts'
  BY DEF Attempts, TypeOK
<1> QED
  BY <1>1, <1>2, <1>3, <1>4 DEF JobInv

LEMMA BuildKeepsInv ==
  ASSUME JobInv, Build
  PROVE  JobInv'
<1>1. /\ TypeOK /\ retryApply \in Nat /\ retryApply <= 3 /\ pc \in Pipeline
      /\ strMaxTag \in GitTags /\ head = local[strMaxTag] /\ head # None
  BY DEF JobInv, TypeOK, Attempts, Build, Pipeline, CheckedOut
<1>2. UNCHANGED <<cfg, originalSHA, nMaxTag, strMaxTag, retryApply, checks, applied, gitVars, jobFile,
                  remote, target, clusterTag, serving>>
  BY DEF Build
<1>3. strMaxTag \in Tag /\ Pushed \in [GitTags -> Commits \cup {None}] /\ Pushed[strMaxTag] = head
  BY <1>1 DEF TypeOK, Pushed
<1>4. CASE Fault /\ EndJob /\ registry' \in {registry, Pushed} /\ UNCHANGED <<gitCurrentTag, file>>
  <2>1. TypeOK'
    BY <1>1, <1>2, <1>3, <1>4, FaultType DEF TypeOK, Stages, EndJob, gitVars
  <2> QED
    BY <1>1, <1>2, <1>4, <2>1, OutsideLoop DEF EndJob, Loop, Pipeline
<1>5. CASE /\ registry' = Pushed /\ (cfg.sync \/ cfg.deploy)
           /\ Works /\ Goto(AfterBuild) /\ UNCHANGED <<gitCurrentTag, file>>
  <2>1. pc' \in {"sync", "apply"} /\ (cfg.sync => pc' = "sync")
    BY <1>5 DEF Goto, AfterBuild, AfterSync
  <2>2. TypeOK'
    BY <1>1, <1>2, <1>3, <1>5, <2>1, WorksType DEF TypeOK, Stages, gitVars
  <2>3. Chosen' /\ LimitIsVersion'
    BY <1>1, <1>2, <1>5, ChosenStays
  <2>4. CheckedOut' /\ Built' /\ Synced' /\ Attempts'
    BY <1>1, <1>2, <1>3, <1>5, <2>1 DEF CheckedOut, Built, Synced, Attempts, gitVars
  <2> QED
    BY <2>2, <2>3, <2>4 DEF JobInv
<1>6. CASE registry' = Pushed /\ ~(cfg.sync \/ cfg.deploy) /\ BeginRecord(strMaxTag)
  <2>1. /\ gitCurrentTag' \in Tag /\ file' \in Tag \cup {None}
        /\ used' \in [Events -> Nat] /\ pc' \in {"record", "tail"}
    BY <1>1, <1>3, <1>6, BeginRecordType
  <2>2. TypeOK'
    BY <1>1, <1>2, <1>3, <1>6, <2>1 DEF TypeOK, Stages, gitVars
  <2> QED
    BY <1>1, <1>2, <1>3, <1>6, <2>1, <2>2, RecordedRelease
<1> QED
  BY <1>4, <1>5, <1>6 DEF Build

LEMMA SyncKeepsInv ==
  ASSUME JobInv, Sync
  PROVE  JobInv'
<1>1. TypeOK /\ retryApply \in Nat /\ retryApply <= 3 /\ pc \in Pipeline
  BY DEF JobInv, TypeOK, Attempts, Sync, Pipeline
<1>2. UNCHANGED <<cfg, originalSHA, loopVars, file, gitVars, jobFile, remote, registry, clusterTag, serving>>
  BY DEF Sync
<1>3. CASE Works /\ target' = head /\ Goto(AfterSync)
  <2>1. pc' \in {"apply", "tail"}
    BY <1>3 DEF Goto, AfterSync
  <2>2. TypeOK'
    BY <1>1, <1>2, <1>3, <2>1, WorksType DEF TypeOK, Stages, loopVars, gitVars
  <2>3. Chosen' /\ LimitIsVersion'
    BY <1>1, <1>2, ChosenStays DEF loopVars
  <2>4. CheckedOut' /\ Built' /\ Synced' /\ Attempts'
    BY <1>1, <1>2, <1>3, <2>1 DEF JobInv, Sync, CheckedOut, Built, Synced, Attempts, loopVars, gitVars
  <2> QED
    BY <2>2, <2>3, <2>4 DEF JobInv
<1>4. CASE Fault /\ target' \in RsyncLeaves /\ EndJob
  <2>1. TypeOK'
    BY <1>1, <1>2, <1>4, FaultType DEF TypeOK, RsyncLeaves, Stages, EndJob, loopVars, gitVars
  <2> QED
    BY <1>1, <1>2, <1>4, <2>1, OutsideLoop DEF EndJob, Loop, Pipeline, loopVars
<1> QED
  BY <1>3, <1>4 DEF Sync

LEMMA ApplyKeepsInv ==
  ASSUME JobInv, Apply
  PROVE  JobInv'
<1>1. /\ TypeOK /\ retryApply \in Nat /\ retryApply <= 3 /\ pc \in Pipeline
      /\ strMaxTag \in GitTags
  BY DEF JobInv, TypeOK, Attempts, Apply, Pipeline, CheckedOut
<1>2. UNCHANGED <<cfg, originalSHA, gitCurrentTag, nMaxTag, strMaxTag, file, gitVars, jobFile, remote,
                  registry, target, serving>>
  BY DEF Apply
<1>3. applied' \in [GitTags -> Nat]
  BY <1>1 DEF Apply, TypeOK
<1>4. CASE Works /\ clusterTag' = strMaxTag /\ retryApply' = retryApply + 1 /\ checks' = 0 /\ Goto("wait")
  <2>1. TypeOK'
    BY <1>1, <1>2, <1>3, <1>4, WorksType DEF TypeOK, Stages, Goto, gitVars
  <2>2. Chosen' /\ LimitIsVersion'
    BY <1>1, <1>2, ChosenStays
  <2>3. CheckedOut' /\ Built' /\ Synced' /\ Attempts'
    BY <1>1, <1>2, <1>4 DEF JobInv, Apply, Goto, CheckedOut, Built, Synced, Attempts, gitVars
  <2> QED
    BY <2>1, <2>2, <2>3 DEF JobInv
<1>5. CASE Fault /\ clusterTag' \in {clusterTag, strMaxTag} /\ UNCHANGED <<retryApply, checks>> /\ EndJob
  <2>1. TypeOK'
    BY <1>1, <1>2, <1>3, <1>5, FaultType DEF TypeOK, Stages, EndJob, gitVars
  <2> QED
    BY <1>1, <1>5, <2>1, OutsideLoop DEF EndJob, Loop, Pipeline
<1> QED
  BY <1>4, <1>5 DEF Apply

\* After an attempt the round ends, or the job does.
LEMMA AfterAttemptKeepsInv ==
  ASSUME JobInv, TypeOK', pc \in Pipeline, AfterAttempt, cfg' = cfg, retryApply' = retryApply
  PROVE  JobInv'
<1>1. retryApply \in Nat /\ retryApply <= 4
  BY DEF JobInv, TypeOK, Attempts
<1>2. CASE retryApply > 3 /\ EndJob
  BY <1>1, <1>2, OutsideLoop DEF EndJob, Loop, Pipeline
<1>3. CASE ~(retryApply > 3) /\ Goto("tail")
  <2>1. LimitIsVersion'
    BY DEF JobInv, LimitIsVersion, Loop
  <2> QED
    BY <1>1, <1>3, <2>1 DEF Goto, JobInv, Chosen, CheckedOut, Built, Synced, Attempts, Pipeline
<1> QED
  BY <1>2, <1>3 DEF AfterAttempt

LEMMA CheckReadyKeepsInv ==
  ASSUME JobInv, CheckReady
  PROVE  JobInv'
<1>1. TypeOK /\ retryApply \in Nat /\ retryApply <= 4 /\ pc \in Pipeline /\ checks \in 0..5
  BY DEF JobInv, TypeOK, Attempts, CheckReady, Pipeline
<1>2. UNCHANGED <<cfg, originalSHA, gitCurrentTag, nMaxTag, strMaxTag, retryApply, applied, file, gitVars,
                  jobFile, remote, worldVars>>
  BY DEF CheckReady
<1>3. used' \in [Events -> Nat]
  BY <1>1, FaultType, WorksType DEF CheckReady
<1>4. pc' \in {"wait", "verify", "tail", "done"} /\ checks' = checks + 1
  BY DEF CheckReady, AfterAttempt, Goto, EndJob
<1>5. checks <= 4
  BY DEF JobInv, Attempts, CheckReady
<1>6. TypeOK'
  BY <1>1, <1>2, <1>3, <1>4, <1>5 DEF TypeOK, Stages, gitVars, worldVars
<1>7. CASE Goto("verify") \/ (checks < 4 /\ Goto("wait"))
  <2>1. Chosen' /\ LimitIsVersion'
    BY <1>1, <1>2, ChosenStays
  <2>2. CheckedOut' /\ Built' /\ Synced' /\ Attempts'
    BY <1>1, <1>2, <1>4, <1>5, <1>7
    DEF JobInv, CheckReady, Goto, CheckedOut, Built, Synced, Attempts, gitVars, worldVars
  <2> QED
    BY <1>6, <2>1, <2>2 DEF JobInv
<1>8. CASE AfterAttempt
  BY <1>1, <1>2, <1>6, <1>8, AfterAttemptKeepsInv
<1> QED
  BY <1>7, <1>8 DEF CheckReady

LEMMA VerifyKeepsInv ==
  ASSUME JobInv, Verify
  PROVE  JobInv'
<1>1. /\ TypeOK /\ retryApply \in Nat /\ retryApply <= 4 /\ pc \in Pipeline
      /\ strMaxTag \in GitTags /\ head = local[strMaxTag] /\ head # None /\ strMaxTag \in Tag
      /\ (cfg.build => registry[strMaxTag] = head) /\ (cfg.sync => target = head)
  BY DEF JobInv, TypeOK, Attempts, Verify, Pipeline, CheckedOut, Built, Synced
<1>2. /\ UNCHANGED <<cfg, originalSHA, nMaxTag, strMaxTag, checks, gitVars, jobFile, remote, worldVars>>
      /\ applied' \in [GitTags -> Nat]
  BY <1>1 DEF Verify, TypeOK
<1>3. CASE BeginRecord(strMaxTag) /\ retryApply' = 0
  <2>1. /\ gitCurrentTag' \in Tag /\ file' \in Tag \cup {None}
        /\ used' \in [Events -> Nat] /\ pc' \in {"record", "tail"}
    BY <1>1, <1>3, BeginRecordType
  <2>2. TypeOK'
    BY <1>1, <1>2, <1>3, <2>1 DEF TypeOK, Stages, gitVars, worldVars
  <2> QED
    BY <1>1, <1>2, <1>3, <2>1, <2>2, RecordedRelease DEF worldVars
<1>4. ASSUME NEW answer, GetImageTag(answer), UNCHANGED <<gitCurrentTag, file, retryApply>>,
             IF answer.status = "ok" THEN AfterAttempt ELSE EndJob
      PROVE  JobInv'
  <2>1. used' \in [Events -> Nat]
    BY <1>1, <1>4, ImageAnswerEvents
  <2>2. pc' \in {"tail", "done"}
    BY <1>4 DEF AfterAttempt, Goto, EndJob
  <2>3. TypeOK'
    BY <1>1, <1>2, <1>4, <2>1, <2>2 DEF TypeOK, Stages, gitVars, worldVars
  <2>4. CASE AfterAttempt
    BY <1>1, <1>2, <1>4, <2>3, <2>4, AfterAttemptKeepsInv
  <2>5. CASE EndJob
    BY <1>1, <1>4, <2>3, <2>5, OutsideLoop DEF EndJob, Loop, Pipeline
  <2> QED
    BY <1>4, <2>4, <2>5
<1> QED
  BY <1>3, <1>4 DEF Verify

LEMMA RecordKeepsInv ==
  ASSUME JobInv, Record
  PROVE  JobInv'
<1>1. /\ TypeOK /\ pc = "record" /\ pc' = "tail" /\ file' \in Tag \cup {None}
      /\ used' \in [Events -> Nat]
      /\ UNCHANGED <<cfg, originalSHA, loopVars, gitVars, jobFile, remote, worldVars>>
  BY FaultType, WorksType DEF JobInv, Record, Goto, TypeOK
<1>2. TypeOK'
  BY <1>1 DEF TypeOK, Stages, loopVars, gitVars, worldVars
<1> QED
  BY <1>1, <1>2 DEF JobInv, LimitIsVersion, Chosen, CheckedOut, Built, Synced, Attempts, Loop, Pipeline,
                    loopVars

LEMMA EndRoundKeepsInv ==
  ASSUME JobInv, EndRound
  PROVE  JobInv'
<1>1. /\ TypeOK /\ pc = "tail" /\ pc' \in {"done", "poll", "reload"}
      /\ used' \in [Events -> Nat]
      /\ UNCHANGED <<cfg, originalSHA, loopVars, file, gitVars, jobFile, remote, worldVars>>
  BY FaultType, WorksType DEF JobInv, EndRound, Goto, EndJob
<1>2. TypeOK'
  BY <1>1 DEF TypeOK, Stages, loopVars, gitVars, worldVars
<1> QED
  BY <1>1, <1>2 DEF JobInv, LimitIsVersion, Chosen, CheckedOut, Built, Synced, Attempts, Loop, Pipeline,
                    loopVars

LEMMA FreshLoopType ==
  ASSUME FreshLoop
  PROVE  /\ gitCurrentTag' \in Tag /\ strMaxTag' \in Tag /\ nMaxTag' \in Int
         /\ retryApply' = 0 /\ checks' = 0 /\ applied' \in [GitTags -> Nat]
BY EmptyTagIsTag DEF FreshLoop

LEMMA ReloadKeepsInv ==
  ASSUME JobInv, Reload
  PROVE  JobInv'
<1>1. /\ TypeOK /\ retryApply \in Nat /\ retryApply <= 3
      /\ UNCHANGED <<originalSHA, file, gitVars, jobFile, remote, worldVars>>
  BY DEF JobInv, TypeOK, Attempts, Reload
<1>2. used' \in [Events -> Nat]
  BY <1>1, FaultType, WorksType DEF Reload
<1>3. CASE pc' \in {"done", "down", "reload"} /\ cfg' \in Configs /\ UNCHANGED loopVars
  <2>1. TypeOK'
    BY <1>1, <1>2, <1>3 DEF TypeOK, Stages, loopVars, gitVars, worldVars
  <2> QED
    BY <1>1, <1>3, <2>1, OutsideLoop DEF Loop, Pipeline, loopVars
<1>4. CASE pc' = "start" /\ cfg' \in Configs /\ FreshLoop
  <2>1. TypeOK'
    BY <1>1, <1>2, <1>4, FreshLoopType DEF TypeOK, Stages, gitVars, worldVars
  <2> QED
    BY <1>4, <2>1, FreshLoopType, OutsideLoop DEF Loop, Pipeline
<1> QED
  BY <1>1, <1>3, <1>4 DEF Reload, getOneConfig, TypeOK, EndJob, Goto

-----------------------------------------------------------------------------
(***************************************************************************)
(* Crashes, restarts and the surroundings.                                 *)
(***************************************************************************)
LEMMA CrashKeepsInv ==
  ASSUME JobInv, Crash
  PROVE  JobInv'
<1>1. /\ TypeOK /\ pc' = "down" /\ used' \in [Events -> Nat]
      /\ UNCHANGED <<cfg, originalSHA, loopVars, file, gitVars, jobFile, remote, worldVars>>
  BY EventType DEF JobInv, Crash, Goto, Events
<1>2. TypeOK'
  BY <1>1 DEF TypeOK, Stages, loopVars, gitVars, worldVars
<1>3. retryApply' <= 4
  BY <1>1 DEF JobInv, Attempts, loopVars
<1> QED
  BY <1>1, <1>2, <1>3, OutsideLoop DEF Loop, Pipeline

LEMMA RestartKeepsInv ==
  ASSUME JobInv, Restart
  PROVE  JobInv'
<1>1. /\ TypeOK /\ pc' = "start" /\ cfg' \in Configs /\ originalSHA' = None /\ FreshLoop
      /\ UNCHANGED <<jobFile, remote, worldVars, used>>
  BY DEF JobInv, TypeOK, Restart, getOneConfig, Goto
<1>2. /\ file' \in Tag \cup {None} /\ head' \in Commits \cup {None}
      /\ repo' \in {"none", "partial", "full"} /\ local' \in [GitTags -> Commits \cup {None}]
  BY <1>1 DEF Restart, TypeOK, gitVars
<1>3. TypeOK'
  BY <1>1, <1>2, FreshLoopType DEF TypeOK, Stages, worldVars
<1> QED
  BY <1>1, <1>3, FreshLoopType, OutsideLoop DEF Loop, Pipeline

LEMMA SurroundingsStep ==
  ASSUME JobInv, Publish \/ EditJobFile \/ Drift \/ Rollout
  PROVE  JobInv'
<1> USE DEF jobVars, loopVars, gitVars, worldVars
<1>1. TypeOK
  BY DEF JobInv
<1>2. CASE Publish
  <2>1. TypeOK'
    BY <1>1, <1>2, EventType DEF Publish, TypeOK, Events
  <2> QED
    BY <1>2, <2>1, SurroundingsKeepInv DEF Publish
<1>3. CASE EditJobFile
  <2>1. TypeOK'
    BY <1>1, <1>3, EventType DEF EditJobFile, TypeOK, Events
  <2> QED
    BY <1>3, <2>1, SurroundingsKeepInv DEF EditJobFile
<1>4. CASE Drift
  <2>1. TypeOK'
    BY <1>1, <1>4, EventType DEF Drift, TypeOK, Events
  <2> QED
    BY <1>4, <2>1, SurroundingsKeepInv DEF Drift
<1>5. CASE Rollout
  <2>1. TypeOK'
    BY <1>1, <1>5 DEF Rollout, TypeOK
  <2> QED
    BY <1>5, <2>1, SurroundingsKeepInv DEF Rollout
<1> QED
  BY <1>2, <1>3, <1>4, <1>5

-----------------------------------------------------------------------------
\* The invariant holds at the start and is kept by every step.
LEMMA JobInvHolds == Spec => []JobInv
<1>1. Init => JobInv
  <2> SUFFICES ASSUME Init PROVE JobInv
    OBVIOUS
  <2>1. TypeOK
    BY JobAssumption, EmptyTagIsTag DEF Init, TypeOK, Stages
  <2> QED
    BY <2>1 DEF Init, JobInv, LimitIsVersion, Chosen, CheckedOut, Built, Synced, Attempts, Loop, Pipeline
<1>2. JobInv /\ [Next]_vars => JobInv'
  <2> SUFFICES ASSUME JobInv, [Next]_vars PROVE JobInv'
    OBVIOUS
  <2>1. CASE JobStep
    BY <2>1, BeginKeepsInv, StoreKeepsInv, OpenRepoKeepsInv, CloneRepoKeepsInv, PollKeepsInv,
       CheckoutKeepsInv, BuildKeepsInv, SyncKeepsInv, ApplyKeepsInv, CheckReadyKeepsInv,
       VerifyKeepsInv, RecordKeepsInv, EndRoundKeepsInv, ReloadKeepsInv
    DEF JobStep
  <2>2. CASE Crash \/ Restart
    BY <2>2, CrashKeepsInv, RestartKeepsInv
  <2>3. CASE Publish \/ EditJobFile \/ Drift \/ Rollout
    BY <2>3, SurroundingsStep
  <2>4. CASE UNCHANGED vars
    <3>1. TypeOK'
      BY <2>4 DEF vars, JobInv, TypeOK, loopVars, gitVars, worldVars
    <3> QED
      BY <2>4, <3>1, SurroundingsKeepInv DEF vars, jobVars, worldVars
  <2> QED
    BY <2>1, <2>2, <2>3, <2>4 DEF Next
<1> QED
  BY <1>1, <1>2, PTL DEF Spec

\* The state of the job and of what surrounds it keeps its types.
THEOREM JobTypeCorrect == Spec => []TypeOK
<1>1. JobInv => TypeOK
  BY DEF JobInv
<1> QED
  BY <1>1, JobInvHolds, PTL

\* Whatever fails, crashes, is pushed or edited, a release that is applied or
\* recorded was built and synchronised from the commit of its tag.
THEOREM ReleaseCorrect == Spec => []ReleaseIsWhatTagSays
<1>1. JobInv => ReleaseIsWhatTagSays
  BY DEF JobInv, CheckedOut, Built, Synced, ReleaseIsWhatTagSays
<1> QED
  BY <1>1, JobInvHolds, PTL

\* No release above the limit of the configuration in force is processed, but
\* for the default of GetMaxTag.
THEOREM LimitRespected == Spec => []UnderMaxTag
<1>1. JobInv => UnderMaxTag
  BY DEF JobInv, Chosen, UnderMaxTag
<1> QED
  BY <1>1, JobInvHolds, PTL

\* Within the loop the tag taken for applied only grows.
THEOREM ForwardCorrect == Spec => OnlyForward
<1> DEFINE Forward == (pc \in Loop /\ pc' \in Loop /\ gitCurrentTag' # gitCurrentTag) =>
                        Num(gitCurrentTag') > Num(gitCurrentTag)
<1>1. JobInv /\ [Next]_vars => [Forward]_vars
  <2> SUFFICES ASSUME JobInv, Next, pc \in Loop, pc' \in Loop, gitCurrentTag' # gitCurrentTag
               PROVE  Num(gitCurrentTag') > Num(gitCurrentTag)
    OBVIOUS
  <2>1. \/ pc = "build" /\ gitCurrentTag' = strMaxTag
        \/ pc = "verify" /\ gitCurrentTag' = strMaxTag
    BY DEF Next, JobStep, Begin, Store, OpenRepo, CloneRepo, Poll, Checkout, Build, Sync, Apply, CheckReady,
           Verify, Record, EndRound, Reload, Crash, Restart, Publish, EditJobFile, Drift, Rollout,
           BeginRecord, Loop, Pipeline, Goto, loopVars, jobVars
  <2> QED
    BY <2>1 DEF JobInv, Chosen, Pipeline
<1> QED
  BY <1>1, JobInvHolds, PTL DEF Spec, OnlyForward
-----------------------------------------------------------------------------
(***************************************************************************)
(* The number of applies.  The counter of the code starts from zero for    *)
(* every other release, so it bounds the applies of one release only       *)
(* because no release becomes the greatest twice: the tags of the clone    *)
(* only grow, and so does the greatest of them.                            *)
(***************************************************************************)

\* The last look at the repository found the greatest tag of the clone.
FoundGreatest ==
  \/ nMaxTag = 0
  \/ \E found \in MaxTagAnswers(TagsOf(local, cfg.prefix), cfg.maxTag, cfg.prefix) :
       found.status = "ok" /\ found.n = nMaxTag

\* A release this run of the job does not take up any more.
Passed(t) ==
  \/ Num(t) < nMaxTag
  \/ t # gitCurrentTag /\ Num(t) <= Num(gitCurrentTag)

\* The counter bounds the applies of every release that may be applied again.
Counted ==
  \A t \in GitTags :
    applied[t] = 0 \/ Passed(t) \/ (Num(t) = nMaxTag /\ applied[t] <= retryApply)

AppliesInv ==
  /\ AppliesBounded
  /\ pc \in {"start", "store", "open", "clone"} => nMaxTag = 0 /\ \A t \in GitTags : applied[t] = 0
  /\ pc \in Loop => FoundGreatest /\ Counted
  /\ pc \in Pipeline => nMaxTag = Num(strMaxTag)

LEMMA NumType ==
  ASSUME NEW t \in Tag
  PROVE  Num(t) \in Nat
BY ConvertType DEF Num

\* A step within the loop that leaves what the invariant is about.
LEMMA LoopKeepsApplies ==
  ASSUME JobInv, AppliesInv, pc \in Loop, pc' \in Pipeline => pc \in Pipeline,
         pc' \notin {"start", "store", "open", "clone"},
         UNCHANGED <<cfg, local, gitCurrentTag, nMaxTag, strMaxTag, retryApply, applied>>
  PROVE  AppliesInv'
<1>1. AppliesBounded' /\ FoundGreatest' /\ Counted'
  BY DEF AppliesInv, AppliesBounded, FoundGreatest, Counted, Passed, Num
<1> QED
  BY <1>1 DEF AppliesInv, Num

LEMMA PollKeepsApplies ==
  ASSUME JobInv, AppliesInv, Poll
  PROVE  AppliesInv'
<1>1. TypeOK /\ FoundGreatest /\ Counted /\ AppliesBounded /\ pc \in Loop
  BY DEF JobInv, AppliesInv, Poll, Loop
<1>2. UNCHANGED <<cfg, gitCurrentTag, applied>>
  BY DEF Poll
<1>3. AppliesBounded'
  BY <1>1, <1>2 DEF AppliesBounded
<1>4. CASE EndJob
  BY <1>3, <1>4 DEF EndJob, AppliesInv, Loop, Pipeline
<1>5. ASSUME NEW found \in MaxTagAnswers(TagsOf(Pulled, cfg.prefix), cfg.maxTag, cfg.prefix),
             found.status = "ok", local' = Pulled,
             nMaxTag' = found.n, strMaxTag' = found.tag, retryApply' = RetriesFor(found),
             pc' \in {"checkout", "tail"}
      PROVE  AppliesInv'
  <2>1. /\ TagsOf(local, cfg.prefix) \subseteq TagsOf(Pulled, cfg.prefix)
        /\ TagsOf(Pulled, cfg.prefix) \subseteq Tag
    <3>1. \A t \in GitTags : local[t] # None => Pulled[t] # None
      BY DEF Pulled
    <3>2. GitTags \subseteq Tag
      BY JobAssumption
    <3> QED
      BY <3>1, <3>2 DEF TagsOf
  <2>2. cfg.maxTag \in Tag
    BY <1>1, ConfigType DEF TypeOK
  <2>3. found.n = Num(found.tag) /\ found.tag \in Tag
    BY <1>5, <2>1, <2>2, MaxTagAnswersType DEF Num
  <2>4. found.n \in Nat
    BY <2>3, NumType
  <2>5. nMaxTag <= found.n
    BY <1>1, <1>5, <2>1, <2>2, <2>4, MaxTagAnswersGrow DEF FoundGreatest
  <2>6. FoundGreatest'
    BY <1>2, <1>5 DEF FoundGreatest
  <2>7. Counted'
    <3> SUFFICES ASSUME NEW t \in GitTags
                 PROVE  (applied[t] = 0 \/ Passed(t) \/ (Num(t) = nMaxTag /\ applied[t] <= retryApply))'
      BY DEF Counted
    <3>1. t \in Tag /\ nMaxTag \in Int /\ retryApply \in Nat
      BY <1>1, JobAssumption DEF TypeOK
    <3>2. Num(t) \in Nat /\ Num(t)' = Num(t) /\ Num(gitCurrentTag)' = Num(gitCurrentTag)
      BY <1>2, <3>1, NumType DEF Num
    <3>3. CASE applied[t] = 0
      BY <1>2, <3>3
    <3>4. CASE Passed(t)
      BY <1>2, <1>5, <2>4, <2>5, <3>1, <3>2, <3>4 DEF Passed
    <3>5. CASE Num(t) = nMaxTag /\ applied[t] <= retryApply /\ found.n # nMaxTag
      BY <1>5, <2>4, <2>5, <3>1, <3>2, <3>5 DEF Passed
    <3>6. CASE Num(t) = nMaxTag /\ applied[t] <= retryApply /\ found.n = nMaxTag
      BY <1>2, <1>5, <3>2, <3>6 DEF RetriesFor
    <3> QED
      BY <1>1, <3>3, <3>4, <3>5, <3>6 DEF Counted
  <2>8. (nMaxTag = Num(strMaxTag))'
    BY <1>2, <1>5, <2>3 DEF Num
  <2> QED
    BY <1>3, <1>5, <2>6, <2>7, <2>8 DEF AppliesInv
<1> QED
  BY <1>4, <1>5 DEF Poll, Goto

\* A release that is in the pipeline has not been passed.
LEMMA ReleaseNotPassed ==
  ASSUME JobInv, AppliesInv, pc \in Pipeline
  PROVE  ~Passed(strMaxTag)
<1>1. strMaxTag \in Tag /\ gitCurrentTag \in Tag
  BY DEF JobInv, TypeOK
<1> QED
  BY <1>1, NumType DEF Passed, AppliesInv, JobInv, Chosen

LEMMA ApplyKeepsApplies ==
  ASSUME JobInv, AppliesInv, Apply
  PROVE  AppliesInv'
<1>1. /\ TypeOK /\ pc = "apply" /\ strMaxTag \in GitTags /\ strMaxTag \in Tag
      /\ retryApply \in Nat /\ retryApply <= 3
  BY DEF JobInv, Apply, CheckedOut, Attempts, TypeOK
<1>2. FoundGreatest /\ Counted /\ AppliesBounded /\ nMaxTag = Num(strMaxTag)
  BY <1>1 DEF AppliesInv, Loop, Pipeline
<1>3. UNCHANGED <<cfg, local, gitCurrentTag, nMaxTag, strMaxTag>>
  BY DEF Apply, gitVars
<1>4. applied \in [GitTags -> Nat] /\ applied' = [applied EXCEPT ![strMaxTag] = @ + 1]
  BY <1>1 DEF Apply, TypeOK
<1>5. applied[strMaxTag] <= retryApply
  BY <1>1, <1>2, <1>4, ReleaseNotPassed DEF Counted, Pipeline
<1>6. AppliesBounded'
  BY <1>1, <1>2, <1>4, <1>5 DEF AppliesBounded
<1>7. CASE retryApply' = retryApply + 1 /\ Goto("wait")
  <2>1. FoundGreatest' /\ (nMaxTag = Num(strMaxTag))'
    BY <1>2, <1>3 DEF FoundGreatest, Num
  <2>2. Counted'
    <3> SUFFICES ASSUME NEW t \in GitTags
                 PROVE  (applied[t] = 0 \/ Passed(t) \/ (Num(t) = nMaxTag /\ applied[t] <= retryApply))'
      BY DEF Counted
    <3>1. Num(t)' = Num(t) /\ Passed(t)' = Passed(t)
      BY <1>3 DEF Num, Passed
    <3>2. CASE t = strMaxTag
      BY <1>1, <1>2, <1>3, <1>4, <1>5, <1>7, <3>1, <3>2
    <3>3. CASE t # strMaxTag
      BY <1>1, <1>2, <1>3, <1>4, <1>7, <3>1, <3>3 DEF Counted
    <3> QED
      BY <3>2, <3>3
  <2> QED
    BY <1>6, <1>7, <2>1, <2>2 DEF AppliesInv, Goto
<1>8. CASE EndJob
  BY <1>6, <1>8 DEF AppliesInv, EndJob, Loop, Pipeline
<1> QED
  BY <1>7, <1>8 DEF Apply

\* Recording a release passes all others that are not greater.
LEMMA RecordPasses ==
  ASSUME JobInv, AppliesInv, pc \in Pipeline, cfg' = cfg, nMaxTag' = nMaxTag,
         gitCurrentTag' = strMaxTag, NEW t \in GitTags, Passed(t)
  PROVE  Passed(t)'
<1>1. t \in Tag /\ strMaxTag \in Tag /\ gitCurrentTag \in Tag
  BY JobAssumption DEF JobInv, TypeOK
<1>2. Num(t) \in Nat /\ Num(strMaxTag) \in Nat /\ Num(gitCurrentTag) \in Nat
  BY <1>1, NumType
<1>3. Num(t)' = Num(t) /\ Num(gitCurrentTag)' = Num(strMaxTag)
  BY DEF Num
<1>4. strMaxTag = gitCurrentTag \/ Num(strMaxTag) > Num(gitCurrentTag)
  BY DEF JobInv, Chosen
<1> QED
  BY <1>2, <1>3, <1>4 DEF Passed

LEMMA RecordedKeepsApplies ==
  ASSUME JobInv, AppliesInv, pc \in Pipeline, pc' \in {"record", "tail"},
         UNCHANGED <<cfg, local, nMaxTag, strMaxTag>>,
         gitCurrentTag' = strMaxTag, strMaxTag \in GitTags,
         \/ UNCHANGED <<retryApply, applied>>
         \/ retryApply' = 0 /\ applied' = [applied EXCEPT ![strMaxTag] = 0]
  PROVE  AppliesInv'
<1>1. /\ FoundGreatest /\ Counted /\ AppliesBounded /\ nMaxTag = Num(strMaxTag)
      /\ applied \in [GitTags -> Nat]
  BY DEF AppliesInv, Loop, JobInv, TypeOK
<1>2. AppliesBounded' /\ FoundGreatest'
  BY <1>1 DEF AppliesBounded, FoundGreatest
<1>3. Counted'
  <2> SUFFICES ASSUME NEW t \in GitTags
               PROVE  (applied[t] = 0 \/ Passed(t) \/ (Num(t) = nMaxTag /\ applied[t] <= retryApply))'
    BY DEF Counted
  <2>1. Num(t)' = Num(t) /\ Num(gitCurrentTag)' = Num(strMaxTag)
    BY DEF Num
  <2>2. CASE Passed(t)
    BY <2>2, RecordPasses
  <2>3. CASE ~Passed(t) /\ UNCHANGED <<retryApply, applied>>
    BY <1>1, <2>1, <2>3 DEF Counted
  <2>4. CASE ~Passed(t) /\ t = strMaxTag /\ applied' = [applied EXCEPT ![strMaxTag] = 0]
    BY <1>1, <2>4
  <2>5. CASE ~Passed(t) /\ t # strMaxTag /\ applied' = [applied EXCEPT ![strMaxTag] = 0]
    <3>1. applied'[t] = applied[t]
      BY <1>1, <2>5
    <3>2. Num(t) \in Nat
      BY NumType, JobAssumption
    <3> QED
      BY <1>1, <2>1, <2>5, <3>1, <3>2 DEF Counted, Passed
  <2> QED
    BY <2>2, <2>3, <2>4, <2>5
<1> QED
  BY <1>2, <1>3 DEF AppliesInv, Pipeline

LEMMA AppliesStep ==
  ASSUME JobInv, AppliesInv, [Next]_vars
  PROVE  AppliesInv'
<1>1. AppliesBounded
  BY DEF AppliesInv
<1>2. ASSUME pc' \notin Loop, pc' \notin {"start", "store", "open", "clone"}, applied' = applied
      PROVE  AppliesInv'
  BY <1>1, <1>2 DEF AppliesInv, AppliesBounded, Loop
<1>3. ASSUME pc \in {"start", "store", "open", "clone"}, UNCHANGED <<applied, nMaxTag>>,
             pc' \notin Pipeline
      PROVE  AppliesInv'
  <2>1. nMaxTag = 0 /\ \A t \in GitTags : applied[t] = 0
    BY <1>3 DEF AppliesInv
  <2> QED
    BY <1>1, <1>3, <2>1 DEF AppliesInv, AppliesBounded, FoundGreatest, Counted
<1>4. CASE Begin
  BY <1>3, <1>4, BeginType DEF JobInv, Begin, Pipeline
<1>5. CASE Store \/ OpenRepo \/ CloneRepo
  BY <1>3, <1>5 DEF Store, OpenRepo, CloneRepo, EnterLoop, Goto, EndJob, Pipeline, loopVars
<1>6. CASE Checkout \/ Sync
  BY <1>6, LoopKeepsApplies DEF Checkout, Sync, AfterCheckout, AfterBuild, AfterSync, Goto, EndJob,
                                Loop, Pipeline, loopVars, gitVars
<1>7. CASE CheckReady
  BY <1>7, LoopKeepsApplies DEF CheckReady, AfterAttempt, Goto, EndJob, Loop, Pipeline, gitVars
<1>8. CASE Build
  <2>1. strMaxTag \in GitTags /\ pc \in Pipeline
    BY <1>8 DEF JobInv, CheckedOut, Build, Pipeline
  <2>2. CASE BeginRecord(strMaxTag)
    BY <1>8, <2>1, <2>2, RecordedKeepsApplies DEF Build, BeginRecord, Goto, gitVars
  <2>3. CASE UNCHANGED gitCurrentTag /\ pc' \in {"done", AfterBuild}
    BY <1>8, <2>1, <2>3, LoopKeepsApplies DEF Build, AfterBuild, AfterSync, Loop, Pipeline, gitVars
  <2> QED
    BY <1>8, <2>2, <2>3 DEF Build, Goto, EndJob
<1>9. CASE Verify
  <2>1. strMaxTag \in GitTags /\ pc \in Pipeline
    BY <1>9 DEF JobInv, CheckedOut, Verify, Pipeline
  <2>2. CASE BeginRecord(strMaxTag) /\ retryApply' = 0 /\ applied' = [applied EXCEPT ![strMaxTag] = 0]
    BY <1>9, <2>1, <2>2, RecordedKeepsApplies DEF Verify, BeginRecord, Goto, gitVars
  <2>3. CASE UNCHANGED <<gitCurrentTag, retryApply, applied>> /\ pc' \in {"done", "tail"}
    BY <1>9, <2>1, <2>3, LoopKeepsApplies DEF Verify, Loop, Pipeline, gitVars
  <2> QED
    BY <1>9, <2>2, <2>3 DEF Verify, AfterAttempt, Goto, EndJob
<1>10. CASE Record \/ EndRound
  BY <1>10, LoopKeepsApplies DEF Record, EndRound, Goto, EndJob, Loop, Pipeline, loopVars, gitVars
<1>11. CASE FreshLoop /\ pc' = "start"
  BY <1>11 DEF FreshLoop, AppliesInv, AppliesBounded, Loop, Pipeline
<1>12. CASE Reload \/ Crash \/ Restart
  BY <1>2, <1>11, <1>12 DEF Reload, Crash, Restart, Goto, EndJob, Loop, Pipeline, loopVars
<1>13. CASE Publish \/ EditJobFile \/ Drift \/ Rollout \/ UNCHANGED vars
  <2>1. UNCHANGED <<pc, cfg, local, gitCurrentTag, nMaxTag, strMaxTag, retryApply, applied>>
    BY <1>13 DEF Publish, EditJobFile, Drift, Rollout, vars, jobVars, loopVars, gitVars
  <2> QED
    BY <2>1 DEF AppliesInv, AppliesBounded, FoundGreatest, Counted, Passed, Num
<1> QED
  BY <1>4, <1>5, <1>6, <1>7, <1>8, <1>9, <1>10, <1>12, <1>13, PollKeepsApplies, ApplyKeepsApplies
  DEF Next, JobStep

\* One run of the job applies a release at most four times before it records it
\* or ends, whatever is published, moved or becomes the greatest in between.
THEOREM AttemptsCorrect == Spec => []AppliesBounded
<1>1. Init => AppliesInv
  BY DEF Init, AppliesInv, AppliesBounded, Loop, Pipeline
<1>2. JobInv /\ AppliesInv /\ [Next]_vars => AppliesInv'
  BY AppliesStep
<1>3. AppliesInv => AppliesBounded
  BY DEF AppliesInv
<1> QED
  BY <1>1, <1>2, <1>3, JobInvHolds, PTL DEF Spec

-----------------------------------------------------------------------------
(***************************************************************************)
(* The start-tag file and -oncerun.                                        *)
(***************************************************************************)

\* A step counts one event or none.
LEMMA StepCounts ==
  ASSUME [Next]_vars
  PROVE  Works \/ \E e \in Events : Happens(e)
<1> USE DEF Events
<1>1. CASE Begin
  BY <1>1 DEF Begin, Fault, GetImageTag
<1>2. CASE Verify
  BY <1>2 DEF Verify, BeginRecord, Fault, GetImageTag
<1>3. CASE Build
  BY <1>3 DEF Build, BeginRecord, Fault
<1>4. CASE Store \/ OpenRepo \/ CloneRepo \/ Poll \/ Checkout \/ Sync \/ Apply
  BY <1>4 DEF Store, OpenRepo, CloneRepo, Poll, Checkout, Sync, Apply, Fault
<1>5. CASE CheckReady \/ Record \/ EndRound \/ Reload
  BY <1>5 DEF CheckReady, Record, EndRound, Reload, Fault
<1>6. CASE Crash \/ Restart \/ Publish \/ EditJobFile \/ Drift \/ Rollout
  BY <1>6 DEF Crash, Restart, Publish, EditJobFile, Drift, Rollout, Works
<1>7. CASE UNCHANGED vars
  BY <1>7 DEF vars, Works
<1> QED
  BY <1>1, <1>2, <1>3, <1>4, <1>5, <1>6, <1>7 DEF Next, JobStep

\* A command that fails is counted for good.
LEMMA FaultIsCounted ==
  ASSUME TypeOK, [Next]_vars
  PROVE  /\ Fault => used'["fault"] # 0
         /\ used'["fault"] = 0 => used["fault"] = 0
<1>1. used \in [Events -> Nat] /\ "fault" \in Events
  BY DEF TypeOK, Events
<1>2. Fault => used'["fault"] = used["fault"] + 1
  BY <1>1 DEF Fault, Happens
<1>3. Works \/ \E e \in Events : Happens(e)
  BY StepCounts
<1>4. used'["fault"] = used["fault"] \/ used'["fault"] = used["fault"] + 1
  BY <1>1, <1>3 DEF Works, Happens
<1> QED
  BY <1>1, <1>2, <1>4

\* As long as no command failed, a restart finds the tag the job takes for
\* applied in the start-tag file, but while the file is being written.
THEOREM StoredTagCorrect == Spec => []StoredTagIsCurrent
<1>1. Init => StoredTagIsCurrent
  BY DEF Init, StoredTagIsCurrent, Loop, Pipeline
<1>2. JobInv /\ StoredTagIsCurrent /\ [Next]_vars => StoredTagIsCurrent'
  <2> SUFFICES ASSUME JobInv, StoredTagIsCurrent, [Next]_vars, used'["fault"] = 0,
                      pc' \in (Loop \ {"record"}) \cup {"open", "clone"}
               PROVE  file' = gitCurrentTag'
    BY DEF StoredTagIsCurrent
  <2>1. used["fault"] = 0 /\ ~Fault
    BY FaultIsCounted DEF JobInv
  <2> USE <2>1 DEF StoredTagIsCurrent, Goto, EndJob, Loop, Pipeline
  <2>2. CASE Begin
    BY <2>2, BeginType DEF JobInv
  <2>3. CASE Store \/ Record
    BY <2>3 DEF Store, Record, loopVars
  <2>4. CASE OpenRepo \/ CloneRepo \/ Poll
    BY <2>4 DEF OpenRepo, CloneRepo, Poll, loopVars
  <2>5. CASE Checkout \/ Sync \/ Apply \/ CheckReady
    BY <2>5 DEF Checkout, Sync, Apply, CheckReady, loopVars
  <2>6. CASE Build
    BY <2>6 DEF Build, BeginRecord
  <2>7. CASE Verify
    BY <2>7 DEF Verify, BeginRecord
  <2>8. CASE EndRound \/ Reload \/ Crash \/ Restart
    BY <2>8 DEF EndRound, Reload, Crash, Restart, loopVars
  <2>9. CASE Publish \/ EditJobFile \/ Drift \/ Rollout \/ UNCHANGED vars
    BY <2>9 DEF Publish, EditJobFile, Drift, Rollout, vars, jobVars, loopVars
  <2> QED
    BY <2>2, <2>3, <2>4, <2>5, <2>6, <2>7, <2>8, <2>9 DEF Next, JobStep
<1> QED
  BY <1>1, <1>2, JobInvHolds, PTL DEF Spec

\* With -oncerun nothing is applied before the one attempt of the one round.
OnceInv ==
  FbOnce =>
    /\ OnceMeansOneRound
    /\ pc \notin {"wait", "verify", "record", "tail", "done", "down"} => retryApply = 0

\* -oncerun makes one round: no release is applied twice, and there is no reload.
THEOREM OnceCorrect == Spec => []OnceMeansOneRound
<1>1. Init => OnceInv
  BY DEF Init, OnceInv, OnceMeansOneRound
<1>2. JobInv /\ OnceInv /\ [Next]_vars => OnceInv'
  <2> SUFFICES ASSUME JobInv, OnceInv, [Next]_vars, FbOnce PROVE OnceInv'
    BY DEF OnceInv
  <2>1. retryApply \in Nat
    BY DEF JobInv, TypeOK
  <2> USE <2>1 DEF OnceInv, OnceMeansOneRound, Goto, EndJob
  <2>2. CASE Begin
    BY <2>2, BeginType DEF JobInv, Begin
  <2>3. CASE Store \/ OpenRepo \/ CloneRepo
    BY <2>3 DEF Store, OpenRepo, CloneRepo, EnterLoop, loopVars
  <2>4. CASE Poll
    BY <2>4 DEF Poll, RetriesFor
  <2>5. CASE Checkout \/ Sync
    BY <2>5 DEF Checkout, Sync, AfterCheckout, AfterBuild, AfterSync, loopVars
  <2>6. CASE Build
    BY <2>6 DEF Build, BeginRecord, AfterBuild, AfterSync
  <2>7. CASE Apply \/ CheckReady
    BY <2>7 DEF Apply, CheckReady, AfterAttempt
  <2>8. CASE Verify
    BY <2>8 DEF Verify, BeginRecord, AfterAttempt
  <2>9. CASE Record \/ EndRound \/ Crash
    BY <2>9 DEF Record, EndRound, Crash, loopVars
  <2>10. CASE Reload \/ Restart
    BY <2>10 DEF Reload, Restart, FreshLoop
  <2>11. CASE Publish \/ EditJobFile \/ Drift \/ Rollout \/ UNCHANGED vars
    BY <2>11 DEF Publish, EditJobFile, Drift, Rollout, vars, jobVars, loopVars
  <2> QED
    BY <2>2, <2>3, <2>4, <2>5, <2>6, <2>7, <2>8, <2>9, <2>10, <2>11 DEF Next, JobStep
<1>3. OnceInv => OnceMeansOneRound
  BY DEF OnceInv, OnceMeansOneRound
<1> QED
  BY <1>1, <1>2, <1>3, JobInvHolds, PTL DEF Spec
-----------------------------------------------------------------------------
(***************************************************************************)
(* What the job leaves behind.                                             *)
(***************************************************************************)

\* Events are never forgotten.
LEMMA EventsAreCounted ==
  ASSUME TypeOK, [Next]_vars
  PROVE  \A e \in Events : used[e] \in Nat /\ used'[e] \in Nat /\ used[e] <= used'[e]
<1>1. used \in [Events -> Nat]
  BY DEF TypeOK
<1>2. CASE Works
  BY <1>1, <1>2 DEF Works
<1>3. CASE \E e \in Events : Happens(e)
  BY <1>1, <1>3 DEF Happens
<1> QED
  BY <1>2, <1>3, StepCounts

\* A version is not the empty string, and neither is what the cluster names.
LEMMA VersionNotEmpty ==
  ASSUME NEW prefix, NEW major, NEW minor, NEW patch
  PROVE  Version(prefix, major, minor, patch) # EmptyTag
<1>1. Len(Version(prefix, major, minor, patch).parts) = 3 /\ Len(EmptyTag.parts) = 1
  BY DEF Version, EmptyTag
<1> QED
  BY <1>1

LEMMA ImageTagNotEmpty ==
  ASSUME NEW tag, NEW prefix, ImageTagOf(tag, prefix).status = "ok"
  PROVE  ImageTagOf(tag, prefix).tag # EmptyTag
BY VersionNotEmpty DEF ImageTagOf

LEMMA StartedNotEmpty ==
  ASSUME NEW tag, tag # EmptyTag, StartFrom(tag)
  PROVE  \/ pc' = "done" /\ file' = file
         \/ pc' = "store" /\ gitCurrentTag' # EmptyTag
BY VersionNotEmpty DEF StartFrom, DowngradedTag, EndJob, Goto

\* Nothing was cut off, and no job file asks to start from the empty string.
Unbroken ==
  /\ used["crash"] + used["fault"] = 0
  /\ \A c \in Configs : c.startTag # EmptyTag

\* The file is empty only while it is written, and what is written is not the
\* empty string; a clone is incomplete only while it runs.
FilesInv ==
  /\ repo = "partial" => pc = "clone" \/ used["crash"] > 0
  /\ Unbroken =>
       /\ file = EmptyTag => pc \in {"store", "record"}
       /\ pc \in {"store", "open", "clone"} \cup Loop => gitCurrentTag # EmptyTag

\* The start writes a tag from the cluster, the file or the job file.
LEMMA BeginNotEmpty ==
  ASSUME JobInv, FilesInv, Unbroken, ~Fault, Begin
  PROVE  \/ pc' = "done" /\ file' = file
         \/ pc' = "store" /\ gitCurrentTag' # EmptyTag
<1>1. cfg.startTag # EmptyTag
  BY DEF Unbroken, JobInv, TypeOK
<1>2. StoredTag # EmptyTag
  BY <1>1 DEF StoredTag, FilesInv, Begin
<1>3. CASE EndJob /\ UNCHANGED <<gitCurrentTag, file>>
  BY <1>3 DEF EndJob
<1>4. CASE StartFrom(StoredTag)
  BY <1>2, <1>4, StartedNotEmpty
<1>5. ASSUME NEW answer \in ImageTagAnswers, answer.status = "ok", StartFrom(answer.tag)
      PROVE  \/ pc' = "done" /\ file' = file
             \/ pc' = "store" /\ gitCurrentTag' # EmptyTag
  <2>1. answer = ImageTagOf(clusterTag, cfg.prefix)
    BY <1>5 DEF ImageTagAnswers, NoAnswer
  <2>2. answer.tag # EmptyTag
    BY <1>5, <2>1, ImageTagNotEmpty
  <2> QED
    BY <1>5, <2>2, StartedNotEmpty
<1>6. ASSUME NEW answer \in ImageTagAnswers
      PROVE  answer.status \in {"ok", "err", "panic"}
  BY <1>6, ImageAnswerType DEF JobInv
<1> QED
  BY <1>3, <1>4, <1>5, <1>6 DEF Begin

\* A release that is taken up is no empty string: it is the current one, or its
\* number is greater.
LEMMA ReleaseNotEmpty ==
  ASSUME JobInv, pc \in Pipeline, gitCurrentTag # EmptyTag
  PROVE  strMaxTag # EmptyTag
<1>1. gitCurrentTag \in Tag
  BY DEF JobInv, TypeOK
<1>2. Num(gitCurrentTag) \in Nat /\ Num(EmptyTag) = 0
  BY <1>1, ConvertType, EmptyTagIsTag, EmptyTagIsNoVersion DEF Num
<1> QED
  BY <1>2 DEF JobInv, Chosen

LEMMA FilesStep ==
  ASSUME JobInv, FilesInv, [Next]_vars
  PROVE  FilesInv'
<1>1. /\ used["crash"] \in Nat /\ used'["crash"] \in Nat /\ used["crash"] <= used'["crash"]
      /\ used["fault"] \in Nat /\ used'["fault"] \in Nat /\ used["fault"] <= used'["fault"]
  BY EventsAreCounted DEF JobInv, Events
<1>2. Crash => used'["crash"] > 0
  BY <1>1 DEF Crash, Happens, JobInv, TypeOK, Events
<1>3. (repo = "partial" => pc = "clone" \/ used["crash"] > 0)'
  <2> SUFFICES ASSUME repo' = "partial", pc' # "clone", used'["crash"] = 0
               PROVE  FALSE
    BY <1>1
  <2>1. used["crash"] = 0 /\ ~Crash
    BY <1>1, <1>2
  <2>2. (repo = "partial" => pc = "clone")
    BY <2>1 DEF FilesInv
  <2>3. repo' = repo \/ OpenRepo \/ CloneRepo \/ Restart
    BY <2>1 DEF Next, JobStep, Begin, Store, Poll, Checkout, Build, Sync, Apply, CheckReady, Verify, Record,
                EndRound, Reload, Publish, EditJobFile, Drift, Rollout, vars, jobVars, gitVars
  <2>4. repo' = repo
    BY <2>2, <2>3 DEF OpenRepo, CloneRepo, Restart, Goto, gitVars
  <2>5. pc = "clone"
    BY <2>2, <2>4
  <2>6. CloneRepo \/ pc' = pc
    BY <2>1, <2>5 DEF Next, JobStep, Begin, Store, OpenRepo, Poll, Checkout, Build, Sync, Apply, CheckReady,
                Verify, Record, EndRound, Reload, Restart, Publish, EditJobFile, Drift, Rollout, vars, jobVars
  <2> QED
    BY <2>5, <2>6 DEF CloneRepo
<1>4. ASSUME Unbroken'
      PROVE  (/\ file = EmptyTag => pc \in {"store", "record"}
              /\ pc \in {"store", "open", "clone"} \cup Loop => gitCurrentTag # EmptyTag)'
  <2>1. Unbroken /\ ~Fault /\ ~Crash
    BY <1>1, <1>2, <1>4, FaultIsCounted DEF Unbroken, JobInv
  <2>2. /\ file = EmptyTag => pc \in {"store", "record"}
        /\ pc \in {"store", "open", "clone"} \cup Loop => gitCurrentTag # EmptyTag
    BY <2>1 DEF FilesInv
  <2> USE <2>1, <2>2 DEF Goto, EndJob, Loop, Pipeline
  <2>3. CASE Begin
    BY <2>3, BeginNotEmpty DEF Begin
  <2>4. CASE Store \/ Record
    BY <2>4 DEF Store, Record, loopVars
  <2>5. CASE OpenRepo \/ CloneRepo \/ Poll
    BY <2>5 DEF OpenRepo, CloneRepo, EnterLoop, Poll, loopVars
  <2>6. CASE Checkout \/ Sync \/ Apply \/ CheckReady
    BY <2>6 DEF Checkout, Sync, Apply, CheckReady, AfterCheckout, AfterBuild, AfterSync, AfterAttempt, loopVars
  <2>7. CASE Build
    BY <2>7, ReleaseNotEmpty DEF Build, BeginRecord, AfterBuild, AfterSync
  <2>8. CASE Verify
    BY <2>8, ReleaseNotEmpty DEF Verify, BeginRecord, AfterAttempt
  <2>9. CASE EndRound \/ Reload
    BY <2>9 DEF EndRound, Reload, loopVars
  <2>10. CASE Restart
    <3>1. None # EmptyTag
      BY JobAssumption, EmptyTagIsTag
    <3> QED
      BY <2>10, <3>1 DEF Restart
  <2>11. CASE Publish \/ EditJobFile \/ Drift \/ Rollout \/ UNCHANGED vars
    BY <2>11 DEF Publish, EditJobFile, Drift, Rollout, vars, jobVars, loopVars
  <2> QED
    BY <2>3, <2>4, <2>5, <2>6, <2>7, <2>8, <2>9, <2>10, <2>11 DEF Next, JobStep
<1> QED
  BY <1>3, <1>4 DEF FilesInv

\* Only a crash leaves an incomplete clone, and only a crash or a failed write
\* an empty start-tag file: the two leftovers with which no start succeeds.
THEOREM FilesCorrect == Spec => []LeavesUsableFiles
<1>1. Init => FilesInv
  <2>1. None # EmptyTag
    BY JobAssumption, EmptyTagIsTag
  <2> QED
    BY <2>1 DEF Init, FilesInv, Loop, Pipeline
<1>2. JobInv /\ FilesInv /\ [Next]_vars => FilesInv'
  BY FilesStep
<1>3. JobInv /\ FilesInv => LeavesUsableFiles
  <2> SUFFICES ASSUME JobInv, FilesInv PROVE LeavesUsableFiles
    OBVIOUS
  <2>1. used["crash"] \in Nat /\ used["fault"] \in Nat
    BY DEF JobInv, TypeOK, Events
  <2> QED
    BY <2>1 DEF FilesInv, Unbroken, LeavesUsableFiles
<1> QED
  BY <1>1, <1>2, <1>3, JobInvHolds, PTL DEF Spec

-----------------------------------------------------------------------------
(***************************************************************************)
(* How far two of the disagreements with the comments of the code go: the  *)
(* start tag is no version only after a failure, and a panic of the job    *)
(* ends the process only if the job file is gone.                          *)
(***************************************************************************)

\* The job files agree on a prefix, any one, and name versions to start from.
JobPrefix == (CHOOSE c \in Configs : TRUE).prefix
IsVersion(tag) == ConvertTagToNumeric(tag, JobPrefix).status = "ok"
VersionedConfigs == \A c \in Configs : c.prefix = JobPrefix /\ IsVersion(c.startTag)

\* The image in the cluster has a tag of the job.  With the prefix "v" it need
\* not: what GetImageTag answers for any other image, v0.0.0, is a version there.
ImageIsOfJob ==
  JobPrefix = "v" \/ (clusterTag # None => ImageMatches(clusterTag, JobPrefix))

\* Three numbers behind the prefix, or behind none, are a version.
LEMMA PrefixOfVersion ==
  ASSUME NEW a, NEW b, NEW c, NEW p, p = "" \/ p = JobPrefix
  PROVE  PrefixGoes(Version(p, a, b, c), JobPrefix)
BY Zenon DEF PrefixGoes, Version

LEMMA NumbersAreVersion ==
  ASSUME NEW a \in Nat, NEW b \in Nat, NEW c \in Nat, NEW p,
         PrefixGoes(Version(p, a, b, c), JobPrefix)
  PROVE  IsVersion(Version(p, a, b, c))
<1> DEFINE t == Version(p, a, b, c)
<1>1. Len(t.parts) = 3 /\ t.parts[1] = a /\ t.parts[2] = b /\ t.parts[3] = c
  BY DEF Version
<1> HIDE DEF t
<1>2. \A i \in 1..3 : i = 1 \/ i = 2 \/ i = 3
  OBVIOUS
<1>3. \A i \in 1..3 : i <= Len(t.parts) /\ t.parts[i] # NaN
  BY <1>1, <1>2 DEF NaN
<1>4. \A i \in 1..3 : Parses(t, JobPrefix, i)
  BY <1>3 DEF Parses, t
<1>5. Malformed(t, JobPrefix) = {}
  BY <1>4 DEF Malformed
<1> QED
  BY <1>5 DEF IsVersion, ConvertTagToNumeric, t

LEMMA LiteralIsVersion ==
  ASSUME NEW a \in Nat, NEW b \in Nat, NEW c \in Nat, NEW p, p = "" \/ p = JobPrefix
  PROVE  IsVersion(Version(p, a, b, c))
BY PrefixOfVersion, NumbersAreVersion

\* So is what GetImageTag reads from an image of the job.
LEMMA ImageTagIsVersion ==
  ASSUME NEW tag \in Tag, JobPrefix = "v" \/ ImageMatches(tag, JobPrefix),
         ImageTagOf(tag, JobPrefix).status = "ok"
  PROVE  IsVersion(ImageTagOf(tag, JobPrefix).tag)
<1> DEFINE p == tag.parts
<1>1. CASE ImageMatches(tag, JobPrefix)
  <2>1. p \in Seq(Nat \cup {NaN}) /\ Len(p) >= 3 /\ \A i \in 1..3 : p[i] # NaN
    BY <1>1 DEF Tag, ImageMatches
  <2>2. p[1] \in Nat /\ p[2] \in Nat /\ p[3] \in Nat
    BY <2>1
  <2>3. FirstTwoDigits(p[3]) \in Nat
    BY <2>2 DEF FirstTwoDigits
  <2>4. ImageTagOf(tag, JobPrefix).tag = Version(tag.prefix, p[1], p[2], FirstTwoDigits(p[3]))
    BY <1>1 DEF ImageTagOf
  <2>5. tag.prefix = "" \/ tag.prefix = JobPrefix
    BY <1>1, Zenon DEF ImageMatches
  <2> QED
    BY <2>2, <2>3, <2>4, <2>5, LiteralIsVersion
<1>2. CASE ~ImageMatches(tag, JobPrefix)
  <2>1. JobPrefix = "v" /\ ImageTagOf(tag, JobPrefix).tag = Version("v", 0, 0, 0)
    BY <1>2 DEF ImageTagOf
  <2> QED
    BY <2>1, LiteralIsVersion
<1> QED
  BY <1>1, <1>2

\* As long as nothing failed, the file and the current tag are versions, but
\* for the file while it is written.
Calm == used["crash"] + used["fault"] = 0
VersionsInv ==
  Calm =>
    /\ file # None /\ pc \notin {"store", "record"} => IsVersion(file)
    /\ pc \in {"store", "open", "clone"} \cup Loop => IsVersion(gitCurrentTag)

LEMMA StartsVersioned ==
  ASSUME VersionedConfigs, TypeOK, NEW tag, IsVersion(tag), StartFrom(tag)
  PROVE  \/ pc' = "done" /\ file' = file
         \/ pc' = "store" /\ IsVersion(gitCurrentTag')
<1>1. cfg.prefix = JobPrefix
  BY DEF VersionedConfigs, TypeOK
<1>2. IsVersion(DowngradedTag(tag))
  BY <1>1, LiteralIsVersion DEF DowngradedTag
<1> QED
  BY <1>2 DEF StartFrom, EndJob, Goto

LEMMA BeginVersioned ==
  ASSUME VersionedConfigs, ImageIsOfJob, JobInv, VersionsInv, Calm, ~Fault, Begin
  PROVE  \/ pc' = "done" /\ file' = file
         \/ pc' = "store" /\ IsVersion(gitCurrentTag')
<1>1. TypeOK /\ cfg.prefix = JobPrefix /\ IsVersion(cfg.startTag)
  BY DEF VersionedConfigs, JobInv, TypeOK
<1>2. IsVersion(StoredTag)
  BY <1>1 DEF StoredTag, VersionsInv, Begin
<1>3. CASE EndJob /\ UNCHANGED <<gitCurrentTag, file>>
  BY <1>3 DEF EndJob
<1>4. CASE StartFrom(StoredTag)
  BY <1>1, <1>2, <1>4, StartsVersioned
<1>5. ASSUME NEW answer \in ImageTagAnswers, answer.status = "ok", StartFrom(answer.tag)
      PROVE  \/ pc' = "done" /\ file' = file
             \/ pc' = "store" /\ IsVersion(gitCurrentTag')
  <2>1. clusterTag # None /\ answer = ImageTagOf(clusterTag, JobPrefix)
    BY <1>1, <1>5 DEF ImageTagAnswers, NoAnswer
  <2>2. clusterTag \in Tag
    BY <1>1, <2>1, JobAssumption DEF TypeOK
  <2> QED
    BY <1>1, <1>5, <2>1, <2>2, ImageTagIsVersion, StartsVersioned DEF ImageIsOfJob
<1>6. ASSUME NEW answer \in ImageTagAnswers
      PROVE  answer.status \in {"ok", "err", "panic"}
  BY <1>1, <1>6, ImageAnswerType
<1> QED
  BY <1>3, <1>4, <1>5, <1>6 DEF Begin

\* A release is taken up if it is the current one or its number is greater.
LEMMA ReleaseIsVersion ==
  ASSUME VersionedConfigs, JobInv, pc \in Pipeline, IsVersion(gitCurrentTag)
  PROVE  IsVersion(strMaxTag)
<1>1. gitCurrentTag \in Tag /\ strMaxTag \in Tag /\ cfg.prefix = JobPrefix
  BY DEF VersionedConfigs, JobInv, TypeOK
<1>2. /\ Num(gitCurrentTag) \in Nat /\ Num(strMaxTag) \in Nat
      /\ ~IsVersion(strMaxTag) => Num(strMaxTag) = 0
  BY <1>1, ConvertType DEF Num, IsVersion
<1> QED
  BY <1>2 DEF JobInv, Chosen

LEMMA VersionsStep ==
  ASSUME VersionedConfigs, ImageIsOfJob, JobInv, VersionsInv, [Next]_vars
  PROVE  VersionsInv'
<1> SUFFICES ASSUME Calm'
             PROVE  (/\ file # None /\ pc \notin {"store", "record"} => IsVersion(file)
                     /\ pc \in {"store", "open", "clone"} \cup Loop => IsVersion(gitCurrentTag))'
  BY DEF VersionsInv
<1>1. Calm /\ ~Fault /\ ~Crash
  <2>1. /\ used["crash"] \in Nat /\ used'["crash"] \in Nat /\ used["crash"] <= used'["crash"]
        /\ used["fault"] \in Nat /\ used'["fault"] \in Nat /\ used["fault"] <= used'["fault"]
    BY EventsAreCounted DEF JobInv, Events
  <2>2. Crash => used'["crash"] > 0
    BY <2>1 DEF Crash, Happens, JobInv, TypeOK, Events
  <2> QED
    BY <2>1, <2>2, FaultIsCounted DEF Calm, JobInv
<1>2. /\ file # None /\ pc \notin {"store", "record"} => IsVersion(file)
      /\ pc \in {"store", "open", "clone"} \cup Loop => IsVersion(gitCurrentTag)
  BY <1>1 DEF VersionsInv
<1> USE <1>1, <1>2 DEF Goto, EndJob, Loop, Pipeline
<1>3. CASE Begin
  BY <1>3, BeginVersioned DEF Begin
<1>4. CASE Store \/ Record
  BY <1>4 DEF Store, Record, loopVars
<1>5. CASE OpenRepo \/ CloneRepo \/ Poll
  BY <1>5 DEF OpenRepo, CloneRepo, EnterLoop, Poll, loopVars
<1>6. CASE Checkout \/ Sync \/ Apply \/ CheckReady
  BY <1>6 DEF Checkout, Sync, Apply, CheckReady, AfterCheckout, AfterBuild, AfterSync, AfterAttempt, loopVars
<1>7. CASE Build
  BY <1>7, ReleaseIsVersion DEF Build, BeginRecord, AfterBuild, AfterSync
<1>8. CASE Verify
  BY <1>8, ReleaseIsVersion DEF Verify, BeginRecord, AfterAttempt
<1>9. CASE EndRound \/ Reload \/ Restart
  BY <1>9 DEF EndRound, Reload, Restart, loopVars
<1>10. CASE Publish \/ EditJobFile \/ Drift \/ Rollout \/ UNCHANGED vars
  BY <1>10 DEF Publish, EditJobFile, Drift, Rollout, vars, jobVars, loopVars
<1> QED
  BY <1>3, <1>4, <1>5, <1>6, <1>7, <1>8, <1>9, <1>10 DEF Next, JobStep

\* Job files that agree on a prefix and name versions to start from never make
\* the job start from anything else, whatever is pushed, edited or set in the
\* cluster by others, as long as no crash and no failed command came before
\* (what the run JobStartTag finds needs one) and, under another prefix than
\* "v", the image in the cluster has a tag of the job.
THEOREM StartTagCorrect ==
  VersionedConfigs => (Spec /\ []ImageIsOfJob => [](Calm => StartsFromAVersion))
<1> SUFFICES ASSUME VersionedConfigs
             PROVE  Spec /\ []ImageIsOfJob => [](Calm => StartsFromAVersion)
  OBVIOUS
<1>1. Init => VersionsInv
  BY DEF Init, VersionsInv, Loop, Pipeline
<1>2. JobInv /\ ImageIsOfJob /\ VersionsInv /\ [Next]_vars => VersionsInv'
  BY VersionsStep
<1>3. JobInv /\ VersionsInv => (Calm => StartsFromAVersion)
  BY DEF VersionsInv, StartsFromAVersion, IsVersion, VersionedConfigs, JobInv, TypeOK
<1> QED
  BY <1>1, <1>2, <1>3, JobInvHolds, PTL DEF Spec

\* As long as the job file is there, a panic of the job ends the job and not the
\* process: what the run JobRemoved finds needs its removal.
THEOREM PanicCorrect == Spec /\ [](jobFile # None) => []PanicEndsOnlyTheJob
<1>1. Init => PanicEndsOnlyTheJob
  BY DEF Init, PanicEndsOnlyTheJob
<1>2. JobInv /\ jobFile # None /\ PanicEndsOnlyTheJob /\ [Next]_vars => PanicEndsOnlyTheJob'
  <2> SUFFICES ASSUME JobInv, jobFile # None, PanicEndsOnlyTheJob, [Next]_vars, used'["crash"] = 0
               PROVE  pc' # "down"
    BY DEF PanicEndsOnlyTheJob
  <2>1. used["crash"] = 0 /\ ~Crash
    <3>1. used["crash"] \in Nat /\ used["crash"] <= used'["crash"]
      BY EventsAreCounted DEF JobInv, Events
    <3> QED
      BY <3>1 DEF Crash, Happens, JobInv, TypeOK, Events
  <2>2. pc # "down"
    BY <2>1 DEF PanicEndsOnlyTheJob
  <2> USE <2>1, <2>2 DEF Goto, EndJob
  <2>3. CASE Begin
    BY <2>3, BeginType DEF JobInv
  <2>4. CASE Store \/ OpenRepo \/ CloneRepo \/ Poll \/ Record \/ EndRound
    BY <2>4 DEF Store, OpenRepo, CloneRepo, EnterLoop, Poll, Record, EndRound
  <2>5. CASE Checkout \/ Sync \/ Apply \/ CheckReady
    BY <2>5 DEF Checkout, Sync, Apply, CheckReady, AfterCheckout, AfterBuild, AfterSync, AfterAttempt
  <2>6. CASE Build \/ Verify
    BY <2>6 DEF Build, Verify, BeginRecord, AfterBuild, AfterSync, AfterAttempt
  <2>7. CASE Reload \/ Restart
    BY <2>7 DEF Reload, Restart, getOneConfig
  <2>8. CASE Publish \/ EditJobFile \/ Drift \/ Rollout \/ UNCHANGED vars
    BY <2>8 DEF Publish, EditJobFile, Drift, Rollout, vars, jobVars
  <2> QED
    BY <2>3, <2>4, <2>5, <2>6, <2>7, <2>8 DEF Next, JobStep
<1> QED
  BY <1>1, <1>2, JobInvHolds, PTL DEF Spec
=============================================================================
