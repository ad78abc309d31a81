--------------------------------- MODULE Job ---------------------------------
(***************************************************************************)
(* One delivery job: RunOneJob of workload.go from its start to its end,   *)
(* its restarts, and what surrounds it: the git remote, the image          *)
(* registry, the synchronised folder, the cluster, the job file and the    *)
(* start-tag file.  One action is one external command, or the code        *)
(* between two of them.  The process has this one job; the state several   *)
(* jobs of a process share is not modelled here.                           *)
(*                                                                         *)
(* None is "no such thing": a tag without a commit, a file that does not   *)
(* exist, a deployment that has not been created.                          *)
(***************************************************************************)
EXTENDS Tags

CONSTANTS
  GitTags,      \* tags that may be published in the git repository
  Lightweight,  \* the ones that are no annotated tag objects
  Commits,      \* commits that tags point to
  Repos,        \* contents the git remote may have at first
  Configs,      \* contents the job file may have
  FbOnce,       \* the -oncerun flag
  Bound,        \* how often the surroundings may do each of Events
  None

Events == {"push", "edit", "drift", "fault", "crash"}

\* What RunOneJob asks of a job file.  kubeconfig: the file DEPLOY.KUBECONFIG
\* names is there, or it names none; testApp: NAMESPACE_K8s is "test-app".
Config == [active : BOOLEAN, clone : BOOLEAN, build : BOOLEAN, sync : BOOLEAN,
           deploy : BOOLEAN, kubeconfig : BOOLEAN, testApp : BOOLEAN, prefix : Prefixes,
           startTag : Tag, maxTag : Tag]

ASSUME JobAssumption ==
  /\ GitTags \subseteq Tag /\ Lightweight \subseteq GitTags
  /\ \A t \in GitTags : \A k \in 1..Len(t.parts) : t.parts[k] < 10000
  /\ Repos \subseteq [GitTags -> Commits \cup {None}]
  /\ Configs \subseteq Config
  /\ FbOnce \in BOOLEAN
  /\ Bound \in [Events -> Nat]
  /\ None \notin Commits \cup Tag \cup Config

VARIABLES
  pc,             \* where RunOneJob is; "done": it returned; "down": no process
  cfg,            \* config, as last read from the job file
  originalSHA,    \* the content of the job file RunOneJob hashed at its start
  gitCurrentTag,  \* the tag the job takes for applied
  nMaxTag, strMaxTag,  \* the release found by the last look at the repository
  retryApply,     \* attempts to apply it
  checks,         \* readiness checks of the running attempt
  applied,        \* history: applies of each release by this run of the job
                  \* since it last recorded the release
  file,           \* the start-tag file; EmptyTag while it is truncated
  local, repo,    \* tags of the local clone; "none", "partial" or "full"
  head,           \* commit of the work tree; None on the tip of the branch
  jobFile,        \* the job file
  remote,         \* tags of the git remote
  registry,       \* the commit each pushed image was built from
  target,         \* the commit TARGET_FOLDER was synchronised from
  clusterTag,     \* image tag in the spec of the deployment
  serving,        \* image tag the ready pods were started from, and its commit
  used            \* how often each event of Events has happened

loopVars == <<gitCurrentTag, nMaxTag, strMaxTag, retryApply, checks, applied>>
gitVars == <<local, repo, head>>
worldVars == <<registry, target, clusterTag, serving>>
vars == <<pc, cfg, originalSHA, loopVars, file, gitVars, jobFile, remote, worldVars, used>>

Stages == {"start", "store", "open", "clone", "poll", "checkout", "build", "sync", "apply",
           "wait", "verify", "record", "tail", "reload", "done", "down"}

TypeOK ==
  /\ pc \in Stages
  /\ cfg \in Configs
  /\ originalSHA \in Configs \cup {None}
  /\ gitCurrentTag \in Tag /\ strMaxTag \in Tag
  /\ nMaxTag \in Int
  /\ retryApply \in Nat /\ checks \in 0..5 /\ applied \in [GitTags -> Nat]
  /\ file \in Tag \cup {None}
  /\ local \in [GitTags -> Commits \cup {None}] /\ repo \in {"none", "partial", "full"}
  /\ head \in Commits \cup {None}
  /\ jobFile \in Configs \cup {None}
  /\ remote \in [GitTags -> Commits \cup {None}]
  /\ registry \in [GitTags -> Commits \cup {None}]
  /\ target \in Commits \cup {None}
  /\ clusterTag \in GitTags \cup {None}
  /\ serving \in [tag : GitTags \cup {None}, commit : Commits \cup {None}]
  /\ used \in [Events -> Nat]

\* Nothing is cloned, built or deployed yet; some tags are published.
Init ==
  /\ pc = "start"
  /\ cfg \in Configs /\ jobFile = cfg /\ originalSHA = None
  /\ gitCurrentTag = EmptyTag /\ strMaxTag = EmptyTag
  /\ nMaxTag = 0 /\ retryApply = 0 /\ checks = 0 /\ applied = [t \in GitTags |-> 0]
  /\ file = None
  /\ local = [t \in GitTags |-> None] /\ repo = "none" /\ head = None
  /\ remote \in Repos
  /\ registry = [t \in GitTags |-> None] /\ target = None
  /\ clusterTag = None /\ serving = [tag |-> None, commit |-> None]
  /\ used = [e \in Events |-> 0]

-----------------------------------------------------------------------------
Happens(e) == used[e] < Bound[e] /\ used' = [used EXCEPT ![e] = @ + 1]

\* An external command fails, or works.
Fault == Happens("fault")
Works == UNCHANGED used

\* RunOneJob returns, or panics and recovers in its deferred function: the
\* goroutine is over and so, with its only job, is the process.
EndJob == pc' = "done"

Goto(stage) == pc' = stage

\* CalculateSHA256: a hash stands for the content it was computed from, now.
CalculateSHA256 == jobFile

\* getOneConfig: the job file as it is now; nil without an error if it is gone.
getOneConfig == jobFile

\* GetImageTag: kubectl fails, also when there is no deployment to ask, or
\* answers with the image in the spec.
NoAnswer == [status |-> "err", tag |-> EmptyTag]
GetImageTag(answer) ==
  \/ Works /\ answer = IF clusterTag = None THEN NoAnswer ELSE ImageTagOf(clusterTag, cfg.prefix)
  \/ Fault /\ answer = NoAnswer
ImageTagAnswers ==
  {NoAnswer} \cup (IF clusterTag = None THEN {} ELSE {ImageTagOf(clusterTag, cfg.prefix)})

\* GetCommitHashByTag: no hash for a tag that is missing or is no tag object.
CommitHash(tags, tag) == IF tag \in GitTags \ Lightweight THEN tags[tag] ELSE None

\* GetTagsFromGitRepo.
TagsOf(tags, prefix) == {t \in GitTags : tags[t] # None /\ (prefix = "" \/ t.prefix = prefix)}

\* Mutant: the tag is kept in memory only.
KeepInMemory(tag) ==
  gitCurrentTag' = tag /\ Works /\ UNCHANGED file /\ Goto("tail")

\* Mutant: the tag in memory is not updated.
RecordInFileOnly(tag) ==
  Works /\ file' = tag /\ Goto("tail") /\ UNCHANGED gitCurrentTag

\* os.WriteFile truncates before it writes: the file is empty in between.  An
\* error of the write is only logged, so the job goes on without it.
BeginRecord(tag) ==
  /\ gitCurrentTag' = tag
  /\ \/ Works /\ file' = EmptyTag /\ Goto("record")
     \/ Fault /\ file' \in {file, EmptyTag} /\ Goto("tail")

-----------------------------------------------------------------------------
(***************************************************************************)
(* The start of the job.                                                   *)
(***************************************************************************)

\* The tag the job starts from if the cluster does not tell.
StoredTag == IF file = None THEN cfg.startTag ELSE file

\* Mutant: a start tag above the limit is kept.
KeepStartTag(tag) == tag

\* "Downgrade": a start tag above GIT_MAX_TAG is replaced by version 0.0.0.
DowngradedTag(tag) ==
  IF CompareTwoTags(tag, cfg.maxTag, cfg.prefix).n = -1
    THEN Version(cfg.prefix, 0, 0, 0) ELSE tag

StartFrom(tag) ==
  IF CompareTwoTags(tag, cfg.maxTag, cfg.prefix).status = "panic"
    THEN EndJob /\ UNCHANGED <<gitCurrentTag, file>>
    ELSE /\ gitCurrentTag' = DowngradedTag(tag)
         /\ file' = EmptyTag
         /\ Goto("store")

\* The job ends if it is not active, the job file cannot be hashed or the
\* kubeconfig file is missing; else it computes the tag to start from and
\* opens the start-tag file to write it.  A start-tag file that cannot be read
\* counts as missing.
Begin ==
  /\ pc = "start"
  /\ originalSHA' = IF cfg.active THEN CalculateSHA256 ELSE originalSHA
  /\ IF ~cfg.active \/ CalculateSHA256 = None \/ (cfg.deploy /\ ~cfg.kubeconfig)
       THEN EndJob /\ Works /\ UNCHANGED <<gitCurrentTag, file>>
       ELSE \/ Fault /\ EndJob /\ UNCHANGED <<gitCurrentTag, file>>
            \/ /\ ~cfg.deploy
               /\ Works /\ StartFrom(StoredTag)
            \/ /\ cfg.deploy => clusterTag = None
               /\ Fault /\ StartFrom(cfg.startTag)
            \/ /\ cfg.deploy
               /\ \E answer \in ImageTagAnswers :
                    /\ GetImageTag(answer)
                    /\ CASE answer.status = "panic" ->
                              EndJob /\ UNCHANGED <<gitCurrentTag, file>>
                         [] answer.status = "err" -> StartFrom(StoredTag)
                         [] answer.status = "ok" -> StartFrom(answer.tag)
  /\ UNCHANGED <<cfg, nMaxTag, strMaxTag, retryApply, checks, applied, gitVars, jobFile, remote,
                 worldVars>>

Store ==
  /\ pc = "store"
  /\ \/ Works /\ file' = gitCurrentTag /\ Goto("open")
     \/ Fault /\ EndJob /\ UNCHANGED file
  /\ UNCHANGED <<cfg, originalSHA, loopVars, gitVars, jobFile, remote, worldVars>>

\* The job goes on if its start tag is below GIT_MAX_TAG and both are versions.
StartTagIsBelowMax ==
  CompareTwoTags(gitCurrentTag, cfg.maxTag, cfg.prefix) = [status |-> "ok", n |-> 1]

EnterLoop == head' = None /\ IF StartTagIsBelowMax THEN Goto("poll") ELSE EndJob

\* AddKeyToSshAgent, then OpenOrCloneRepo as far as the test for a .git folder.
\* A clone that was cut off left one without branches, where the check-out of
\* the branch fails.
OpenRepo ==
  /\ pc = "open"
  /\ \/ Fault /\ EndJob /\ UNCHANGED <<repo, head>>
     \/ /\ Works
        /\ \/ ~cfg.clone /\ EndJob /\ UNCHANGED <<repo, head>>
           \/ cfg.clone /\ repo = "none" /\ repo' = "partial" /\ Goto("clone") /\ UNCHANGED head
           \/ cfg.clone /\ repo = "partial" /\ EndJob /\ UNCHANGED <<repo, head>>
           \/ cfg.clone /\ repo = "full" /\ EnterLoop /\ UNCHANGED repo
  /\ UNCHANGED <<cfg, originalSHA, loopVars, file, local, jobFile, remote, worldVars>>

\* Mutant: a clone that fails leaves what it wrote.
CloneLeavingPart ==
  /\ pc = "clone"
  /\ \/ Fault /\ EndJob /\ UNCHANGED <<repo, local, head>>
     \/ Fault /\ EndJob /\ repo' = "full" /\ local' = remote /\ UNCHANGED head
     \/ Works /\ repo' = "full" /\ local' = remote /\ EnterLoop
  /\ UNCHANGED <<cfg, originalSHA, loopVars, file, jobFile, remote, worldVars>>

\* PlainClone fetches all tags; one that fails removes what it wrote, as the
\* folder was missing or empty before.  The check-out of the branch after it may
\* fail too, and leaves the clone.
CloneRepo ==
  /\ pc = "clone"
  /\ \/ Fault /\ EndJob /\ repo' = "none" /\ UNCHANGED <<local, head>>
     \/ Fault /\ EndJob /\ repo' = "full" /\ local' = remote /\ UNCHANGED head
     \/ Works /\ repo' = "full" /\ local' = remote /\ EnterLoop
  /\ UNCHANGED <<cfg, originalSHA, loopVars, file, jobFile, remote, worldVars>>

-----------------------------------------------------------------------------
(***************************************************************************)
(* One round of the loop: look for a release.                              *)
(***************************************************************************)

\* git pull -f --tags overwrites the local tags and deletes none.
Pulled == [t \in GitTags |-> IF remote[t] # None THEN remote[t] ELSE local[t]]

\* Mutant: a release is taken whenever its tag is another one.
AnyOtherTagUpgrades(found) ==
  \/ found.tag # gitCurrentTag
  \/ CommitHash(Pulled, found.tag) # CommitHash(local, gitCurrentTag)

\* A greater tag, or the current tag if the pull moved it: the hash it had is
\* read before the pull.
DoUpgrade(found) ==
  IF found.tag = gitCurrentTag
    THEN CommitHash(Pulled, found.tag) # CommitHash(local, gitCurrentTag)
    ELSE found.n > ConvertTagToNumeric(gitCurrentTag, cfg.prefix).n

\* Mutant: every round starts its attempts from zero.
NoRetries(found) == 0

\* A new release starts its attempts from zero.
RetriesFor(found) == IF retryApply > 0 /\ found.n # nMaxTag THEN 0 ELSE retryApply

\* Check out the branch, pull, list the tags, pick the greatest and decide.
Poll ==
  /\ pc = "poll"
  /\ \/ /\ Fault /\ EndJob
        /\ head' \in {head, None} /\ local' \in {local, Pulled}
        /\ UNCHANGED <<nMaxTag, strMaxTag, retryApply>>
     \/ /\ Works
        /\ head' = None /\ local' = Pulled
        /\ \E found \in MaxTagAnswers(TagsOf(Pulled, cfg.prefix), cfg.maxTag, cfg.prefix) :
             IF found.status # "ok"
               THEN EndJob /\ UNCHANGED <<nMaxTag, strMaxTag, retryApply>>
               ELSE /\ nMaxTag' = found.n /\ strMaxTag' = found.tag
                    /\ retryApply' = RetriesFor(found)
                    /\ IF DoUpgrade(found) THEN Goto("checkout") ELSE Goto("tail")
  /\ UNCHANGED <<cfg, originalSHA, gitCurrentTag, checks, applied, file, repo, jobFile, remote,
                 worldVars>>

-----------------------------------------------------------------------------
(***************************************************************************)
(* The pipeline of an upgrade: check out, build, synchronise, deploy.      *)
(***************************************************************************)
AfterSync == IF cfg.deploy THEN "apply" ELSE "tail"
AfterBuild == IF cfg.sync THEN "sync" ELSE AfterSync
AfterCheckout == IF cfg.build THEN "build" ELSE AfterBuild

\* The default tag GetMaxTag starts from may be no tag of the repository.
Checkout ==
  /\ pc = "checkout"
  /\ IF strMaxTag \in GitTags /\ local[strMaxTag] # None
       THEN \/ Works /\ head' = local[strMaxTag] /\ Goto(AfterCheckout)
            \/ Fault /\ EndJob /\ head' \in {head, local[strMaxTag]}
       ELSE Works /\ EndJob /\ UNCHANGED head
  /\ UNCHANGED <<cfg, originalSHA, loopVars, file, local, repo, jobFile, remote, worldVars>>

\* DockerImageBuildx: docker buildx --push builds the work tree.
Pushed == [registry EXCEPT ![strMaxTag] = head]

\* Mutant: the error of the build is dropped.
BuildIgnoringErrors ==
  /\ pc = "build"
  /\ \/ Fault /\ UNCHANGED registry
     \/ Works /\ registry' = Pushed
  /\ Goto(AfterBuild)
  /\ UNCHANGED <<cfg, originalSHA, loopVars, file, gitVars, jobFile, remote, target, clusterTag, serving>>

\* A build that fails may have pushed already.  A job that only builds records
\* the release.
Build ==
  /\ pc = "build"
  /\ \/ /\ Fault /\ EndJob
        /\ registry' \in {registry, Pushed}
        /\ UNCHANGED <<gitCurrentTag, file>>
     \/ /\ registry' = Pushed
        /\ IF cfg.sync \/ cfg.deploy
             THEN Works /\ Goto(AfterBuild) /\ UNCHANGED <<gitCurrentTag, file>>
             ELSE BeginRecord(strMaxTag)
  /\ UNCHANGED <<cfg, originalSHA, nMaxTag, strMaxTag, retryApply, checks, applied, gitVars, jobFile,
                 remote, target, clusterTag, serving>>

\* Rsync: what a transfer that fails may leave: nothing done, all, a mixture.
RsyncLeaves == {target, head, None}

\* rsync --delete of the sub-folder.
Sync ==
  /\ pc = "sync"
  /\ \/ Works /\ target' = head /\ Goto(AfterSync)
     \/ Fault /\ target' \in RsyncLeaves /\ EndJob
  /\ UNCHANGED <<cfg, originalSHA, loopVars, file, gitVars, jobFile, remote, registry, clusterTag, serving>>

\* Render the manifest, switch the context and kubectl apply.  An apply that
\* fails may have updated the deployment.
Apply ==
  /\ pc = "apply"
  /\ applied' = [applied EXCEPT ![strMaxTag] = @ + 1]
  /\ \/ /\ Works /\ clusterTag' = strMaxTag
        /\ retryApply' = retryApply + 1 /\ checks' = 0
        /\ Goto("wait")
     \/ /\ Fault /\ clusterTag' \in {clusterTag, strMaxTag}
        /\ UNCHANGED <<retryApply, checks>>
        /\ EndJob
  /\ UNCHANGED <<cfg, originalSHA, gitCurrentTag, nMaxTag, strMaxTag, file, gitVars, jobFile, remote,
                 registry, target, serving>>

\* The attempts are counted before the wait: the fourth one ends the job.
AfterAttempt == IF retryApply > 3 THEN EndJob ELSE Goto("tail")

\* GetDeploymentReadinessStatus: the READY column, ready/desired, of the
\* deployment whose image matches, in the namespace test-app.  Pods of the
\* previous image are counted, so the answer may be yes before the roll-out
\* has finished.
Matched == cfg.testApp /\ clusterTag # None /\ GrepMatches(clusterTag, strMaxTag)
MayBeReady == Matched /\ serving.tag # None
MayBeUnready == Matched => serving.tag # clusterTag

\* Mutant: the loop makes one check too many.
CheckOnceMore ==
  /\ pc = "wait"
  /\ checks' = checks + 1
  /\ \/ Works /\ MayBeReady /\ Goto("verify")
     \/ /\ (Works /\ MayBeUnready) \/ Fault
        /\ IF checks < 5 THEN Goto("wait") ELSE AfterAttempt
  /\ UNCHANGED <<cfg, originalSHA, gitCurrentTag, nMaxTag, strMaxTag, retryApply, applied, file, gitVars,
                 jobFile, remote, worldVars>>

CheckReady ==
  /\ pc = "wait"
  /\ checks' = checks + 1
  /\ \/ Works /\ MayBeReady /\ Goto("verify")
     \/ /\ (Works /\ MayBeUnready) \/ Fault
        /\ IF checks < 4 THEN Goto("wait") ELSE AfterAttempt
  /\ UNCHANGED <<cfg, originalSHA, gitCurrentTag, nMaxTag, strMaxTag, retryApply, applied, file, gitVars,
                 jobFile, remote, worldVars>>

\* Mutant: any answer of the cluster will do.
VerifyAnyTag ==
  /\ pc = "verify" /\ clusterTag # None
  /\ BeginRecord(strMaxTag) /\ retryApply' = 0 /\ applied' = [applied EXCEPT ![strMaxTag] = 0]
  /\ UNCHANGED <<cfg, originalSHA, nMaxTag, strMaxTag, checks, gitVars, jobFile, remote, worldVars>>

\* The release is applied if the cluster now names its tag.
Verify ==
  /\ pc = "verify"
  /\ \/ /\ clusterTag # None /\ ImageTagOf(clusterTag, cfg.prefix) = [status |-> "ok", tag |-> strMaxTag]
        /\ BeginRecord(strMaxTag)
        /\ retryApply' = 0 /\ applied' = [applied EXCEPT ![strMaxTag] = 0]
     \/ \E answer \in ImageTagAnswers :
          /\ answer # [status |-> "ok", tag |-> strMaxTag]
          /\ GetImageTag(answer)
          /\ UNCHANGED <<gitCurrentTag, file, retryApply, applied>>
          /\ IF answer.status = "ok" THEN AfterAttempt ELSE EndJob
  /\ UNCHANGED <<cfg, originalSHA, nMaxTag, strMaxTag, checks, gitVars, jobFile, remote, worldVars>>

\* The second half of os.WriteFile.
Record ==
  /\ pc = "record"
  /\ \/ Works /\ file' = gitCurrentTag
     \/ Fault /\ UNCHANGED file
  /\ Goto("tail")
  /\ UNCHANGED <<cfg, originalSHA, loopVars, gitVars, jobFile, remote, worldVars>>

-----------------------------------------------------------------------------
(***************************************************************************)
(* The end of a round: has the job file changed?                           *)
(***************************************************************************)

\* Mutant: -oncerun is not looked at.
EndRoundIgnoringOnce ==
  /\ pc = "tail"
  /\ Works /\ IF CalculateSHA256 = originalSHA THEN Goto("poll") ELSE EndJob
  /\ UNCHANGED <<cfg, originalSHA, loopVars, file, gitVars, jobFile, remote, worldVars>>

EndRound ==
  /\ pc = "tail"
  /\ \/ FbOnce /\ Works /\ EndJob
     \/ ~FbOnce /\ Fault /\ EndJob
     \/ /\ ~FbOnce /\ Works
        /\ IF CalculateSHA256 = None THEN EndJob
           ELSE IF CalculateSHA256 = originalSHA THEN Goto("poll") ELSE Goto("reload")
  /\ UNCHANGED <<cfg, originalSHA, loopVars, file, gitVars, jobFile, remote, worldVars>>

\* What a new RunOneJob starts with.
FreshLoop ==
  /\ gitCurrentTag' = EmptyTag /\ strMaxTag' = EmptyTag
  /\ nMaxTag' = 0 /\ retryApply' = 0 /\ checks' = 0 /\ applied' = [t \in GitTags |-> 0]

\* Reading a nil configuration panics, and so does the deferred function that
\* logs the panic, which nothing recovers.  An inactive job keeps asking.  Starting the
\* job anew hashes the file later, in Begin.
Reload ==
  /\ pc = "reload"
  /\ \/ Fault /\ EndJob /\ UNCHANGED <<cfg, loopVars>>
     \/ /\ Works /\ getOneConfig = None
        /\ Goto("down") /\ UNCHANGED <<cfg, loopVars>>
     \/ /\ Works /\ getOneConfig # None
        /\ cfg' = getOneConfig
        /\ IF getOneConfig.active THEN Goto("start") /\ FreshLoop
                             ELSE Goto("reload") /\ UNCHANGED loopVars
  /\ UNCHANGED <<originalSHA, file, gitVars, jobFile, remote, worldVars>>

-----------------------------------------------------------------------------
(***************************************************************************)
(* Crashes, the supervisor that starts the process again, and the world.   *)
(***************************************************************************)
Crash ==
  /\ pc \notin {"done", "down"}
  /\ Happens("crash") /\ Goto("down")
  /\ UNCHANGED <<cfg, originalSHA, loopVars, file, gitVars, jobFile, remote, worldVars>>

\* The container is started again, on its old file system or on a new one.
Restart ==
  /\ pc \in {"done", "down"} /\ getOneConfig # None
  /\ cfg' = getOneConfig /\ originalSHA' = None /\ Goto("start") /\ FreshLoop
  /\ \/ UNCHANGED <<file, gitVars>>
     \/ /\ file' = None /\ repo' = "none" /\ head' = None
        /\ local' = [t \in GitTags |-> None]
  /\ UNCHANGED <<jobFile, remote, worldVars, used>>

JobStep ==
  \/ Begin \/ Store \/ OpenRepo \/ CloneRepo \/ Poll \/ Checkout \/ Build \/ Sync
  \/ Apply \/ CheckReady \/ Verify \/ Record \/ EndRound \/ Reload

jobVars == <<pc, cfg, originalSHA, loopVars, file, gitVars>>

\* A tag is published, moved to another commit or deleted.
Publish ==
  /\ Happens("push")
  /\ \E t \in GitTags, c \in Commits \cup {None} :
       remote[t] # c /\ remote' = [remote EXCEPT ![t] = c]
  /\ UNCHANGED <<jobVars, jobFile, worldVars>>

EditJobFile ==
  /\ Happens("edit")
  /\ jobFile' \in (Configs \cup {None}) \ {jobFile}
  /\ UNCHANGED <<jobVars, remote, worldVars>>

\* Somebody else sets the image of the deployment.
Drift ==
  /\ Happens("drift")
  /\ clusterTag' \in GitTags \ {clusterTag}
  /\ UNCHANGED <<jobVars, jobFile, remote, registry, target, serving>>

\* The cluster starts pods of the image in the spec.  It does so for a changed
\* spec: an image pushed again under its old tag starts no pod.  The images of
\* a job that does not build are there.
Rollout ==
  /\ clusterTag # None /\ serving.tag # clusterTag
  /\ cfg.build => registry[clusterTag] # None
  /\ serving' = [tag |-> clusterTag, commit |-> registry[clusterTag]]
  /\ UNCHANGED <<jobVars, jobFile, remote, registry, target, clusterTag, used>>

Next == JobStep \/ Crash \/ Restart \/ Publish \/ EditJobFile \/ Drift \/ Rollout

Spec == Init /\ [][Next]_vars

\* A goroutine that can run does, the supervisor starts a process that ended,
\* and the cluster rolls out what it can.  Nobody has to push or edit.
Fairness == WF_vars(JobStep) /\ WF_vars(Restart) /\ WF_vars(Rollout)

FairSpec == Spec /\ Fairness

-----------------------------------------------------------------------------
(***************************************************************************)
(* What makes the job correct.                                             *)
(***************************************************************************)
Num(tag) == ConvertTagToNumeric(tag, cfg.prefix).n

Pipeline == {"checkout", "build", "sync", "apply", "wait", "verify"}
Loop == Pipeline \cup {"poll", "record", "tail"}

\* While a release is applied, checked and recorded, the image pushed under
\* its tag and the synchronised folder come from the commit that tag has in
\* the local clone, whatever was pushed, moved or broken in the meantime: no
\* stage goes on after a failed build or transfer.
ReleaseIsWhatTagSays ==
  pc \in {"apply", "wait", "verify", "record"} =>
    /\ head # None /\ head = local[strMaxTag]
    /\ cfg.build => registry[strMaxTag] = head
    /\ cfg.sync => target = head

\* No release above GIT_MAX_TAG of the configuration in force is processed,
\* also right after the limit was lowered; the one exception is v1.0.0, from
\* which GetMaxTag starts without looking at the limit.
UnderMaxTag ==
  pc \in Pipeline =>
    Num(strMaxTag) <= Num(cfg.maxTag) \/ strMaxTag = Version("v", 1, 0, 0)

\* Once the loop of a job runs, the tag it takes for applied only grows: going
\* back to an older release takes a new start of RunOneJob.
OnlyForward ==
  [][(pc \in Loop /\ pc' \in Loop /\ gitCurrentTag' # gitCurrentTag) =>
       Num(gitCurrentTag') > Num(gitCurrentTag)]_vars

\* One run of the job applies a release at most four times before it records
\* it or ends.  The counter alone does not say so: another release starts it
\* from zero, but as pull deletes no tag, a release that was passed does not
\* become the greatest again.
AppliesBounded == \A t \in GitTags : applied[t] <= 4

\* As long as no command failed, the start-tag file holds the tag the job
\* takes for applied, so that a restart goes on from there: the file is only
\* out of step while it is being written.
StoredTagIsCurrent ==
  (used["fault"] = 0 /\ pc \in (Loop \ {"record"}) \cup {"open", "clone"}) =>
    file = gitCurrentTag

\* Between two runs of the job its files are fit for the next one, unless a
\* step was cut off: only a crash leaves a clone that is not complete, and only
\* a crash or a failed write an empty start-tag file, if no job file asks to
\* start from "".  Edits, drift, lowered limits and early ends do not.
LeavesUsableFiles ==
  pc \in {"start", "done", "down"} =>
    /\ repo = "partial" => used["crash"] > 0
    /\ file = EmptyTag =>
         used["crash"] + used["fault"] > 0 \/ \E c \in Configs : c.startTag = EmptyTag

\* -oncerun makes one round: no release is applied a second time.
OnceMeansOneRound == FbOnce => retryApply <= 1 /\ pc # "reload"

-----------------------------------------------------------------------------
(***************************************************************************)
(* Progress.                                                               *)
(***************************************************************************)

\* The published releases the job may deliver, and whether the newest or a
\* newer one is delivered.
Deliverable == Eligible(TagsOf(remote, cfg.prefix), cfg.maxTag, cfg.prefix)
Newest(tag) == tag # None /\ \A t \in Deliverable : Num(t) <= Num(tag)

UpToDate ==
  Deliverable # {} =>
    IF cfg.deploy
      THEN /\ Newest(clusterTag) /\ serving.tag = clusterTag
           /\ Num(clusterTag) <= Num(cfg.maxTag)
      ELSE cfg.build => \E t \in GitTags : registry[t] # None /\ Newest(t)

\* The two ways a failure leaves files behind with which the job cannot start:
\* a start-tag file that is empty, unless the cluster knows the tag, and a
\* clone that was cut off.
CannotStart ==
  \/ repo = "partial"
  \/ file = EmptyTag /\ (cfg.deploy => clusterTag = None)

\* A job that only built recorded the release: when the job file asks for a
\* deployment later, and the cluster does not tell its tag, as there is no
\* deployment yet or as kubectl failed, the release counts as delivered.
SkippedDeployment ==
  /\ cfg.deploy /\ file \notin {None, clusterTag} /\ Newest(file)
  /\ clusterTag = None \/ used["fault"] > 0

\* Whatever fails a bounded number of times, the newest release under the
\* limit is in the end delivered and stays delivered, also if that means to
\* go back to an older one or if the job file changes its stages; the
\* exceptions are the leftovers of CannotStart, SkippedDeployment and a job
\* file that is gone or not active.
EventuallyUpToDate ==
  <>[](UpToDate \/ CannotStart \/ SkippedDeployment \/ jobFile = None \/ ~cfg.active)

\* The tag GetImageTag reads from an image of the release is the release: not
\* so for a patch number above 99.
ReadsBack(tag) == ImageTagOf(tag, cfg.prefix) = [status |-> "ok", tag |-> tag]

\* When nothing is pushed, edited or broken any more, the job comes to rest:
\* it does not check out, build or apply the same release again and again.
\* The exceptions are a job that synchronises without deploying, which never
\* records its release; a deployed release that does not read back; and a
\* repository without a release under the limit, where the default of
\* GetMaxTag cannot be checked out.
EventuallyQuiet ==
  <>[](\/ pc \notin Pipeline
       \/ cfg.sync /\ ~cfg.deploy
       \/ cfg.deploy /\ \E t \in Deliverable : ~ReadsBack(t)
       \/ Deliverable = {})

-----------------------------------------------------------------------------
(***************************************************************************)
(* What comments and messages of the code say and the code does not do.    *)
(***************************************************************************)

\* "we write calculated start tag to file for future using": a start from the
\* file finds a version there.
StartsFromAVersion ==
  pc = "open" => ConvertTagToNumeric(gitCurrentTag, cfg.prefix).status = "ok"

\* "release %s applyed successfully", said after the readiness check: pods of
\* the release are ready.
AppliedIsServing ==
  (pc = "record" /\ cfg.deploy) => serving.tag = gitCurrentTag

\* "suspend job if now it is not active in job's config file"
InactiveJobIsSuspended ==
  <>[](jobFile # None /\ ~jobFile.active) => <>[](pc # "poll")

\* "job '%v' completes with fatal error": a panic of a job ends the job, and
\* only a crash the process.
PanicEndsOnlyTheJob == used["crash"] = 0 => pc # "down"
=============================================================================
