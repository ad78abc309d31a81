-------------------------- MODULE JobDeliveryProofs --------------------------
(***************************************************************************)
(* The job implements Delivery, for every set of tags, commits and job     *)
(* files: every step of the job is a step of Delivery or leaves it alone.  *)
(* Outside the stages nothing is taken up, so that a start of the job may  *)
(* record what it likes; in the stages JobInv and StageAsked give what     *)
(* Delivery asks for.                                                      *)
(***************************************************************************)
EXTENDS JobDelivery, JobProofs

\* A stage is entered only if the job file asks for it.
StageAsked ==
  /\ pc = "build" => cfg.build
  /\ pc = "sync" => cfg.sync
  /\ pc \in {"apply", "wait", "verify"} => cfg.deploy

\* The variables of Delivery that are variables of the job.
Delivered == <<registry, target, clusterTag, gitCurrentTag>>

-----------------------------------------------------------------------------
(***************************************************************************)
(* Only the steps of the pipeline enter a stage.                           *)
(***************************************************************************)
LEMMA StageAskedKept ==
  ASSUME JobInv, StageAsked, [Next]_vars
  PROVE  StageAsked'
<1>1. CASE pc' \notin {"build", "sync", "apply", "wait", "verify"}
  BY <1>1 DEF StageAsked
<1>2. CASE Checkout
  BY <1>2 DEF Checkout, StageAsked, Goto, EndJob, AfterCheckout, AfterBuild, AfterSync
<1>3. CASE Build
  BY <1>3 DEF Build, StageAsked, Goto, EndJob, AfterBuild, AfterSync, BeginRecord
<1>4. CASE Sync
  BY <1>4 DEF Sync, StageAsked, Goto, EndJob, AfterSync
<1>5. CASE Apply
  BY <1>5 DEF Apply, StageAsked, Goto, EndJob
<1>6. CASE CheckReady
  BY <1>6 DEF CheckReady, StageAsked, Goto, EndJob, AfterAttempt
<1>7. CASE UNCHANGED <<pc, cfg>>
  BY <1>7 DEF StageAsked
<1>8. CASE Verify
  BY <1>1, <1>8 DEF Verify, BeginRecord, Goto, EndJob, AfterAttempt
<1>9. CASE Begin \/ Store \/ OpenRepo \/ CloneRepo
  BY <1>1, <1>9, BeginType DEF JobInv, Store, OpenRepo, CloneRepo, EnterLoop, Goto, EndJob
<1>10. CASE Poll \/ Record \/ EndRound \/ Reload \/ Crash \/ Restart
  BY <1>1, <1>10 DEF Poll, Record, EndRound, Reload, Crash, Restart, Goto, EndJob
<1>11. CASE Publish \/ EditJobFile \/ Drift \/ Rollout
  BY <1>7, <1>11 DEF Publish, EditJobFile, Drift, Rollout, jobVars
<1> QED
  BY <1>2, <1>3, <1>4, <1>5, <1>6, <1>7, <1>8, <1>9, <1>10, <1>11 DEF Next, JobStep, vars

-----------------------------------------------------------------------------
(***************************************************************************)
(* Kinds of steps.                                                         *)
(***************************************************************************)

\* Outside the stages: Delivery starts over.
LEMMA OutsideStages ==
  ASSUME ~Working, ~Working', gitCurrentTag' \in Tag, UNCHANGED <<registry, target, clusterTag>>
  PROVE  D!StartOver
BY DEF D!StartOver, Work

\* The stages are left and nothing else happens.
LEMMA LeavesStages ==
  ASSUME ~Working', UNCHANGED Delivered
  PROVE  D!Abandon
BY DEF D!Abandon, D!GiveUp, Work, Delivered

\* Nothing of what was taken up changes.
LEMMA SameWork ==
  ASSUME UNCHANGED <<pc, cfg, strMaxTag, head>>
  PROVE  Work' = Work
BY DEF Work, Working, Needs, Behind

\* What is taken up in a stage, and what Delivery finds in it.
LEMMA WorkInStage ==
  ASSUME JobInv, Working
  PROVE  /\ Work # None
         /\ Work = [tag |-> strMaxTag, commit |-> head, needs |-> Needs, done |-> Needs \cap Behind]
         /\ strMaxTag \in GitTags /\ head \in Commits
<1>1. strMaxTag \in GitTags /\ head \in Commits
  BY DEF JobInv, CheckedOut, Working, TypeOK
<1>2. Work = [tag |-> strMaxTag, commit |-> head, needs |-> Needs, done |-> Needs \cap Behind]
  BY DEF Work
<1>3. Needs \in SUBSET {"build", "sync", "deploy"}
  BY DEF Needs
<1>4. Needs \cap Behind \in SUBSET {"build", "sync", "deploy"}
  BY <1>3
<1>5. Work \in [tag : GitTags, commit : Commits, needs : SUBSET {"build", "sync", "deploy"},
                done : SUBSET {"build", "sync", "deploy"}]
  BY <1>1, <1>2, <1>3, <1>4
<1>6. Work # None
  BY <1>5, NoneIsNoWork
<1> QED
  BY <1>1, <1>2, <1>6

-----------------------------------------------------------------------------
(***************************************************************************)
(* The steps of the pipeline.                                              *)
(***************************************************************************)
LEMMA CheckoutImplements ==
  ASSUME JobInv, JobInv', Checkout
  PROVE  D!Take \/ D!StartOver
<1>1. ~Working /\ UNCHANGED Delivered /\ gitCurrentTag' \in Tag /\ cfg' = cfg
  BY DEF Checkout, Working, Delivered, loopVars, worldVars, JobInv, TypeOK
<1>2. CASE ~Working'
  BY <1>1, <1>2, OutsideStages DEF Delivered
<1>3. CASE Working'
  <2>1. /\ strMaxTag' \in GitTags /\ head' \in Commits
        /\ Work' = [tag |-> strMaxTag', commit |-> head', needs |-> Needs',
                    done |-> Needs' \cap Behind']
    BY <1>3 DEF JobInv, CheckedOut, Working, TypeOK, Work
  <2>2. pc' = AfterCheckout /\ pc' # "tail"
    BY <1>3 DEF Checkout, Goto, EndJob, Working
  <2>3. Needs' \in (SUBSET D!Stages) \ {{}} /\ Needs' \cap Behind' = {}
    BY <1>1, <2>2 DEF Needs, Behind, D!Stages, AfterCheckout, AfterBuild, AfterSync
  <2> QED
    BY <1>1, <2>1, <2>3 DEF D!Take, Work, Delivered
<1> QED
  BY <1>2, <1>3
\* What Build, Sync and Apply need of the stages before them.
LEMMA StageIsDue ==
  ASSUME JobInv, StageAsked
  PROVE  /\ pc = "build" => D!Due("build")
         /\ pc = "sync" => D!Due("sync")
         /\ pc = "apply" => D!Due("deploy")
<1>1. CASE pc = "build"
  BY <1>1, WorkInStage DEF Working, StageAsked, Needs, Behind, D!Due, D!Before
<1>2. CASE pc = "sync"
  BY <1>2, WorkInStage DEF Working, StageAsked, Needs, Behind, D!Due, D!Before
<1>3. CASE pc = "apply"
  BY <1>3, WorkInStage DEF Working, StageAsked, Needs, Behind, D!Due, D!Before
<1> QED
  BY <1>1, <1>2, <1>3

\* From one stage to the next, with one more stage behind.
LEMMA NextStage ==
  ASSUME JobInv, Working, Working', UNCHANGED <<cfg, strMaxTag, head>>, NEW stage,
         Needs \cap Behind' = (Needs \cap Behind) \cup {stage}
  PROVE  D!Advance(stage)
<1>1. Work = [tag |-> strMaxTag, commit |-> head, needs |-> Needs, done |-> Needs \cap Behind]
  BY DEF Work
<1>2. Needs' = Needs
  BY DEF Needs
<1>3. Work' = [tag |-> strMaxTag, commit |-> head, needs |-> Needs, done |-> Needs \cap Behind']
  BY <1>2 DEF Work
<1> QED
  BY <1>1, <1>3 DEF D!Advance

LEMMA BuildImplements ==
  ASSUME JobInv, StageAsked, Build
  PROVE  D!Build \/ D!Abandon
<1>1. /\ pc = "build" /\ Working /\ D!Due("build")
      /\ Work.tag = strMaxTag /\ Work.commit = head /\ Work.needs = Needs
      /\ UNCHANGED <<cfg, strMaxTag, head, target, clusterTag>>
  BY StageIsDue, WorkInStage DEF Build, Working, gitVars
<1>2. CASE registry' = registry /\ EndJob /\ UNCHANGED gitCurrentTag
  BY <1>1, <1>2, LeavesStages DEF EndJob, Working, Delivered
<1>3. CASE registry' = Pushed /\ EndJob /\ UNCHANGED gitCurrentTag
  <2>1. D!GiveUp
    BY <1>3 DEF EndJob, D!GiveUp, Work, Working
  <2> QED
    BY <1>1, <1>3, <2>1 DEF D!Build, Pushed
<1>4. CASE /\ registry' = Pushed /\ (cfg.sync \/ cfg.deploy)
           /\ Goto(AfterBuild) /\ UNCHANGED gitCurrentTag
  <2>1. Working' /\ Needs \cap Behind' = (Needs \cap Behind) \cup {"build"}
    BY <1>1, <1>4 DEF Goto, AfterBuild, AfterSync, Working, Behind, Needs, StageAsked
  <2>2. D!Advance("build")
    BY <1>1, <2>1, NextStage
  <2> QED
    BY <1>1, <1>4, <2>2 DEF D!Build, Pushed
<1>5. CASE registry' = Pushed /\ ~(cfg.sync \/ cfg.deploy) /\ BeginRecord(strMaxTag)
  <2>1. Needs = {"build"}
    BY <1>1, <1>5 DEF Needs, StageAsked
  <2>2. Work' = None /\ gitCurrentTag' = strMaxTag
    BY <1>5 DEF BeginRecord, Goto, Work, Working
  <2> QED
    BY <1>1, <1>5, <2>1, <2>2 DEF D!Build, Pushed
<1> QED
  BY <1>2, <1>3, <1>4, <1>5 DEF Build

LEMMA SyncImplements ==
  ASSUME JobInv, StageAsked, Sync
  PROVE  D!Sync \/ D!Abandon
<1>1. /\ pc = "sync" /\ Working /\ D!Due("sync") /\ Work.commit = head
      /\ UNCHANGED <<cfg, strMaxTag, head, registry, clusterTag, gitCurrentTag>>
  BY StageIsDue, WorkInStage DEF Sync, Working, gitVars, loopVars
<1>2. CASE target' = head /\ cfg.deploy /\ Goto("apply")
  <2>1. Working' /\ Needs \cap Behind' = (Needs \cap Behind) \cup {"sync"}
    BY <1>1, <1>2 DEF Goto, Working, Behind, Needs, StageAsked
  <2>2. D!Advance("sync")
    BY <1>1, <2>1, NextStage
  <2> QED
    BY <1>1, <1>2, <2>2 DEF D!Sync
<1>3. CASE target' \in RsyncLeaves /\ pc' \in {"done", "tail"}
  <2>1. D!GiveUp /\ ~Working'
    BY <1>3 DEF D!GiveUp, Work, Working
  <2>2. CASE target' = target
    BY <1>1, <2>1, <2>2, LeavesStages DEF Delivered
  <2>3. CASE target' \in {head, None}
    BY <1>1, <2>1, <2>3 DEF D!Sync
  <2> QED
    BY <1>3, <2>2, <2>3 DEF RsyncLeaves
<1> QED
  BY <1>2, <1>3 DEF Sync, AfterSync, Goto, EndJob, RsyncLeaves

LEMMA ApplyImplements ==
  ASSUME JobInv, StageAsked, Apply
  PROVE  D!Deploy \/ D!Abandon
<1>1. /\ pc = "apply" /\ Working /\ D!Due("deploy") /\ Work.tag = strMaxTag
      /\ UNCHANGED <<cfg, strMaxTag, head, registry, target, gitCurrentTag>>
  BY StageIsDue, WorkInStage DEF Apply, Working, gitVars
<1>2. CASE clusterTag' = strMaxTag /\ Goto("wait")
  <2>1. Working' /\ Needs \cap Behind' = (Needs \cap Behind) \cup {"deploy"}
    BY <1>1, <1>2 DEF Goto, Working, Behind, Needs, StageAsked
  <2>2. D!Advance("deploy")
    BY <1>1, <2>1, NextStage
  <2> QED
    BY <1>1, <1>2, <2>2 DEF D!Deploy
<1>3. CASE clusterTag' \in {clusterTag, strMaxTag} /\ EndJob
  <2>1. D!GiveUp /\ ~Working'
    BY <1>3 DEF EndJob, D!GiveUp, Work, Working
  <2>2. CASE clusterTag' = clusterTag
    BY <1>1, <2>1, <2>2, LeavesStages DEF Delivered
  <2>3. CASE clusterTag' = strMaxTag
    BY <1>1, <2>1, <2>3 DEF D!Deploy
  <2> QED
    BY <1>3, <2>2, <2>3
<1> QED
  BY <1>2, <1>3 DEF Apply

\* The readiness checks change nothing, or give up.
LEMMA CheckReadyImplements ==
  ASSUME CheckReady
  PROVE  D!Abandon \/ UNCHANGED D!vars
<1>1. UNCHANGED Delivered /\ UNCHANGED <<cfg, strMaxTag, head>> /\ pc = "wait"
  BY DEF CheckReady, Delivered, gitVars, worldVars
<1>2. CASE pc' \in {"done", "tail"}
  BY <1>1, <1>2, LeavesStages DEF Working
<1>3. CASE pc' \in {"wait", "verify"}
  <2>1. Work' = Work
    BY <1>1, <1>3 DEF Work, Working, Needs, Behind
  <2> QED
    BY <1>1, <2>1 DEF D!vars, Delivered
<1> QED
  BY <1>2, <1>3 DEF CheckReady, Goto, AfterAttempt, EndJob

\* The release is recorded only if the cluster confirms it.
LEMMA VerifyImplements ==
  ASSUME JobInv, Verify
  PROVE  D!Finish \/ D!Abandon
<1>1. /\ pc = "verify" /\ Working /\ Work # None /\ Work.tag = strMaxTag
      /\ Work.done = Work.needs
      /\ UNCHANGED <<registry, target, clusterTag>>
  BY WorkInStage DEF Verify, Working, worldVars, Behind, Needs
<1>2. CASE /\ clusterTag # None /\ BeginRecord(strMaxTag)
           /\ ImageTagOf(clusterTag, cfg.prefix) = [status |-> "ok", tag |-> strMaxTag]
  <2>1. ConfirmsRelease(clusterTag, strMaxTag)
    BY <1>2, ConfigType DEF JobInv, TypeOK, ConfirmsRelease
  <2>2. Work' = None /\ gitCurrentTag' = strMaxTag
    BY <1>2 DEF BeginRecord, Goto, Work, Working
  <2> QED
    BY <1>1, <2>1, <2>2 DEF D!Finish
<1>3. CASE pc' \in {"done", "tail"} /\ UNCHANGED gitCurrentTag
  BY <1>1, <1>3, LeavesStages DEF Working, Delivered
<1> QED
  BY <1>2, <1>3 DEF Verify, AfterAttempt, Goto, EndJob
-----------------------------------------------------------------------------
(***************************************************************************)
(* The other steps.                                                        *)
(***************************************************************************)

\* The start of the job, the look for a release and the end of the round.
LEMMA OtherStepsImplement ==
  ASSUME JobInv, JobInv',
         Begin \/ Store \/ OpenRepo \/ CloneRepo \/ Poll \/ Record \/ EndRound \/ Reload \/ Restart
  PROVE  D!StartOver
<1>1. gitCurrentTag' \in Tag
  BY DEF JobInv, TypeOK
<1>2. ~Working /\ ~Working' /\ UNCHANGED <<registry, target, clusterTag>>
  <2>1. CASE Begin
    BY <2>1, BeginType DEF JobInv, Begin, Working, worldVars
  <2>2. CASE Store \/ OpenRepo \/ CloneRepo
    BY <2>2 DEF Store, OpenRepo, CloneRepo, EnterLoop, Goto, EndJob, Working, worldVars
  <2>3. CASE Poll
    BY <2>3 DEF Poll, Goto, EndJob, Working, worldVars
  <2>4. CASE Record \/ EndRound \/ Reload \/ Restart
    BY <2>4 DEF Record, EndRound, Reload, Restart, Goto, EndJob, Working, worldVars
  <2> QED
    BY <2>1, <2>2, <2>3, <2>4
<1> QED
  BY <1>1, <1>2, OutsideStages

LEMMA CrashImplements ==
  ASSUME Crash
  PROVE  D!Abandon
BY LeavesStages DEF Crash, Goto, Working, Delivered, loopVars, worldVars

LEMMA WorldImplements ==
  ASSUME JobInv', Publish \/ EditJobFile \/ Drift \/ Rollout
  PROVE  D!Drift \/ UNCHANGED D!vars
<1>1. Work' = Work /\ UNCHANGED <<registry, target, gitCurrentTag>>
  BY SameWork DEF Publish, EditJobFile, Drift, Rollout, jobVars, loopVars, gitVars, worldVars
<1>2. clusterTag' \in GitTags \/ clusterTag' = clusterTag
  BY DEF Publish, EditJobFile, Drift, Rollout, worldVars
<1> QED
  BY <1>1, <1>2 DEF D!Drift, D!vars

\* Every step of the job is a step of Delivery, or none.
LEMMA StepImplements ==
  ASSUME JobInv, JobInv', StageAsked, [Next]_vars
  PROVE  [D!Next]_(D!vars)
<1>1. CASE Checkout \/ Build \/ Sync \/ Apply \/ CheckReady \/ Verify
  BY <1>1, CheckoutImplements, BuildImplements, SyncImplements, ApplyImplements,
     CheckReadyImplements, VerifyImplements DEF D!Next
<1>2. CASE Begin \/ Store \/ OpenRepo \/ CloneRepo \/ Poll \/ Record \/ EndRound \/ Reload \/ Restart
  BY <1>2, OtherStepsImplement DEF D!Next
<1>3. CASE Crash
  BY <1>3, CrashImplements DEF D!Next
<1>4. CASE Publish \/ EditJobFile \/ Drift \/ Rollout
  BY <1>4, WorldImplements DEF D!Next
<1>5. CASE UNCHANGED vars
  BY <1>5, SameWork DEF vars, loopVars, gitVars, worldVars, D!vars
<1> QED
  BY <1>1, <1>2, <1>3, <1>4, <1>5 DEF Next, JobStep

\* Nothing is taken up at the start.
LEMMA InitImplements == Init => D!Init /\ StageAsked
BY EmptyTagIsTag DEF Init, D!Init, Work, Working, StageAsked

\* RunOneJob, with every failure, crash, push and edit around it, implements
\* Delivery: the stages of a release happen in order, on one commit, and the
\* release is recorded only after all of them.
THEOREM DeliveryImplemented == Spec => ImplementsDelivery
<1>1. JobInv /\ StageAsked /\ [Next]_vars => StageAsked'
  BY StageAskedKept
<1>2. JobInv /\ JobInv' /\ StageAsked /\ [Next]_vars => [D!Next]_(D!vars)
  BY StepImplements
<1> QED
  BY <1>1, <1>2, InitImplements, JobInvHolds, PTL DEF Spec, D!Spec, ImplementsDelivery
=============================================================================
