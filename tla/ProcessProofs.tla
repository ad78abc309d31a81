---------------------------- MODULE ProcessProofs ----------------------------
(***************************************************************************)
(* Safety of the process for any number of jobs, kubeconfig files and      *)
(* contexts.  None of the properties is inductive; ProcessInv adds what a  *)
(* job may rely on at each place although its neighbours share the state.  *)
(***************************************************************************)
EXTENDS Process, FiniteSetTheorems, TLAPS

\* The calls of RunOneJob that have still to return are counted.
Running == {j \in Jobs : pc[j] \notin {"new", "ended"}}
Counted == wg = Cardinality(Running) + Cardinality(leaving)

\* main waits once all jobs are started.
AllStarted ==
  proc \in {"waiting", "interrupted", "returned"} => \A j \in Jobs : pc[j] # "new"

\* Places only a deploying job gets to.
DeployStages == {"context", "ask", "chdir home", "render", "switch", "apply", "ready", "confirm", "check"}
OwnStages == \A j \in Jobs : pc[j] \in DeployStages => j \in Deployers

\* If there is one cluster, KUBECONFIG is not set for another one; it is set,
\* and later the context selected, when a deploying job needs it.
Outside == {"new", "begin", "returning", "ended"}
ClusterFileSet ==
  OneCluster =>
    /\ kubeconfig # DefaultFile => \E j \in Deployers : kubeconfig = EffectiveFile(j)
    /\ \A j \in Deployers : pc[j] \notin Outside => kubeconfig = EffectiveFile(j)
Selected == Asking \cup {"confirm"}
ContextSet ==
  OneCluster => \A j \in Jobs : pc[j] \in Selected => context[kubeconfig] = ContextOf[j]

\* The job that started the agent in use connects to it before it adds its key.
AgentKept ==
  sock # None =>
    /\ pc[sock] = "add key" => dialed[sock] = sock
    /\ pc[sock] \in PastAgent => sock \in keys[sock]

ProcessInv ==
  /\ TypeOK /\ Counted /\ AllStarted /\ OwnStages /\ ClusterFileSet /\ ContextSet
  /\ AgentKept

-----------------------------------------------------------------------------
(***************************************************************************)
(* Types.                                                                  *)
(***************************************************************************)
\* What a step of one job does to the control of the process.
LEMMA MoveType ==
  ASSUME TypeOK, NEW j \in Jobs, NEW from, NEW to \in Stages, Move(j, from, to)
  PROVE  /\ proc' \in {"starting", "waiting", "interrupted", "returned", "down"}
         /\ wg' \in Int /\ pc' \in [Jobs -> Stages] /\ leaving' \subseteq Jobs
BY DEF TypeOK, Move

LEMMA SharedType ==
  ASSUME TypeOK, UNCHANGED shared,
         proc' \in {"starting", "waiting", "interrupted", "returned", "down"},
         wg' \in Int, pc' \in [Jobs -> Stages], leaving' \subseteq Jobs
  PROVE  TypeOK'
BY DEF TypeOK, shared

\* A step that moves one job and counts.
LEMMA CountStepType ==
  ASSUME TypeOK, NEW j \in Jobs, NEW to \in Stages, pc' \in {pc, [pc EXCEPT ![j] = to]},
         wg' \in {wg + 1, wg - 1}, leaving' \in {leaving, leaving \cup {j}, leaving \ {j}},
         proc' \in {proc, "starting", "waiting"}, UNCHANGED shared
  PROVE  TypeOK'
<1>1. pc' \in [Jobs -> Stages]
  BY DEF TypeOK
<1>2. wg' \in Int
  BY DEF TypeOK
<1>3. leaving' \subseteq Jobs
  BY DEF TypeOK
<1>4. proc' \in {"starting", "waiting", "interrupted", "returned", "down"}
  BY DEF TypeOK
<1> QED
  BY <1>1, <1>2, <1>3, <1>4, SharedType

LEMMA KubectxType ==
  ASSUME TypeOK, NEW j \in Jobs, Kubectx(j)
  PROVE  context' \in [Files -> Contexts]
BY ProcessAssumption DEF TypeOK, Kubectx

\* A step of a job that only moves, or also selects its context.
LEMMA ContextStepType ==
  ASSUME TypeOK, NEW j \in Jobs, NEW from, NEW to \in Stages, Move(j, from, to),
         context' = context \/ Kubectx(j),
         UNCHANGED <<cwd, kubeconfig, sock, dialed, keys, err, dockerConfig>>
  PROVE  TypeOK'
<1>1. context' \in [Files -> Contexts]
  BY KubectxType DEF TypeOK
<1> QED
  BY <1>1, MoveType DEF TypeOK

LEMMA JobStepType ==
  ASSUME TypeOK, NEW j \in Jobs, JobStep(j)
  PROVE  TypeOK'
<1> USE DEF Stages
<1>1. CASE Begin(j)
  <2>1. kubeconfig' \in Files
    BY <1>1, ProcessAssumption DEF Begin, TypeOK
  <2> QED
    BY <1>1, <2>1, MoveType DEF Begin, AfterBegin, TypeOK
<1>2. CASE SwitchAtStart(j) \/ Switch(j) \/ Ready(j) \/ Confirm(j)
  BY <1>2, ContextStepType DEF SwitchAtStart, Switch, Ready, PipedKubectx, Confirm, shared
<1>3. CASE AskCluster(j) \/ TestAgent(j) \/ Pull(j) \/ SetAuth(j)
  BY <1>3, MoveType, SharedType DEF AskCluster, TestAgent, Pull, AfterPull, AfterBuild, SetAuth
<1>4. CASE StartAgent(j) \/ Dial(j)
  BY <1>4, MoveType DEF StartAgent, Dial, TypeOK
<1>5. CASE AddKey(j)
  <2>1. keys' \in [Jobs -> SUBSET Jobs]
    BY <1>5 DEF AddKey, TypeOK
  <2> QED
    BY <1>5, <2>1, MoveType DEF AddKey, TypeOK
<1>6. CASE ChdirPull(j) \/ ChdirBuild(j) \/ ChdirHome(j)
  BY <1>6, MoveType DEF ChdirPull, ChdirBuild, ChdirHome, TypeOK
<1>7. CASE CreateDockerConfig(j) \/ CopyDockerConfig(j)
  BY <1>7, MoveType, SharedType DEF CreateDockerConfig, CopyDockerConfig, TypeOK
<1>8. CASE TestErr(j) \/ ReturnErr(j) \/ Render(j) \/ Apply(j) \/ Check(j) \/ NextRound(j)
  BY <1>8, MoveType, SharedType DEF TestErr, ReturnErr, AfterBuild, Render, Apply, Check, NextRound
<1>9. CASE Build(j)
  BY <1>9, MoveType DEF Build, TypeOK
<1>10. CASE Fail(j)
  BY <1>10, MoveType, SharedType DEF Fail, Stop
<1>11. CASE Reload(j)
  BY <1>11, CountStepType DEF Reload
<1>12. CASE ReloadOfNothing(j)
  BY <1>12, SharedType DEF ReloadOfNothing, TypeOK
<1> QED
  BY <1>1, <1>2, <1>3, <1>4, <1>5, <1>6, <1>7, <1>8, <1>9, <1>10, <1>11, <1>12 DEF JobStep

LEMMA NextType ==
  ASSUME TypeOK, [Next]_vars
  PROVE  TypeOK'
<1>1. CASE \E j \in Jobs : JobStep(j)
  BY <1>1, JobStepType
<1>2. CASE \E j \in Jobs : DoneAfterReload(j) \/ Done(j) \/ StartJob(j)
  BY <1>2, CountStepType DEF DoneAfterReload, Done, StartJob, Stages
<1>3. CASE MainReturns \/ Exit \/ Kill
  BY <1>3, SharedType DEF MainReturns, Exit, Kill, TypeOK
<1>4. CASE Interrupt
  BY <1>4 DEF Interrupt, TypeOK
<1>5. CASE Restart
  <2>1. pc' \in [Jobs -> Stages] /\ dialed' \in [Jobs -> Jobs \cup {None}]
    BY <1>5 DEF Restart, Stages
  <2>2. keys' \in [Jobs -> SUBSET Jobs] /\ err' \in BOOLEAN
    BY <1>5 DEF Restart
  <2>3. /\ context' \in [Files -> Contexts] /\ kubeconfig' \in Files
        /\ dockerConfig' \in {"none", "partial", "full"}
    BY <1>5, ProcessAssumption DEF Restart, TypeOK
  <2> QED
    BY <1>5, <2>1, <2>2, <2>3 DEF Restart, TypeOK
<1>6. CASE UNCHANGED vars
  BY <1>6, SharedType DEF vars, TypeOK
<1> QED
  BY <1>1, <1>2, <1>3, <1>4, <1>5, <1>6 DEF Next
-----------------------------------------------------------------------------
(***************************************************************************)
(* The WaitGroup.                                                          *)
(***************************************************************************)

\* Every step of a job moves it between places inside RunOneJob, but for the
\* two ways a reload may go.
LEMMA JobStepMoves ==
  ASSUME NEW j \in Jobs, JobStep(j)
  PROVE  \/ Reload(j) \/ ReloadOfNothing(j)
         \/ \E from, to \in Stages \ {"new", "ended"} : Move(j, from, to)
<1> USE DEF Stages
<1>1. CASE Begin(j) \/ SwitchAtStart(j) \/ AskCluster(j)
  BY <1>1 DEF Begin, AfterBegin, SwitchAtStart, AskCluster
<1>2. CASE TestAgent(j) \/ StartAgent(j) \/ Dial(j) \/ AddKey(j)
  BY <1>2 DEF TestAgent, StartAgent, Dial, AddKey
<1>3. CASE ChdirPull(j) \/ Pull(j) \/ SetAuth(j) \/ CreateDockerConfig(j) \/ CopyDockerConfig(j)
  BY <1>3 DEF ChdirPull, Pull, AfterPull, AfterBuild, SetAuth, CreateDockerConfig, CopyDockerConfig
<1>4. CASE ChdirBuild(j) \/ TestErr(j) \/ Build(j) \/ ReturnErr(j)
  BY <1>4 DEF ChdirBuild, TestErr, Build, ReturnErr, AfterBuild
<1>5. CASE ChdirHome(j) \/ Render(j) \/ Switch(j) \/ Apply(j)
  BY <1>5 DEF ChdirHome, Render, Switch, Apply
<1>6. CASE Ready(j) \/ Confirm(j) \/ Check(j) \/ NextRound(j)
  BY <1>6 DEF Ready, Confirm, Check, NextRound
<1>7. CASE Fail(j)
  BY <1>7 DEF Fail, Failing, Stop
<1>8. CASE Reload(j) \/ ReloadOfNothing(j)
  BY <1>8
<1> QED
  BY <1>1, <1>2, <1>3, <1>4, <1>5, <1>6, <1>7, <1>8 DEF JobStep

\* The sets that are counted are finite.
LEMMA CountedFinite ==
  ASSUME TypeOK
  PROVE  /\ IsFiniteSet(Running) /\ IsFiniteSet(leaving)
         /\ Cardinality(Running) \in Nat /\ Cardinality(leaving) \in Nat
<1>1. Running \in SUBSET Jobs /\ leaving \in SUBSET Jobs
  BY DEF Running, TypeOK
<1>2. IsFiniteSet(Running) /\ IsFiniteSet(leaving)
  BY <1>1, ProcessAssumption, FS_Subset
<1> QED
  BY <1>2, FS_CardinalityType

\* The counter goes up before a RunOneJob starts and down when one returns.
LEMMA CountedKept ==
  ASSUME TypeOK, Counted, [Next]_vars
  PROVE  Counted'
<1> USE CountedFinite
<1>0. pc \in [Jobs -> Stages] /\ wg \in Int
  BY DEF TypeOK
<1>1. CASE UNCHANGED <<wg, pc, leaving>>
  BY <1>1 DEF Counted, Running
<1>2. ASSUME NEW j \in Jobs, JobStep(j) PROVE Counted'
  <2>1. CASE Reload(j)
    <3>1. Running' = Running
      BY <1>0, <2>1 DEF Reload, Running
    <3>2. Cardinality(leaving') = Cardinality(leaving) + 1
      BY <2>1, FS_AddElement DEF Reload
    <3> QED
      BY <2>1, <3>1, <3>2 DEF Reload, Counted
  <2>2. CASE ReloadOfNothing(j)
    BY <1>1, <2>2 DEF ReloadOfNothing
  <2>3. ASSUME NEW from \in Stages \ {"new", "ended"}, NEW to \in Stages \ {"new", "ended"},
               Move(j, from, to)
        PROVE  Counted'
    <3>1. Running' = Running
      BY <1>0, <2>3 DEF Move, Running
    <3> QED
      BY <2>3, <3>1 DEF Move, Counted
  <2> QED
    BY <1>2, <2>1, <2>2, <2>3, JobStepMoves
<1>3. ASSUME NEW j \in Jobs, DoneAfterReload(j) PROVE Counted'
  <2>1. Running' = Running /\ wg' = wg - 1
    BY <1>3 DEF DoneAfterReload, Running
  <2>2. Cardinality(leaving') = Cardinality(leaving) - 1
    BY <1>3, FS_RemoveElement DEF DoneAfterReload
  <2> QED
    BY <2>1, <2>2 DEF Counted
<1>4. ASSUME NEW j \in Jobs, Done(j) PROVE Counted'
  <2>1. Running' = Running \ {j} /\ j \in Running
    BY <1>0, <1>4 DEF Done, Running
  <2>2. Cardinality(Running') = Cardinality(Running) - 1
    BY <2>1, FS_RemoveElement
  <2> QED
    BY <1>4, <2>2 DEF Done, Counted
<1>5. ASSUME NEW j \in Jobs, StartJob(j) PROVE Counted'
  <2>1. Running' = Running \cup {j} /\ j \notin Running
    BY <1>0, <1>5 DEF StartJob, Running
  <2>2. Cardinality(Running') = Cardinality(Running) + 1
    BY <2>1, FS_AddElement
  <2> QED
    BY <1>5, <2>2 DEF StartJob, Counted
<1>6. CASE Restart
  <2>1. Running' = {} /\ leaving' = {} /\ wg' = 0
    BY <1>6 DEF Restart, Running
  <2> QED
    BY <2>1, FS_EmptySet DEF Counted
<1>7. CASE MainReturns \/ Interrupt \/ Exit \/ Kill \/ UNCHANGED vars
  BY <1>1, <1>7 DEF MainReturns, Interrupt, Exit, Kill, vars
<1> QED
  BY <1>2, <1>3, <1>4, <1>5, <1>6, <1>7 DEF Next

LEMMA AllStartedKept ==
  ASSUME TypeOK, AllStarted, [Next]_vars
  PROVE  AllStarted'
<1>0. pc \in [Jobs -> Stages]
  BY DEF TypeOK
<1>1. ASSUME NEW j \in Jobs, JobStep(j) PROVE AllStarted'
  BY <1>0, <1>1, JobStepMoves DEF Reload, ReloadOfNothing, Move, AllStarted
<1>2. ASSUME NEW j \in Jobs, DoneAfterReload(j) \/ Done(j) PROVE AllStarted'
  BY <1>0, <1>2 DEF DoneAfterReload, Done, AllStarted
<1>3. ASSUME NEW j \in Jobs, StartJob(j) PROVE AllStarted'
  BY <1>0, <1>3 DEF StartJob, AllStarted
<1>4. CASE MainReturns \/ Interrupt \/ Exit \/ Kill \/ Restart \/ UNCHANGED vars
  BY <1>4 DEF MainReturns, Interrupt, Exit, Kill, Restart, vars, AllStarted
<1> QED
  BY <1>1, <1>2, <1>3, <1>4 DEF Next
-----------------------------------------------------------------------------
(***************************************************************************)
(* Where a job may be.                                                     *)
(***************************************************************************)

\* A job that moves to a place it may be at.
LEMMA MoveOwn ==
  ASSUME TypeOK, OwnStages, NEW j \in Jobs, NEW to, pc' = [pc EXCEPT ![j] = to],
         to \in DeployStages => j \in Deployers
  PROVE  OwnStages'
<1>1. pc \in [Jobs -> Stages]
  BY DEF TypeOK
<1> QED
  BY <1>1 DEF OwnStages

\* The places that only deploying jobs have are entered from
\* another one of them, or by a deploying job.
LEMMA OwnStagesKept ==
  ASSUME TypeOK, OwnStages, [Next]_vars
  PROVE  OwnStages'
<1> USE DEF DeployStages
<1>1. ASSUME NEW j \in Jobs, JobStep(j) PROVE OwnStages'
  <2>0. pc[j] \in DeployStages => j \in Deployers
    BY <1>1 DEF OwnStages
  <2>1. CASE Begin(j) \/ SwitchAtStart(j) \/ AskCluster(j)
    BY <2>0, <2>1, MoveOwn DEF Begin, AfterBegin, SwitchAtStart, AskCluster, Move
  <2>2. CASE TestAgent(j) \/ StartAgent(j) \/ Dial(j) \/ AddKey(j) \/ ChdirPull(j) \/ NextRound(j)
    BY <2>2, MoveOwn DEF TestAgent, StartAgent, Dial, AddKey, ChdirPull, NextRound, Move
  <2>3. CASE Pull(j)
    BY <2>3, MoveOwn DEF Pull, AfterPull, AfterBuild, Move
  <2>4. CASE SetAuth(j) \/ CreateDockerConfig(j) \/ CopyDockerConfig(j)
    BY <2>0, <2>4, MoveOwn DEF SetAuth, CreateDockerConfig, CopyDockerConfig, Move
  <2>5. CASE ChdirBuild(j) \/ TestErr(j) \/ Build(j) \/ ReturnErr(j)
    BY <2>0, <2>5, MoveOwn DEF ChdirBuild, TestErr, Build, ReturnErr, AfterBuild, Move
  <2>6. CASE ChdirHome(j) \/ Render(j) \/ Switch(j) \/ Apply(j)
    BY <2>0, <2>6, MoveOwn DEF ChdirHome, Render, Switch, Apply, Move
  <2>7. CASE Ready(j) \/ Confirm(j) \/ Check(j)
    BY <2>0, <2>7, MoveOwn DEF Ready, Confirm, Check, Move
  <2>8. CASE Fail(j)
    BY <2>8, MoveOwn DEF Fail, Stop, Move
  <2>9. CASE Reload(j)
    BY <2>9, MoveOwn DEF Reload
  <2>10. CASE ReloadOfNothing(j)
    BY <2>10 DEF ReloadOfNothing, OwnStages
  <2> QED
    BY <1>1, <2>1, <2>2, <2>3, <2>4, <2>5, <2>6, <2>7, <2>8, <2>9, <2>10 DEF JobStep
<1>2. ASSUME NEW j \in Jobs, Done(j) \/ StartJob(j) PROVE OwnStages'
  BY <1>2, MoveOwn DEF Done, StartJob
<1>3. ASSUME NEW j \in Jobs, DoneAfterReload(j) PROVE OwnStages'
  BY <1>3 DEF DoneAfterReload, OwnStages
<1>4. CASE Restart
  BY <1>4 DEF Restart, OwnStages
<1>5. CASE MainReturns \/ Interrupt \/ Exit \/ Kill \/ UNCHANGED vars
  BY <1>5 DEF MainReturns, Interrupt, Exit, Kill, vars, OwnStages
<1> QED
  BY <1>1, <1>2, <1>3, <1>4, <1>5 DEF Next

-----------------------------------------------------------------------------
(***************************************************************************)
(* The cluster.                                                            *)
(***************************************************************************)

\* A step of a job that selects its context, and one that does not touch the
\* cluster and relies on no more than before.
SelectsContext(j) ==
  /\ Kubectx(j) /\ UNCHANGED kubeconfig
  /\ \E from \in DeployStages, to \in Stages : Move(j, from, to)
KeepsCluster(j) ==
  /\ UNCHANGED <<kubeconfig, context>>
  /\ \E to \in Stages :
       /\ pc' = [pc EXCEPT ![j] = to]
       /\ to \in Selected => pc[j] \in Selected
       /\ pc[j] \in Outside => to \in Outside

LEMMA ClusterSteps ==
  ASSUME [Next]_vars
  PROVE  \/ Restart
         \/ \E j \in Jobs : Begin(j) \/ SelectsContext(j) \/ KeepsCluster(j)
         \/ UNCHANGED <<pc, kubeconfig, context>>
<1> USE DEF Stages, Asking, Selected, Outside, DeployStages, shared, SelectsContext, KeepsCluster
<1>1. ASSUME NEW j \in Jobs, JobStep(j)
      PROVE  \/ Begin(j) \/ SelectsContext(j) \/ KeepsCluster(j)
             \/ UNCHANGED <<pc, kubeconfig, context>>
  <2>1. CASE Begin(j)
    BY <2>1
  <2>2. CASE SwitchAtStart(j) \/ Switch(j) \/ Confirm(j)
    BY <2>2 DEF SwitchAtStart, Switch, Confirm, Move
  <2>3. CASE Ready(j)
    BY <2>3 DEF Ready, PipedKubectx, Move
  <2>4. CASE AskCluster(j) \/ TestAgent(j) \/ StartAgent(j) \/ Dial(j) \/ AddKey(j)
    BY <2>4 DEF AskCluster, TestAgent, StartAgent, Dial, AddKey, Move
  <2>5. CASE ChdirPull(j) \/ Pull(j) \/ SetAuth(j) \/ CreateDockerConfig(j) \/ CopyDockerConfig(j)
    BY <2>5 DEF ChdirPull, Pull, AfterPull, AfterBuild, SetAuth, CreateDockerConfig,
                CopyDockerConfig, Move
  <2>6. CASE ChdirBuild(j) \/ TestErr(j) \/ Build(j) \/ ReturnErr(j)
    BY <2>6 DEF ChdirBuild, TestErr, Build, ReturnErr, AfterBuild, Move
  <2>7. CASE ChdirHome(j) \/ Render(j) \/ Apply(j) \/ Check(j) \/ NextRound(j)
    BY <2>7 DEF ChdirHome, Render, Apply, Check, NextRound, Move
  <2>8. CASE Fail(j)
    BY <2>8 DEF Fail, Stop, Move
  <2>9. CASE Reload(j) \/ ReloadOfNothing(j)
    BY <2>9 DEF Reload, ReloadOfNothing
  <2> QED
    BY <1>1, <2>1, <2>2, <2>3, <2>4, <2>5, <2>6, <2>7, <2>8, <2>9 DEF JobStep
<1>2. ASSUME NEW j \in Jobs, DoneAfterReload(j) \/ Done(j) \/ StartJob(j)
      PROVE  KeepsCluster(j) \/ UNCHANGED <<pc, kubeconfig, context>>
  BY <1>2 DEF DoneAfterReload, Done, StartJob
<1>3. CASE MainReturns \/ Interrupt \/ Exit \/ Kill \/ UNCHANGED vars
  BY <1>3 DEF MainReturns, Interrupt, Exit, Kill, vars
<1> QED
  BY <1>1, <1>2, <1>3 DEF Next

\* A deploying job that begins sets the file of the one cluster.
LEMMA ClusterFileBegin ==
  ASSUME ClusterFileSet, OneCluster, NEW j \in Deployers, Begin(j)
  PROVE  \A k \in Deployers : kubeconfig' = EffectiveFile(k)
<1>1. CASE KubeconfigOf[j] # None
  BY <1>1 DEF Begin, EffectiveFile, OneCluster
<1>2. CASE KubeconfigOf[j] = None
  <2>1. \A k \in Deployers : EffectiveFile(k) = DefaultFile
    BY <1>2 DEF EffectiveFile, OneCluster
  <2> QED
    BY <1>2, <2>1 DEF Begin, ClusterFileSet
<1> QED
  BY <1>1, <1>2

LEMMA ClusterFileKept ==
  ASSUME TypeOK, ClusterFileSet, [Next]_vars
  PROVE  ClusterFileSet'
<1> SUFFICES ASSUME OneCluster
             PROVE  /\ kubeconfig' # DefaultFile => \E j \in Deployers : kubeconfig' = EffectiveFile(j)
                    /\ \A j \in Deployers : pc'[j] \notin Outside => kubeconfig' = EffectiveFile(j)
  BY DEF ClusterFileSet
<1>0. /\ pc \in [Jobs -> Stages] /\ Deployers \subseteq Jobs
      /\ kubeconfig # DefaultFile => \E j \in Deployers : kubeconfig = EffectiveFile(j)
      /\ \A j \in Deployers : pc[j] \notin Outside => kubeconfig = EffectiveFile(j)
      /\ \A j, k \in Deployers : EffectiveFile(j) = EffectiveFile(k)
  BY ProcessAssumption DEF TypeOK, ClusterFileSet, OneCluster
<1>1. ASSUME NEW j \in Jobs, Begin(j), j \in Deployers
      PROVE  \A k \in Deployers : kubeconfig' = EffectiveFile(k)
  BY <1>0, <1>1, ClusterFileBegin
<1>2. ASSUME NEW j \in Jobs, Begin(j), j \notin Deployers
      PROVE  kubeconfig' = kubeconfig /\ \A k \in Deployers : pc'[k] = pc[k]
  BY <1>0, <1>2 DEF Begin, Move
<1>3. ASSUME NEW j \in Jobs, SelectsContext(j)
      PROVE  kubeconfig' = kubeconfig /\ \A k \in Deployers : pc[k] \in Outside => pc'[k] \in Outside
  BY <1>0, <1>3 DEF SelectsContext, Move, DeployStages, Outside
<1>4. ASSUME NEW j \in Jobs, KeepsCluster(j)
      PROVE  kubeconfig' = kubeconfig /\ \A k \in Deployers : pc[k] \in Outside => pc'[k] \in Outside
  BY <1>0, <1>4 DEF KeepsCluster
<1>5. CASE Restart
  BY <1>0, <1>5 DEF Restart, Outside
<1>6. CASE UNCHANGED <<pc, kubeconfig, context>>
  BY <1>0, <1>6
<1> QED
  BY <1>0, <1>1, <1>2, <1>3, <1>4, <1>5, <1>6, ClusterSteps

LEMMA ContextKept ==
  ASSUME TypeOK, OwnStages, ClusterFileSet, ContextSet, [Next]_vars
  PROVE  ContextSet'
<1> SUFFICES ASSUME OneCluster, NEW k \in Jobs, pc'[k] \in Selected
             PROVE  context'[kubeconfig'] = ContextOf[k]
  BY DEF ContextSet
<1>0. /\ pc \in [Jobs -> Stages] /\ context \in [Files -> Contexts] /\ kubeconfig \in Files
      /\ pc[k] \in Selected =>
           k \in Deployers /\ context[kubeconfig] = ContextOf[k] /\ kubeconfig = EffectiveFile(k)
      /\ \A i, j \in Deployers : EffectiveFile(i) = EffectiveFile(j) /\ ContextOf[i] = ContextOf[j]
  BY DEF TypeOK, ContextSet, ClusterFileSet, OwnStages, OneCluster, Selected, Asking, DeployStages,
         Outside
<1>1. ASSUME NEW j \in Jobs, Begin(j) PROVE context'[kubeconfig'] = ContextOf[k]
  <2>1. pc[k] \in Selected /\ context' = context
    BY <1>0, <1>1 DEF Begin, AfterBegin, Move, Selected, Asking
  <2>2. kubeconfig' = kubeconfig
    <3>1. CASE j \in Deployers
      BY <1>0, <1>1, <2>1, <3>1, ClusterFileBegin
    <3>2. CASE j \notin Deployers
      BY <1>1, <3>2 DEF Begin
    <3> QED
      BY <3>1, <3>2
  <2> QED
    BY <1>0, <2>1, <2>2
<1>2. ASSUME NEW j \in Jobs, SelectsContext(j) PROVE context'[kubeconfig'] = ContextOf[k]
  <2>1. j \in Deployers
    BY <1>2 DEF SelectsContext, Move, OwnStages
  <2>2. k = j \/ pc[k] \in Selected
    BY <1>0, <1>2 DEF SelectsContext, Move
  <2>3. ContextOf[k] = ContextOf[j]
    BY <1>0, <2>1, <2>2
  <2> QED
    BY <1>0, <1>2, <2>3 DEF SelectsContext, Kubectx
<1>3. ASSUME NEW j \in Jobs, KeepsCluster(j) PROVE context'[kubeconfig'] = ContextOf[k]
  BY <1>0, <1>3 DEF KeepsCluster
<1>4. CASE Restart
  BY <1>4 DEF Restart, Selected, Asking
<1>5. CASE UNCHANGED <<pc, kubeconfig, context>>
  BY <1>0, <1>5
<1> QED
  BY <1>1, <1>2, <1>3, <1>4, <1>5, ClusterSteps
-----------------------------------------------------------------------------
(***************************************************************************)
(* The ssh agent.                                                          *)
(***************************************************************************)

\* Who changes the agent in use, the connections and the keys.
LEMMA AgentSteps ==
  ASSUME [Next]_vars
  PROVE  \/ Restart
         \/ \E j \in Jobs : StartAgent(j) \/ Dial(j) \/ AddKey(j)
         \/ \E j \in Jobs, to \in Stages \ {"add key"} :
              /\ to \in PastAgent => pc[j] \in PastAgent
              /\ pc' = [pc EXCEPT ![j] = to] /\ UNCHANGED <<sock, dialed, keys>>
         \/ UNCHANGED <<pc, sock, dialed, keys>>
<1> USE DEF Stages, PastAgent, shared
<1>1. ASSUME NEW j \in Jobs, JobStep(j), ~StartAgent(j), ~Dial(j), ~AddKey(j)
      PROVE  \/ \E to \in Stages \ {"add key"} :
                  /\ to \in PastAgent => pc[j] \in PastAgent
                  /\ pc' = [pc EXCEPT ![j] = to] /\ UNCHANGED <<sock, dialed, keys>>
             \/ UNCHANGED <<pc, sock, dialed, keys>>
  <2>1. CASE Begin(j) \/ SwitchAtStart(j) \/ AskCluster(j) \/ TestAgent(j)
    BY <2>1 DEF Begin, AfterBegin, SwitchAtStart, AskCluster, TestAgent, Move
  <2>2. CASE ChdirPull(j) \/ Pull(j)
    BY <2>2 DEF ChdirPull, Pull, AfterPull, AfterBuild, Move
  <2>3. CASE SetAuth(j) \/ CreateDockerConfig(j) \/ CopyDockerConfig(j)
    BY <2>3 DEF SetAuth, CreateDockerConfig, CopyDockerConfig, Move
  <2>4. CASE ChdirBuild(j) \/ TestErr(j) \/ Build(j) \/ ReturnErr(j) \/ ChdirHome(j) \/ Render(j)
    BY <2>4 DEF ChdirBuild, TestErr, Build, ReturnErr, AfterBuild, ChdirHome, Render, Move
  <2>5. CASE Switch(j) \/ Apply(j) \/ Ready(j) \/ Confirm(j) \/ Check(j) \/ NextRound(j)
    BY <2>5 DEF Switch, Apply, Ready, Confirm, Check, NextRound, Move
  <2>6. CASE Fail(j)
    BY <2>6 DEF Fail, Stop, Move
  <2>7. CASE Reload(j) \/ ReloadOfNothing(j)
    BY <2>7 DEF Reload, ReloadOfNothing
  <2> QED
    BY <1>1, <2>1, <2>2, <2>3, <2>4, <2>5, <2>6, <2>7 DEF JobStep
<1>2. ASSUME NEW j \in Jobs, DoneAfterReload(j) \/ Done(j) \/ StartJob(j)
      PROVE  \/ \E to \in Stages \ {"add key"} :
                  /\ to \in PastAgent => pc[j] \in PastAgent
                  /\ pc' = [pc EXCEPT ![j] = to] /\ UNCHANGED <<sock, dialed, keys>>
             \/ UNCHANGED <<pc, sock, dialed, keys>>
  BY <1>2 DEF DoneAfterReload, Done, StartJob
<1>3. CASE MainReturns \/ Interrupt \/ Exit \/ Kill \/ UNCHANGED vars
  BY <1>3 DEF MainReturns, Interrupt, Exit, Kill, vars
<1> QED
  BY <1>1, <1>2, <1>3 DEF Next

\* A job that starts an agent is connected to it, unless another job has
\* started a newer one, which is then the agent in use.
LEMMA AgentKeptByNext ==
  ASSUME TypeOK, AgentKept, [Next]_vars
  PROVE  AgentKept'
<1> USE DEF PastAgent
<1>0. /\ pc \in [Jobs -> Stages] /\ sock \in Jobs \cup {None} /\ None \notin Jobs
      /\ dialed \in [Jobs -> Jobs \cup {None}] /\ keys \in [Jobs -> SUBSET Jobs]
  BY ProcessAssumption DEF TypeOK
<1>1. ASSUME NEW j \in Jobs, StartAgent(j) PROVE AgentKept'
  BY <1>0, <1>1 DEF StartAgent, Move, AgentKept
<1>2. ASSUME NEW j \in Jobs, Dial(j) PROVE AgentKept'
  BY <1>0, <1>2 DEF Dial, Move, AgentKept
<1>3. ASSUME NEW j \in Jobs, AddKey(j) PROVE AgentKept'
  <2>1. \A i \in Jobs : keys[i] \subseteq keys'[i]
    BY <1>0, <1>3 DEF AddKey
  <2>2. CASE sock = j
    <3>1. dialed[j] = j
      BY <1>0, <1>3, <2>2 DEF AddKey, Move, AgentKept
    <3>2. j \in keys'[j]
      BY <1>0, <1>3, <3>1 DEF AddKey
    <3> QED
      BY <1>0, <1>3, <2>2, <3>2 DEF AddKey, Move, AgentKept
  <2>3. CASE sock # j
    BY <1>0, <1>3, <2>1, <2>3 DEF AddKey, Move, AgentKept
  <2> QED
    BY <2>2, <2>3
<1>4. ASSUME NEW j \in Jobs, NEW to \in Stages \ {"add key"},
             to \in PastAgent => pc[j] \in PastAgent,
             pc' = [pc EXCEPT ![j] = to], UNCHANGED <<sock, dialed, keys>>
      PROVE  AgentKept'
  BY <1>0, <1>4 DEF AgentKept
<1>5. CASE Restart
  BY <1>5 DEF Restart, AgentKept
<1>6. CASE UNCHANGED <<pc, sock, dialed, keys>>
  BY <1>6 DEF AgentKept
<1> QED
  BY <1>1, <1>2, <1>3, <1>4, <1>5, <1>6, AgentSteps

-----------------------------------------------------------------------------
\* The invariant holds at the start and is kept by every step.
LEMMA ProcessInvHolds == Spec => []ProcessInv
<1>1. Init => ProcessInv
  <2> SUFFICES ASSUME Init PROVE ProcessInv
    OBVIOUS
  <2>1. TypeOK
    <3>1. pc \in [Jobs -> Stages] /\ dialed \in [Jobs -> Jobs \cup {None}]
      BY DEF Init, Stages
    <3>2. keys \in [Jobs -> SUBSET Jobs] /\ err \in BOOLEAN
      BY DEF Init
    <3>3. /\ context \in [Files -> Contexts] /\ kubeconfig \in Files
          /\ dockerConfig \in {"none", "partial", "full"}
      BY ProcessAssumption DEF Init
    <3> QED
      BY <3>1, <3>2, <3>3 DEF Init, TypeOK
  <2>2. Counted
    <3>1. Running = {} /\ leaving = {} /\ wg = 0
      BY DEF Init, Running
    <3> QED
      BY <3>1, FS_EmptySet DEF Counted
  <2>3. \A j \in Jobs : pc[j] = "new"
    BY DEF Init
  <2>4. AllStarted /\ OwnStages /\ AgentKept
    BY <2>3 DEF Init, AllStarted, OwnStages, DeployStages, AgentKept
  <2>5. ClusterFileSet /\ ContextSet
    BY <2>3, ProcessAssumption DEF Init, ClusterFileSet, ContextSet, Outside, Selected, Asking
  <2> QED
    BY <2>1, <2>2, <2>4, <2>5 DEF ProcessInv
<1>2. ProcessInv /\ [Next]_vars => ProcessInv'
  BY NextType, CountedKept, AllStartedKept, OwnStagesKept, ClusterFileKept, ContextKept,
     AgentKeptByNext DEF ProcessInv
<1> QED
  BY <1>1, <1>2, PTL DEF Spec

\* The state of the process and of its jobs keeps its types.
THEOREM ProcessTypeCorrect == Spec => []TypeOK
<1>1. ProcessInv => TypeOK
  BY DEF ProcessInv
<1> QED
  BY <1>1, ProcessInvHolds, PTL

\* main returns only when no RunOneJob is left, however reloads and failures
\* of any number of jobs overlap, and the WaitGroup never goes below zero.
THEOREM WaitGroupCorrect == Spec => []NoJobIsCutOff
<1> DEFINE ReturnedAtZero == proc = "returned" => wg = 0
<1>1. ProcessInv /\ ReturnedAtZero => NoJobIsCutOff
  <2> SUFFICES ASSUME ProcessInv, ReturnedAtZero PROVE NoJobIsCutOff
    OBVIOUS
  <2>1. /\ IsFiniteSet(Running) /\ IsFiniteSet(leaving)
        /\ Cardinality(Running) \in Nat /\ Cardinality(leaving) \in Nat
        /\ wg = Cardinality(Running) + Cardinality(leaving)
    BY CountedFinite DEF ProcessInv, Counted
  <2>2. CASE proc = "returned"
    <3>1. Cardinality(Running) = 0 /\ Cardinality(leaving) = 0
      BY <2>1, <2>2
    <3>2. Running = {} /\ leaving = {}
      BY <2>1, <3>1, FS_EmptySet
    <3>3. \A j \in Jobs : pc[j] = "ended"
      BY <2>2, <3>2 DEF Running, ProcessInv, AllStarted
    <3> QED
      BY <2>1, <3>2, <3>3 DEF NoJobIsCutOff
  <2>3. CASE proc # "returned"
    BY <2>1, <2>3 DEF NoJobIsCutOff
  <2> QED
    BY <2>2, <2>3
<1>2. Init => ReturnedAtZero
  BY DEF Init
<1>3. ReturnedAtZero /\ [Next]_vars => ReturnedAtZero'
  <2> SUFFICES ASSUME ReturnedAtZero, [Next]_vars PROVE ReturnedAtZero'
    OBVIOUS
  <2>1. ASSUME NEW j \in Jobs, JobStep(j) PROVE proc' # "returned"
    BY <2>1, JobStepMoves DEF Reload, ReloadOfNothing, Move, Alive
  <2>2. ASSUME NEW j \in Jobs, DoneAfterReload(j) \/ Done(j) \/ StartJob(j) PROVE proc' # "returned"
    BY <2>2 DEF DoneAfterReload, Done, StartJob, Alive
  <2>3. CASE MainReturns \/ Interrupt \/ Exit \/ Kill \/ Restart \/ UNCHANGED vars
    BY <2>3 DEF MainReturns, Interrupt, Exit, Kill, Restart, vars
  <2> QED
    BY <2>1, <2>2, <2>3 DEF Next
<1> QED
  BY <1>1, <1>2, <1>3, ProcessInvHolds, PTL DEF Spec

\* The other way round main is released: when every RunOneJob, reloaded ones
\* and their predecessors included, has returned, the counter is zero and main
\* need not wait.  JobsAreStartedAgain rests on this.
THEOREM MainIsReleased ==
  Spec => [](leaving = {} /\ (\A j \in Jobs : pc[j] = "ended") => wg = 0)
<1>1. ProcessInv => (leaving = {} /\ (\A j \in Jobs : pc[j] = "ended") => wg = 0)
  <2> SUFFICES ASSUME ProcessInv, leaving = {}, \A j \in Jobs : pc[j] = "ended" PROVE wg = 0
    OBVIOUS
  <2>1. Running = {}
    BY DEF Running
  <2>2. Cardinality(Running) = 0 /\ Cardinality(leaving) = 0
    BY <2>1, FS_EmptySet
  <2> QED
    BY <2>2 DEF ProcessInv, Counted
<1> QED
  BY <1>1, ProcessInvHolds, PTL

\* If all deploying jobs have one cluster, every kubectl of any of them asks
\* or changes that cluster.
THEOREM ClusterCorrect == Spec => []RightCluster
<1>1. ProcessInv => RightCluster
  BY DEF ProcessInv, OwnStages, ClusterFileSet, ContextSet, RightCluster, DeployStages, Outside, Selected,
         Asking
<1> QED
  BY <1>1, ProcessInvHolds, PTL

\* The agent in use holds the key of the job that started it, once that job
\* has got past its start.
THEOREM AgentCorrect == Spec => []AgentHasKeyOfItsJob
<1>1. ProcessInv => AgentHasKeyOfItsJob
  BY DEF ProcessInv, AgentKept, AgentHasKeyOfItsJob
<1> QED
  BY <1>1, ProcessInvHolds, PTL

-----------------------------------------------------------------------------
(***************************************************************************)
(* The working directory, which every job changes in every round.          *)
(***************************************************************************)

\* Who changes the working directory and gets to a command that relies on it.
InFolder == {"pull", "test err", "build"}
LEMMA FolderSteps ==
  ASSUME [Next]_vars
  PROVE  \/ Restart
         \/ \E j \in Jobs : ChdirPull(j) \/ ChdirBuild(j) \/ TestErr(j)
         \/ \E j \in Jobs, to \in Stages \ InFolder : pc' = [pc EXCEPT ![j] = to]
         \/ UNCHANGED <<pc, cwd, err>>
<1> USE DEF Stages, InFolder, shared
<1>1. ASSUME NEW j \in Jobs, JobStep(j), ~ChdirPull(j), ~ChdirBuild(j), ~TestErr(j)
      PROVE  \/ \E to \in Stages \ InFolder : pc' = [pc EXCEPT ![j] = to]
             \/ UNCHANGED <<pc, cwd, err>>
  <2>1. CASE Begin(j) \/ SwitchAtStart(j) \/ AskCluster(j)
    BY <2>1 DEF Begin, AfterBegin, SwitchAtStart, AskCluster, Move
  <2>2. CASE TestAgent(j) \/ StartAgent(j) \/ Dial(j) \/ AddKey(j)
    BY <2>2 DEF TestAgent, StartAgent, Dial, AddKey, Move
  <2>3. CASE Pull(j) \/ SetAuth(j) \/ CreateDockerConfig(j) \/ CopyDockerConfig(j)
    BY <2>3 DEF Pull, AfterPull, AfterBuild, SetAuth, CreateDockerConfig, CopyDockerConfig, Move
  <2>4. CASE Build(j) \/ ReturnErr(j) \/ ChdirHome(j) \/ Render(j)
    BY <2>4 DEF Build, ReturnErr, AfterBuild, ChdirHome, Render, Move
  <2>5. CASE Switch(j) \/ Apply(j) \/ Ready(j) \/ Confirm(j) \/ Check(j) \/ NextRound(j)
    BY <2>5 DEF Switch, Apply, Ready, Confirm, Check, NextRound, Move
  <2>6. CASE Fail(j)
    BY <2>6 DEF Fail, Stop, Move
  <2>7. CASE Reload(j) \/ ReloadOfNothing(j)
    BY <2>7 DEF Reload, ReloadOfNothing
  <2> QED
    BY <1>1, <2>1, <2>2, <2>3, <2>4, <2>5, <2>6, <2>7 DEF JobStep
<1>2. ASSUME NEW j \in Jobs, DoneAfterReload(j) \/ Done(j) \/ StartJob(j)
      PROVE  \/ \E to \in Stages \ InFolder : pc' = [pc EXCEPT ![j] = to]
             \/ UNCHANGED <<pc, cwd, err>>
  BY <1>2 DEF DoneAfterReload, Done, StartJob
<1>3. CASE MainReturns \/ Interrupt \/ Exit \/ Kill \/ UNCHANGED vars
  BY <1>3 DEF MainReturns, Interrupt, Exit, Kill, vars
<1> QED
  BY <1>1, <1>2, <1>3 DEF Next

\* A change of directory that failed is noticed before anything relies on it.
InOwnFolder ==
  \A j \in Jobs :
    pc[j] \in {"pull", "build"} \/ (pc[j] = "test err" /\ ~err) => cwd = j

\* With a single job in the process git pulls and docker builds in the folder
\* of its repository, whatever changes of directory fail and however often the
\* job is reloaded: what the run ProcessBuild finds needs a second job.
THEOREM SingleJobFolder ==
  (\A j, k \in Jobs : j = k) => (Spec => [](InOwnFolder /\ BuiltInOwnFolder))
<1> SUFFICES ASSUME \A j, k \in Jobs : j = k PROVE Spec => [](InOwnFolder /\ BuiltInOwnFolder)
  OBVIOUS
<1>1. Init => InOwnFolder
  BY DEF Init, InOwnFolder
<1>2. ProcessInv /\ InOwnFolder /\ [Next]_vars => InOwnFolder'
  <2> SUFFICES ASSUME ProcessInv, InOwnFolder, [Next]_vars, NEW k \in Jobs,
                      pc'[k] \in {"pull", "build"} \/ (pc'[k] = "test err" /\ ~err')
               PROVE  cwd' = k
    BY DEF InOwnFolder
  <2>1. pc \in [Jobs -> Stages] /\ \A j \in Jobs : j = k
    BY DEF ProcessInv, TypeOK
  <2>2. ASSUME NEW j \in Jobs, ChdirPull(j) PROVE cwd' = k
    BY <2>1, <2>2 DEF ChdirPull
  <2>3. ASSUME NEW j \in Jobs, ChdirBuild(j) PROVE cwd' = k
    BY <2>1, <2>3 DEF ChdirBuild, Move
  <2>4. ASSUME NEW j \in Jobs, TestErr(j) PROVE cwd' = k
    BY <2>1, <2>4 DEF TestErr, Move, shared, InOwnFolder
  <2>5. ASSUME NEW j \in Jobs, NEW to \in Stages \ InFolder, pc' = [pc EXCEPT ![j] = to]
        PROVE  FALSE
    BY <2>1, <2>5 DEF InFolder
  <2>6. CASE Restart
    BY <2>6 DEF Restart
  <2>7. CASE UNCHANGED <<pc, cwd, err>>
    BY <2>7 DEF InOwnFolder
  <2> QED
    BY <2>2, <2>3, <2>4, <2>5, <2>6, <2>7, FolderSteps
<1>3. InOwnFolder => BuiltInOwnFolder
  BY DEF InOwnFolder, BuiltInOwnFolder
<1> QED
  BY <1>1, <1>2, <1>3, ProcessInvHolds, PTL DEF Spec
=============================================================================
