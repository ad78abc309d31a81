------------------------------- MODULE Process -------------------------------
(***************************************************************************)
(* The process: main, its WaitGroup and several jobs at once, seen from    *)
(* the state they share.  A job is reduced to the commands that read or    *)
(* write shared state and to the order they come in; what a job delivers   *)
(* is the subject of Job.  A job without a new release goes from its pull  *)
(* to the end of the round.  Every repository is reached by ssh, and no    *)
(* agent runs before the process.                                          *)
(*                                                                         *)
(* Shared: the working directory, the environment (SSH_AUTH_SOCK,          *)
(* KUBECONFIG), the context in a kubeconfig file, the package variable     *)
(* err, the docker configuration in the home directory.                    *)
(***************************************************************************)
EXTENDS Integers, FiniteSets

CONSTANTS
  Jobs,          \* the jobs of the process, also the names of their folders
  Builders,      \* the ones with DO_DOCKER_BUILD
  Deployers,     \* the ones with DO_MANIFEST_DEPLOY
  Files,         \* kubeconfig files
  Contexts,      \* contexts a kubeconfig file may select
  KubeconfigOf,  \* the file DEPLOY.KUBECONFIG of a job names, or None
  ContextOf,     \* its CONTEXT_K8s
  DefaultFile,   \* the file kubectl uses if nobody sets KUBECONFIG
  FirstContext,  \* the context every kubeconfig file selects at first
  Mounted,       \* there is a docker configuration in /run/configs/dockerconfig
  Home,          \* CurrentWD, the directory the process was started in
  None

ASSUME ProcessAssumption ==
  /\ IsFiniteSet(Jobs) /\ Builders \subseteq Jobs /\ Deployers \subseteq Jobs
  /\ KubeconfigOf \in [Jobs -> Files \cup {None}] /\ DefaultFile \in Files
  /\ ContextOf \in [Jobs -> Contexts] /\ FirstContext \in Contexts
  /\ Mounted \in BOOLEAN
  /\ Home \notin Jobs /\ None \notin Jobs \cup Files

VARIABLES
  proc,          \* main: starts jobs, waits, has returned; a SIGINT; no process
  wg,            \* counter of the WaitGroup
  pc,            \* where the RunOneJob of each job is
  leaving,       \* jobs whose former RunOneJob has still to return after a reload
  cwd,           \* working directory
  kubeconfig,    \* environment variable KUBECONFIG, or the default
  context,       \* context each kubeconfig file selects
  sock,          \* SSH_AUTH_SOCK: the agent of the job that started it, or None
  dialed,        \* the agent each job is connected to
  keys,          \* jobs whose key each agent holds
  err,           \* package variable err: a failure or nil
  dockerConfig   \* $HOME/.docker/config.json: "none", "partial" or "full"

shared == <<cwd, kubeconfig, context, sock, dialed, keys, err, dockerConfig>>
vars == <<proc, wg, pc, leaving, shared>>

Stages == {"new", "begin", "context", "ask", "agent", "start agent", "dial", "add key",
           "chdir pull", "pull", "auth", "create", "copy", "chdir build", "test err", "build",
           "return err", "chdir home", "render", "switch", "apply", "ready", "confirm", "check",
           "tail", "returning", "ended"}

TypeOK ==
  /\ proc \in {"starting", "waiting", "interrupted", "returned", "down"}
  /\ wg \in Int
  /\ pc \in [Jobs -> Stages] /\ leaving \subseteq Jobs
  /\ cwd \in Jobs \cup {Home}
  /\ kubeconfig \in Files /\ context \in [Files -> Contexts]
  /\ sock \in Jobs \cup {None} /\ dialed \in [Jobs -> Jobs \cup {None}]
  /\ keys \in [Jobs -> SUBSET Jobs]
  /\ err \in BOOLEAN
  /\ dockerConfig \in {"none", "partial", "full"}

\* The entry point of the container copies the docker configuration; a process
\* started by hand may find none.
Init ==
  /\ proc = "starting" /\ wg = 0
  /\ pc = [j \in Jobs |-> "new"] /\ leaving = {}
  /\ cwd = Home /\ kubeconfig = DefaultFile
  /\ sock = None /\ dialed = [j \in Jobs |-> None] /\ keys = [j \in Jobs |-> {}]
  /\ err = FALSE
  /\ context = [f \in Files |-> FirstContext]
  /\ dockerConfig \in {"none"} \cup (IF Mounted THEN {"full"} ELSE {})

-----------------------------------------------------------------------------
Alive == proc \in {"starting", "waiting", "interrupted"}

Move(j, from, to) ==
  /\ Alive /\ pc[j] = from
  /\ pc' = [pc EXCEPT ![j] = to]
  /\ UNCHANGED <<proc, wg, leaving>>

\* RunOneJob returns, or panics and recovers: its deferred function is next.
Stop(j, from) == Move(j, from, "returning") /\ UNCHANGED shared

\* RunExternalCmd "kubectx": selects the context of the job in the file kubectl
\* uses now.
Kubectx(j) == context' = [context EXCEPT ![kubeconfig] = ContextOf[j]]

-----------------------------------------------------------------------------
(***************************************************************************)
(* The start of a job: cluster, ssh agent.                                 *)
(***************************************************************************)
AfterBegin(j) == IF j \in Deployers THEN "context" ELSE "agent"

\* A job file that names a kubeconfig file sets it for the whole process.
Begin(j) ==
  /\ Move(j, "begin", AfterBegin(j))
  /\ kubeconfig' = IF j \in Deployers /\ KubeconfigOf[j] # None THEN KubeconfigOf[j] ELSE kubeconfig
  /\ UNCHANGED <<cwd, context, sock, dialed, keys, err, dockerConfig>>

\* GetImageTag at the start: no failure of it ends the job, but it asks the
\* cluster only after kubectx has worked.
SwitchAtStart(j) ==
  \/ /\ Move(j, "context", "ask") /\ Kubectx(j)
     /\ UNCHANGED <<cwd, kubeconfig, sock, dialed, keys, err, dockerConfig>>
  \/ Move(j, "context", "agent") /\ UNCHANGED shared

AskCluster(j) == Move(j, "ask", "agent") /\ UNCHANGED shared

\* AddKeyToSshAgent tests SSH_AUTH_SOCK, starts an agent, sets the variable,
\* connects to the agent the variable names by then and adds the key.
TestAgent(j) ==
  Move(j, "agent", IF sock = None THEN "start agent" ELSE "dial") /\ UNCHANGED shared

\* Mutant: the variable is set to the script ssh-agent prints.
StartAgentKeepingScript(j) ==
  /\ Move(j, "start agent", "dial")
  /\ sock' = "script"
  /\ UNCHANGED <<cwd, kubeconfig, context, dialed, keys, err, dockerConfig>>

StartAgent(j) ==
  /\ Move(j, "start agent", "dial")
  /\ sock' = j
  /\ UNCHANGED <<cwd, kubeconfig, context, dialed, keys, err, dockerConfig>>

Dial(j) ==
  /\ Move(j, "dial", "add key")
  /\ dialed' = [dialed EXCEPT ![j] = sock]
  /\ UNCHANGED <<cwd, kubeconfig, context, sock, keys, err, dockerConfig>>

\* Mutant: an error of the agent is dropped.
AddKeyIgnoringErrors(j) ==
  /\ Move(j, "add key", "chdir pull")
  /\ keys' \in {keys, [keys EXCEPT ![dialed[j]] = @ \cup {j}]}
  /\ UNCHANGED <<cwd, kubeconfig, context, sock, dialed, err, dockerConfig>>

AddKey(j) ==
  /\ Move(j, "add key", "chdir pull")
  /\ keys' = [keys EXCEPT ![dialed[j]] = @ \cup {j}]
  /\ UNCHANGED <<cwd, kubeconfig, context, sock, dialed, err, dockerConfig>>

-----------------------------------------------------------------------------
(***************************************************************************)
(* A round: pull, and for a new release build, synchronise and deploy.     *)
(***************************************************************************)
AfterBuild(j) == IF j \in Deployers THEN "chdir home" ELSE "tail"
AfterPull(j) == IF j \in Builders THEN "auth" ELSE AfterBuild(j)

ChdirPull(j) ==
  /\ Move(j, "chdir pull", "pull")
  /\ cwd' = j
  /\ UNCHANGED <<kubeconfig, context, sock, dialed, keys, err, dockerConfig>>

\* CliPull: git pull in the working directory, with the keys of the agent or of
\* the ssh configuration; then a release is found or not.
Pull(j) == \E to \in {"tail", AfterPull(j)} : Move(j, "pull", to) /\ UNCHANGED shared

\* SetAuth: a docker configuration that exists is used, else a mounted one is
\* copied.  Made from variables, it is written to a file nobody reads, and the
\* copy that follows has no source; DOCKER_PASSWORD and DOCKER_USER, which it
\* sets for the process, are read by SetAuth only, for that file.  Its errors
\* are dropped.
SetAuth(j) ==
  /\ Move(j, "auth", IF dockerConfig = "none" /\ Mounted THEN "create" ELSE "chdir build")
  /\ UNCHANGED shared

\* CopyFile truncates, then copies.  Its errors are dropped.  What is copied
\* into a file that was removed in between is lost.
CreateDockerConfig(j) ==
  \/ /\ Move(j, "create", "copy") /\ dockerConfig' = "partial"
     /\ UNCHANGED <<cwd, kubeconfig, context, sock, dialed, keys, err>>
  \/ Move(j, "create", "chdir build") /\ UNCHANGED shared

CopyDockerConfig(j) ==
  /\ Move(j, "copy", "chdir build")
  /\ dockerConfig' \in {dockerConfig, IF dockerConfig = "none" THEN "none" ELSE "full"}
  /\ UNCHANGED <<cwd, kubeconfig, context, sock, dialed, keys, err>>

\* DockerImageBuildx keeps the results of its calls in the package variable
\* err and reads them from there.
ChdirBuild(j) ==
  /\ Move(j, "chdir build", "test err")
  /\ \/ cwd' = j /\ err' = FALSE
     \/ err' = TRUE /\ UNCHANGED cwd
  /\ UNCHANGED <<kubeconfig, context, sock, dialed, keys, dockerConfig>>

TestErr(j) == Move(j, "test err", IF err THEN "returning" ELSE "build") /\ UNCHANGED shared

\* docker buildx build in the working directory.
Build(j) ==
  /\ Move(j, "build", "return err")
  /\ err' \in BOOLEAN
  /\ UNCHANGED <<cwd, kubeconfig, context, sock, dialed, keys, dockerConfig>>

ReturnErr(j) ==
  Move(j, "return err", IF err THEN "returning" ELSE AfterBuild(j)) /\ UNCHANGED shared

ChdirHome(j) ==
  /\ Move(j, "chdir home", "render")
  /\ cwd' \in {Home, cwd}
  /\ UNCHANGED <<kubeconfig, context, sock, dialed, keys, err, dockerConfig>>

\* GenerateManifest reads the template from the working directory.
Render(j) == Move(j, "render", "switch") /\ UNCHANGED shared

\* Mutant: the context of the start is relied on.
ApplyWithoutSwitch(j) == Move(j, "switch", "apply") /\ UNCHANGED shared

\* kubectx before the apply.
Switch(j) ==
  /\ Move(j, "switch", "apply") /\ Kubectx(j)
  /\ UNCHANGED <<cwd, kubeconfig, sock, dialed, keys, err, dockerConfig>>

Apply(j) == Move(j, "apply", "ready") /\ UNCHANGED shared

\* GetDeploymentReadinessStatus runs kubectx and kubectl side by side in a
\* pipe: kubectl may ask before the context is set, and kubectx may fail.
PipedKubectx(j) == context' = context \/ Kubectx(j)

\* The readiness checks.  Any failure counts as not ready; then the next check
\* follows, or the end of the round or of the job.
Ready(j) ==
  /\ \E to \in {"ready", "confirm", "tail", "returning"} : Move(j, "ready", to)
  /\ PipedKubectx(j)
  /\ UNCHANGED <<cwd, kubeconfig, sock, dialed, keys, err, dockerConfig>>

\* GetImageTag after the readiness check.
Confirm(j) ==
  /\ Move(j, "confirm", "check") /\ Kubectx(j)
  /\ UNCHANGED <<cwd, kubeconfig, sock, dialed, keys, err, dockerConfig>>

Check(j) == Move(j, "check", "tail") /\ UNCHANGED shared

\* The job file has not changed: the next round.
NextRound(j) == Move(j, "tail", "chdir pull") /\ UNCHANGED shared

\* A failure that ends the job.
Failing == {"begin", "agent", "start agent", "dial", "add key", "chdir pull", "pull", "render",
            "switch", "apply", "confirm", "check", "tail"}
Fail(j) == \E stage \in Failing : Stop(j, stage)

-----------------------------------------------------------------------------
(***************************************************************************)
(* Goroutines and the WaitGroup.                                           *)
(***************************************************************************)

\* Mutant: the restarted job is not counted.
ReloadWithoutAdd(j) ==
  /\ Alive /\ pc[j] = "tail" /\ j \notin leaving
  /\ pc' = [pc EXCEPT ![j] = "begin"]
  /\ leaving' = leaving \cup {j}
  /\ UNCHANGED <<proc, wg, shared>>

\* Mutant: the restarted job is counted twice.
ReloadWithTwoAdds(j) ==
  /\ Alive /\ pc[j] = "tail" /\ j \notin leaving
  /\ wg' = wg + 2
  /\ pc' = [pc EXCEPT ![j] = "begin"]
  /\ leaving' = leaving \cup {j}
  /\ UNCHANGED <<proc, shared>>

\* The job file has changed: a new RunOneJob is counted and started, the old
\* one returns.  Bound: at most one old RunOneJob of a job.
Reload(j) ==
  /\ Alive /\ pc[j] = "tail" /\ j \notin leaving
  /\ wg' = wg + 1
  /\ pc' = [pc EXCEPT ![j] = "begin"]
  /\ leaving' = leaving \cup {j}
  /\ UNCHANGED <<proc, shared>>

\* The job file is gone when it is read again: the panic takes the process.
ReloadOfNothing(j) ==
  /\ Alive /\ pc[j] = "tail"
  /\ proc' = "down"
  /\ UNCHANGED <<wg, pc, leaving, shared>>

\* The deferred wg.Done() of the old and of the current RunOneJob.
DoneAfterReload(j) ==
  /\ Alive /\ j \in leaving
  /\ leaving' = leaving \ {j} /\ wg' = wg - 1
  /\ UNCHANGED <<proc, pc, shared>>

Done(j) ==
  /\ Alive /\ pc[j] = "returning"
  /\ pc' = [pc EXCEPT ![j] = "ended"] /\ wg' = wg - 1
  /\ UNCHANGED <<proc, leaving, shared>>

JobStep(j) ==
  \/ Begin(j) \/ SwitchAtStart(j) \/ AskCluster(j)
  \/ TestAgent(j) \/ StartAgent(j) \/ Dial(j) \/ AddKey(j)
  \/ ChdirPull(j) \/ Pull(j) \/ SetAuth(j) \/ CreateDockerConfig(j) \/ CopyDockerConfig(j)
  \/ ChdirBuild(j) \/ TestErr(j) \/ Build(j) \/ ReturnErr(j)
  \/ ChdirHome(j) \/ Render(j) \/ Switch(j) \/ Apply(j) \/ Ready(j) \/ Confirm(j) \/ Check(j)
  \/ NextRound(j) \/ Fail(j) \/ Reload(j) \/ ReloadOfNothing(j)

\* main: wg.Add(1) and go, for one job after the other; then it waits.
StartJob(j) ==
  /\ proc = "starting" /\ pc[j] = "new"
  /\ wg' = wg + 1
  /\ pc' = [pc EXCEPT ![j] = "begin"]
  /\ proc' = IF \E k \in Jobs \ {j} : pc[k] = "new" THEN "starting" ELSE "waiting"
  /\ UNCHANGED <<leaving, shared>>

MainReturns ==
  /\ proc \in {"waiting", "interrupted"} /\ wg = 0
  /\ proc' = "returned"
  /\ UNCHANGED <<wg, pc, leaving, shared>>

\* SIGINT: CtrCHandler removes the docker configuration and exits.
Interrupt ==
  /\ proc = "waiting"
  /\ proc' = "interrupted" /\ dockerConfig' = "none"
  /\ UNCHANGED <<wg, pc, leaving, cwd, kubeconfig, context, sock, dialed, keys, err>>

Exit ==
  /\ proc = "interrupted"
  /\ proc' = "down"
  /\ UNCHANGED <<wg, pc, leaving, shared>>

Kill ==
  /\ Alive
  /\ proc' = "down"
  /\ UNCHANGED <<wg, pc, leaving, shared>>

\* Started again by hand, or as a container by its entry point, which copies
\* the kubeconfig files and the docker configuration anew.
Restart ==
  /\ proc \in {"returned", "down"}
  /\ proc' = "starting" /\ wg' = 0
  /\ pc' = [j \in Jobs |-> "new"] /\ leaving' = {}
  /\ cwd' = Home /\ kubeconfig' = DefaultFile
  /\ sock' = None /\ dialed' = [j \in Jobs |-> None] /\ keys' = [j \in Jobs |-> {}]
  /\ err' = FALSE
  /\ \/ UNCHANGED <<context, dockerConfig>>
     \/ /\ context' = [f \in Files |-> FirstContext]
        /\ dockerConfig' = IF Mounted THEN "full" ELSE "none"

Next ==
  \/ \E j \in Jobs : JobStep(j) \/ DoneAfterReload(j) \/ Done(j) \/ StartJob(j)
  \/ MainReturns \/ Interrupt \/ Exit \/ Kill \/ Restart

Spec == Init /\ [][Next]_vars

\* Goroutines that return do so, main starts its jobs, and the supervisor
\* starts a process that ended.  No job has to end.
Fairness ==
  /\ \A j \in Jobs : WF_vars(StartJob(j)) /\ WF_vars(Done(j)) /\ WF_vars(DoneAfterReload(j))
  /\ WF_vars(MainReturns) /\ WF_vars(Exit) /\ WF_vars(Restart)

FairSpec == Spec /\ Fairness

-----------------------------------------------------------------------------
(***************************************************************************)
(* What makes the process correct.                                         *)
(***************************************************************************)

\* main returns, and with it every goroutine ends, only when no RunOneJob is
\* left to run, whatever reloads and failures overlap: a reloaded job is
\* counted before its predecessor is done.  Nor is one done that was not
\* counted, which would panic.
NoJobIsCutOff ==
  /\ wg >= 0
  /\ proc = "returned" => leaving = {} /\ \A j \in Jobs : pc[j] = "ended"

\* If all deploying jobs have one cluster, every kubectl asks or changes that
\* cluster, although the kubeconfig file selects another one at first and
\* any kubectx may fail.
EffectiveFile(j) == IF KubeconfigOf[j] = None THEN DefaultFile ELSE KubeconfigOf[j]
OneCluster ==
  \A j, k \in Deployers : EffectiveFile(j) = EffectiveFile(k) /\ ContextOf[j] = ContextOf[k]
Asking == {"ask", "apply", "ready", "check"}
RightCluster ==
  OneCluster =>
    \A j \in Jobs : (Alive /\ pc[j] \in Asking) =>
      kubeconfig = EffectiveFile(j) /\ context[kubeconfig] = ContextOf[j]

\* The agent git pull uses holds the key of the job that started it once that
\* job has got past its start, also if several jobs start agents at once.
PastAgent == {"chdir pull", "pull", "auth", "create", "copy", "chdir build", "test err", "build",
              "return err", "chdir home", "render", "switch", "apply", "ready", "confirm", "check",
              "tail"}
AgentHasKeyOfItsJob ==
  (sock # None /\ pc[sock] \in PastAgent) => sock \in keys[sock]

\* When all jobs are over, or about to be, the process ends and all are
\* started again: no job is counted that no longer runs.
JobsAreStartedAgain ==
  (proc = "waiting" /\ \A j \in Jobs : pc[j] \in {"returning", "ended"}) ~> (proc = "starting")

-----------------------------------------------------------------------------
(***************************************************************************)
(* What a message says, and several jobs in a process undo.                *)
(***************************************************************************)

\* "successfully build image %s": an image of a job is built in the folder of
\* its own repository.
BuiltInOwnFolder == \A j \in Jobs : pc[j] = "build" => cwd = j
=============================================================================
