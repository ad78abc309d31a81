# A TLA+ model of DirectCD (cdddru)

DirectCD is a small continuous-delivery agent. A process runs *jobs*; each job
is described by a job file and watches one git repository. When a new version
tag appears, the job checks it out, builds and pushes a docker image,
synchronises a folder with `rsync` and applies a Kubernetes manifest, then
waits until the cluster is ready and remembers the tag in a start-tag file.
This directory models the start-up, the process, the job with its surroundings
and its pure functions, checks them with TLC and proves the safety properties
with TLAPS.

## The system

| Part | State it keeps | Operations | Code |
|---|---|---|---|
| job loop | current tag, release found, attempts, hash of the job file | start, round, stages, retry, reload | `workload.go` `RunOneJob` |
| version tags | none | convert, compare, greatest tag, tag of an image | `lib.go` |
| git access | local clone, work tree, ssh agent | open or clone, pull, list tags, check out | `types-git.go`, `lib.go` |
| image build | registry, docker configuration | `SetAuth`, `DockerImageBuildx` | `types-docker.go` |
| folder synchronisation | target folder | `Rsync` | `lib.go` |
| deployment | image in the spec, ready pods | render, apply, image tag, readiness | `lib.go`, `workload.go` |
| timing of a round | seconds waited | `GetIntervals`, closing sleep | `utils.go`, `workload.go` |
| start-up and job files | list of configurations, working directory | flags, folder walk, `getOneConfig`, substitutions | `init.go`, `types.go` |
| process and signals | goroutines, WaitGroup | start jobs, wait, SIGINT | `main.go` |
| external commands | none | run one, run a pipe | `utils.go` |

`main` reads the job files and starts one goroutine per job. A job talks to the
others only by accident, through state of the process: the working directory,
the kubectl context, the environment and the package variable `err`. It talks
to the world by running commands; nearly every failure ends the job, by a
return or by a panic its deferred function recovers. The process ends when its
jobs have, and the container is then started again. What survives is the
start-tag file, the local clone, the registry, the target folder and the
cluster.

What is hard, and what makes each part correct:

- *crash and restart*: every file the job leaves behind must be one the next
  start can use; the start-tag file and the clone are written in two steps;
- *order*: hash of the current tag before the pull, build before apply, memory
  before file, configuration before its hash;
- *failure of one stage*: no later stage may go on with what it left;
- *interleaving of jobs*: two jobs share the working directory, the
  environment, the context of kubectl, a package variable and the docker
  configuration, and no lock guards any of them;
- *interleaving with the world*: tags are pushed and moved, the job file is
  edited, the deployment is changed by others and rolls out at its own pace;
- *bounds*: attempts, the limit `GIT_MAX_TAG`, two digits per version part,
  the time of a round;
- *progress*: the newest release under the limit is delivered in the end.

`PROJECT.json` lists these hazards with the line at which each one bites.

## Modules

- **Tags**: version tags and the functions of `lib.go` on them. A tag is its
  prefix and its parts; a part `strconv.Atoi` rejects is `NaN`. A function
  answers "ok", "err" or "panic", since a tag with too few parts is an index
  out of range in the code.
- **TagScan**: the loop of `GetMaxTag`, one step per tag. `Tags!MaxTagAnswers`
  is its specification: the answers allowed for a *set* of tags. `Job` uses the
  specification; `TagScan` shows that the loop implements it.
- **ApplyWait**: one round in seconds: the floor of `CHECK_INTERVAL`, the five
  pauses, the sleep that closes the round.
- **Job**: `RunOneJob` and what surrounds it. `pc` names the place in the code.
- **Delivery**: what a job promises, without saying how. **JobDelivery** maps
  the state of `Job` to it.
- **Process**: `main` and several jobs at once, seen from what they share.
- **Startup**: from the command line to the list of jobs.
- **MCTagScan, MCApplyWait, MCJob, MCProcess, MCStartup**: the instances TLC
  checks.
- **TagsProofs, TagScanProofs, ApplyWaitProofs, JobProofs, JobDeliveryProofs,
  ProcessProofs, StartupProofs**: lemmas and theorems. **StartupLists**: what
  StartupProofs needs to know of lists, by induction.

### Job

| Action | Code | Remark |
|---|---|---|
| `Begin`, `Store` | `workload.go` 16-99 | choice of the start tag; its file is truncated, then written |
| `OpenRepo`, `CloneRepo` | `types-git.go` 35-163, `workload.go` 113-152 | `repo` is "partial" while a clone runs |
| `Poll` | 155-208 | hash, check-out of the branch, pull, tags, decision |
| `Checkout`, `Build`, `Sync`, `Apply` | 212-333 | the stages, each of which may fail half-way |
| `CheckReady`, `Verify`, `Record` | 334-365 | readiness, image tag, start-tag file |
| `EndRound`, `Reload` | 366-405 | hash of the job file, new configuration |
| `Restart` | `main.go` | the container is started again, on its old file system or a new one |
| `Crash`, `Publish`, `EditJobFile`, `Drift`, `Rollout` | | the world |

`Fault` in an action is the failure of a command in it, `Works` its success.
A stage that fails may or may not have had its effect. `originalSHA` is the
content that was hashed, which identifies the hash with what it is a hash of.
`applied` is a history variable: how often this run of the job has applied each
release without success, which `retryApply`, reset for every other release, does
not tell.
A commit is what a tag points to; the tip of the branch is `None`, since
nothing is ever built from it. `None` stands for anything that is not there.

Simplifications: the process has this one job; what several share is in
`Process`. Waiting is in `ApplyWait`. The three commands of `Poll` are one
step: between them the job only reads what no other actor changes, except the
remote, which the pull reads once. A job file that cannot be parsed is a
`Fault` of `Reload`. A clone that fails leaves nothing, as go-git removes what
it wrote to a folder that was missing or empty, which the folder of a first
clone is taken to be; a check-out that fails after it leaves the clone. A
synchronised folder that is a mixture is `None`. An image that an apply refers
to and a job does not build is taken to be in the registry.

### Delivery

`Delivery` takes up one release at a time (a tag, its commit and the stages the
job file asks for), does the stages in their order, may give up at any time,
and records the release when all stages are done and the cluster confirms it.
`JobDelivery` says what is taken up: nothing outside of the stages, and between
the check-out and the record the release `strMaxTag` on the commit `head`, with
the stages that lie behind `pc` done. A start of the job, which reads its tag
from the cluster, the file or the configuration, is `StartOver`; a crash and
every failure are `Abandon`, or a stage that had its effect before it failed.

### Process

A job is reduced to the commands that read or write what the process shares,
in their order; every one may be followed by a step of another job.

| State | Shared because | Actions |
|---|---|---|
| `cwd` | `os.Chdir`, `types-git.go` 166, `types-docker.go` 87, `workload.go` 297 | `ChdirPull`, `ChdirBuild`, `ChdirHome` |
| `kubeconfig`, `context` | `os.Setenv` (`workload.go` 62), `kubectx` in `lib.go` and `workload.go` | `Begin`, `SwitchAtStart`, `Switch`, `Ready`, `Confirm` |
| `sock`, `dialed`, `keys` | `SSH_AUTH_SOCK`, `types-git.go` 60-100 | `TestAgent`, `StartAgent`, `Dial`, `AddKey` |
| `err` | package variable, `types-docker.go` 87-96 | `ChdirBuild`, `TestErr`, `Build`, `ReturnErr` |
| `dockerConfig` | home directory, `types-docker.go` 50-80, `CopyFile`, `CtrCHandler` | `SetAuth`, `CreateDockerConfig`, `CopyDockerConfig`, `Interrupt` |
| `wg`, `proc`, `leaving` | `main.go`, `workload.go` 20-30, 396 | `StartJob`, `Reload`, `DoneAfterReload`, `Done`, `MainReturns`, `Exit`, `Kill`, `Restart` |

`DOCKER_PASSWORD` and `DOCKER_USER`, which `SetAuth` sets for the
process, are left out: only `SetAuth` reads them, for a file nobody uses. Pods,
tags and images are left to `Job`: a job finds a new release or does not, and each command works or fails.

### Startup

| Action | Code |
|---|---|
| `Flag`, `Positional`, `ParseAgain`, `FlagAgain`, `Parsed` | `ParseFlagSet` in `utils.go`; `flag.Parse` is external |
| `Plan` | choice between a folder, named files and the defaults, `init.go` |
| `Skip`, `WalkPanics`, `Read`, `Complete` | the walk, the loop over the arguments, `getOneConfig` |
| `ReplaceEnv`, `Unmarshal`, `ReplaceField` | `ReplaceEnvs`, `ReplaceConfigFields`, `getFieldValue` in `types.go` |
| `StartJobs` | the checks of `main` |

Which names a pattern of `-f` selects in a folder (`filepath.Match`) is the
constant `Selects`. A text of a job file is a literal or, as a whole, a reference; a text with a
reference inside it behaves like the reference. What a regular expression finds
in a text, and what the properties say of a line, is given by positions
(`Pick`), without recursion, so that it can be reasoned about.

## Runs

| Run | Shows |
|---|---|
| TagScan | `AnswerIsMaximum`, `PackingKeepsOrder`: all listings of up to three of ten tags, on both sides of v1.0.0, the limits and 99, with malformed ones |
| ApplyWait | `RoundLastsInterval`, `PausesGrow`: intervals around 120 s and around 807 s, where the growing pauses set in, and samples up to a day |
| JobSafety | `ReleaseIsWhatTagSays`, `UnderMaxTag`, `AppliesBounded`, `StoredTagIsCurrent`, `LeavesUsableFiles`, `OnlyForward`, and that the job implements `Delivery`: two releases, two commits, three kinds of pipeline and a lowered limit, each event once at any time |
| JobOnce | `OnceMeansOneRound` with `-oncerun`, over the job files on which the job stops early and a repository with a lightweight tag, a patch number above 99 and a tag that is no version |
| JobLive | `EventuallyUpToDate`, `EventuallyQuiet` under fairness: a job that deploys, one with a lower limit and one that only builds, with up to two edits from one to another |
| Process | `NoJobIsCutOff`, `RightCluster`, `AgentHasKeyOfItsJob`, `JobsAreStartedAgain`: two jobs that deploy, one of which builds |
| Startup | `FlagsAnywhere`, `ReferencesResolved`, `AllOrNothing`, `DistinctNames`, `Terminates`: all lines of up to four words, a pattern among them, and job files with chains and circles of references |

and the disagreements between the code and what its comments and messages say
(`findings` in `PROJECT.json`):

| Run | What TLC finds |
|---|---|
| JobStartTag | a crash leaves an empty start-tag file, and the job starts from "" |
| JobReady | "applyed successfully" while only old pods are ready |
| JobSuspend | an edit between reading and hashing the job file is never noticed |
| JobRemoved | a job file that is removed kills the process, not the job |
| ProcessBuild | a job builds its image in the folder of another job's repository |

Some properties hold under a condition, which is part of what they say:
`RightCluster` if all deploying jobs have one cluster (what happens with two is
below), `AgentHasKeyOfItsJob` for the job whose agent stays in use,
`FlagsAnywhere` for lines without `--`, `DistinctNames` for a folder (files named
on the command line may share a name, and with it a start-tag file),
`ReferencesResolved` if a field refers to another reference
only further down.

Seen while modelling, without a run of their own:

- `GetMaxTag` answers v1.0.0 when no tag is eligible, also if there is no such
  tag; the job then ends at the check-out, in every start.
- `retryApply` is raised after an apply and compared with `> 3` at the end of the
  attempt (`workload.go` 333, 362): a release is applied four times, where the
  message at 364 says three.
- Several jobs in a process get in each other's way, as invariants that say
  otherwise show in `Process`. Two that build: `err` of a failed build is set to
  nil by the `os.Chdir` of the other before it is returned (`types-docker.go`
  87-96), and the image that was not built is deployed. Two that deploy to
  different contexts: one runs its `kubectx` between the `kubectx` and the
  `kubectl apply` of the other (`workload.go` 314-324). Two that name different
  kubeconfig files: the last start sets `KUBECONFIG` for both (62). Two that
  start at once: both find no ssh agent (`types-git.go` 65), and the one that
  sets `SSH_AUTH_SOCK` first pulls with an agent that has not its key; it may
  end, and is started again only when its neighbours have ended too.
- Behind `--` one word is protected and the rest is parsed as flags again, and
  the last parse, which "should never return an error" (`utils.go` 43), fails on
  `-- -f`.
- For an image that does not match, `GetImageTag` answers v0.0.0 (`lib.go` 74),
  which is no version under a prefix other than v (`assets-` in
  `jobs/config-main-ddru-assets.yaml` is one): a job that deploys starts from it
  and ends at the comparison with the limit, in every start.
- The docker configuration a copy was cut off at (SIGINT, two builders) is used
  ever after, as `SetAuth` only tests that the file exists and drops the errors
  of `CopyFile`. Nothing in the code says what should hold, so no property does.
- The tag "currently running" (`workload.go` 72) is the one in the spec of the
  deployment, which pods may not have followed.
- A job that synchronises without deploying never records the release
  (251-256, 279-292) and repeats the synchronisation in every round.
- `-jobname` and `-delay` are not used; the names of files are ignored with
  `-j`; the default of a binary, `jobs/config.json` beside it, is walked like a
  folder and never gives a job.
- `SetAuth` writes a configuration made from variables to one file and copies
  another, missing one (`types-docker.go` 76, 80).
- A private key given by `VAR:` is added to the agent, but `OpenOrCloneRepo`
  reads it as the name of a file (`types-git.go` 113).
- The default of `DOCKER_PLATFORMS` is read from `DO_DOCKER_BUILD` (`types.go`
  197).
- `wg.Done` comes before the recovery in the deferred function (`workload.go`
  24-26), so `main` may return before the last message is written.

Bounds. `Bound` of `Job` limits how often each event of the world happens; one
of each, at every point of the job, already produces every pair of a failure
and a later restart. Two releases are enough for an upgrade, a downgrade and a
release that appears between two attempts; two commits are enough for a tag
that moves. Attempts need no bound: the code bounds them. Commits are
interchangeable, which is the symmetry of the safety runs; the liveness runs
use none. In `Process` at most one former RunOneJob of a job is still to return
(`leaving`): it has nothing left to do but its deferred function. Two jobs are
enough for every pair of commands to be interleaved, and the theorems hold for
any number. In `Startup` four words hold a flag with its value between two
positional words, and three fields the shortest chain and a circle.
`CHECK_DEADLOCK FALSE` is set where the system may stop: the scan, the round
and the start-up end, and a job without a job file is not started again.
`Process` never stops, and its run checks that.

Fairness. `Job!FairSpec`: a goroutine that can take a step does; the container
of a process that ended is started again, as Kubernetes does for a Deployment
(`k8s-deploy-cddru-new.yaml`); the cluster rolls out what it can. Nobody has to
push, edit, fail or crash. `Process!FairSpec` asks only that `main` starts its
jobs, that deferred functions run, that `main` and the signal handler go on
and that the container is started again; no job has to end. `Startup` is a
sequential program that takes its next step.

`EventuallyUpToDate` names its exceptions: the two leftovers of a crash with
which no start succeeds (`CannotStart`), a job file that is gone or not active,
and a release that was recorded when it was only built and counts as delivered
when a deployment is added later (`SkippedDeployment`). So does
`EventuallyQuiet`: a job that synchronises without deploying, a tag that does
not read back (a patch number above 99), a repository without a release under
the limit.

## Proofs

The theorems hold for all sets of tags, commits and job files, any number of
events, all listings and all intervals, any finite set of jobs, all command
lines and contents of job files; they assume only the named `ASSUME`s of the
modules (the sets have the right types, `None` is none of the others, versions
have at most four digits per part).

- **GetMaxTagCorrect**: `ScanInv` says of the tags looked at so far that they
  are all versions, that the best one is the default or one of them, and that
  no eligible one is greater; when the scan ends this is `MaxTagAnswers`.
- **PackingCorrect**: the packed number is a two-digit positional system, a
  case per position at which two versions differ.
- **RoundCorrect**, **PausesCorrect**: linear bounds on the five pauses, from
  the definition of integer division, make the sum of the first *n* at most
  three quarters of the interval.
- **ReleaseCorrect, LimitRespected, ForwardCorrect**: from one
  inductive invariant `JobInv`. None of the properties is inductive: that an
  image comes from the tagged commit when it is applied needs that the work
  tree was the commit when it was built (`CheckedOut`), that the image is there
  in every stage after (`Built`, `Synced`); `OnlyForward` and `UnderMaxTag` need
  what `Poll` decided (`Chosen`) and that the loop is entered only with a limit
  that is a version (`LimitIsVersion`). There is one lemma per action.
- **AttemptsCorrect**: that four is a bound on the applies of a release, and not
  only on the counter, needs `AppliesInv`. A pull deletes no tag and the limit is
  fixed within a run, so the greatest tag never goes back (`FoundGreatest`,
  `MaxTagAnswersGrow`): a release that was passed (`Passed`) is not taken up
  again, and for the one in work the counter bounds its applies (`Counted`).
- **StoredTagCorrect**: inductive together with `JobInv` and the fact that a
  failed command is counted for good (`FaultIsCounted`). **OnceCorrect**: with
  `-oncerun` the attempts are zero up to the one apply (`OnceInv`).
- **FilesCorrect**: the file is empty only while it is written, and what is
  written is never the empty string, because it comes from the job file, the
  cluster or a release that is the current one or greater (`FilesInv`).
- **StartTagCorrect**, **PanicCorrect**, **SingleJobFolder** say how far three
  of the findings go. If the job files name versions to start from and share
  a prefix, any one, a start from anything else needs a crash or a failed
  command before it (`VersionsInv`: whatever the cluster, the file and the
  repository hold is a version). Under a prefix other than v this takes one
  more condition, `ImageIsOfJob`: the image in the cluster has a tag of the job,
  as the v0.0.0 that stands for any other is no version there. A panic
  ends the process only if the job file is gone. With one job in the process
  git and docker run in its own folder, also if a change of directory fails
  (`InOwnFolder`).
- **DeliveryImplemented**: every step of `Job` is a step of `Delivery` or leaves
  its variables alone. `JobInv` gives the commit and the tag, `StageAsked` that
  a stage is entered only if the job file asks for it, which makes the stage
  due in `Delivery`. Steps outside of the stages are `StartOver`.
- **WaitGroupCorrect**: the counter is the number of running RunOneJobs plus
  the number of former ones (`Counted`), and `main` waits once all jobs are
  started (`AllStarted`). **MainIsReleased** reads the same count the other way:
  when all have returned `main` does not wait. **ClusterCorrect**: only a
  deploying job is at a place that asks the cluster (`OwnStages`), KUBECONFIG is
  the default or the one cluster's file (`ClusterFileSet`), and the context is
  selected at every place that asks (`ContextSet`). **AgentCorrect**: the job
  that started the agent in use is connected to it when it adds its key
  (`AgentKept`). All are parts of `ProcessInv`.
- **NamedJobsCorrect**: the jobs read and the files still to read are together
  the files named (`Pending`). **NamesCorrect**: the names found so far differ.
- **StartupTypeCorrect**: `Types` adds that a document, its copy before the
  fields and the references collected from it fit each other (`Document`).
- **ReferencesCorrect**: when references lead down, the document has a
  resolution, a text for each field that is the one of the field it refers to
  (`Resolvable`, by induction from the end). While references are replaced
  (`Replacing`) the document keeps its resolutions, and a reference left in it
  is one still listed; when the list is empty the document is the resolution.
- **FlagsCorrect**: `LineInv` says that the words parsed so far (`ParsedTo`) and
  the words left (`LeftFrom`) are the two parts of the line, that the second
  one does not begin with a value, that the flags seen and the values set are
  those of the first part, and the positional words those `Pick` takes from it
  (`WordsTo`). The second parse finds no flag in them.
- **StartupIsFinite**: stage of start-up, words or files left, part of
  `getOneConfig` and references left, compared in this order, go down in every
  step. The order is well-founded by the library's theorem on lexicographic
  products. With fairness this is why `Terminates` holds.

What is collected from a list of any length needs induction over data. The
library's induction theorems take a predicate as a parameter, which the provers
cannot instantiate; `StartupLists` uses sets of numbers instead: a set of
naturals that is not empty has a least element (`LeastNumber`, from the
well-foundedness of the order), so a set that holds 0 and the successor of each
of its elements holds all of them (`Induction`). With a set comprehension in
place of the predicate this gives that the positions of a line can be listed in
one ascending way (`Listable`, `SamePositions`), how a list grows by one word
(`PickAppend`), and that a line can be read from the left into flags and values
in one way (`ReadTo`, `IsValueReads`).

Every safety property of the passing runs is proved. Only model-checked:
`EventuallyUpToDate`, `EventuallyQuiet`, `JobsAreStartedAgain`, `Terminates`,
as liveness under fairness is out of the prover's reach.

## Not modelled

The logger and all formatting; `lib-docker.go`, `Pull` and
`CheckOutByCommitHash`, which nothing calls; `InlineTest`; vendored packages;
container images and manifests as data; `DO_WATCH_IMAGE_TAG`, which has no code
behind it (`workload.go` 409).

That a moved tag is delivered again after a restart is no property of the code:
the hash of the current tag is read from the local clone, and a clone made
anew, or pulled before the job ended, already holds the moved tag.

## Plan

Done: all parts of the table above, and proofs of all safety properties. What
may still be added: the safety cores of `EventuallyUpToDate` and
`EventuallyQuiet` (what a round of the job that meets no failure leaves
behind), as `StartupIsFinite` and `MainIsReleased` are for the other two; the
composition of `Process` with two copies of `Job`, whose product is too large
for TLC at useful bounds; and the liveness properties as proofs, should the
prover support them.
