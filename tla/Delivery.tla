------------------------------ MODULE Delivery -------------------------------
(***************************************************************************)
(* What a job promises, without saying how: it takes up one release at a   *)
(* time, a tag and the commit it stood for, with the stages the job file   *)
(* asks for.  The stages happen in their order, a stage starts only when   *)
(* the ones before it have worked, and the release is recorded as          *)
(* delivered only when all of them have.  The job may give up at any time. *)
(***************************************************************************)
CONSTANTS
  Tags, Commits, None,
  Recordable,     \* values of the record: a tag, or what stands for no tag
  Confirms(_, _)  \* whether the image tag a cluster names confirms a release

VARIABLES
  work,      \* the release taken up, the stages it needs and the ones done; or None
  registry,  \* the commit each published image was built from
  target,    \* the commit the folder was synchronised from; None for a mixture
  cluster,   \* the image tag in the cluster
  current    \* the release recorded as delivered

vars == <<work, registry, target, cluster, current>>

Stages == {"build", "sync", "deploy"}
Before(stage) == CASE stage = "build" -> {} [] stage = "sync" -> {"build"}
                   [] stage = "deploy" -> {"build", "sync"}

Init ==
  /\ work = None
  /\ registry = [t \in Tags |-> None] /\ target = None /\ cluster = None
  /\ current \in Recordable

\* The stage is needed, not done, and those before it are done if needed.
Due(stage) ==
  /\ work # None /\ stage \in work.needs \ work.done
  /\ work.needs \cap Before(stage) \subseteq work.done

Advance(stage) == work' = [work EXCEPT !.done = @ \cup {stage}]
GiveUp == work' = None

\* A release with at least one stage to do is taken up.
Take ==
  /\ work = None
  /\ \E t \in Tags, c \in Commits, needs \in (SUBSET Stages) \ {{}} :
       work' = [tag |-> t, commit |-> c, needs |-> needs, done |-> {}]
  /\ UNCHANGED <<registry, target, cluster, current>>

\* The image is published; with nothing else to do, that is the delivery.
Build ==
  /\ Due("build")
  /\ registry' = [registry EXCEPT ![work.tag] = work.commit]
  /\ \/ (Advance("build") \/ GiveUp) /\ UNCHANGED current
     \/ work.needs = {"build"} /\ current' = work.tag /\ work' = None
  /\ UNCHANGED <<target, cluster>>

\* The folder is synchronised; a transfer that fails may leave a mixture.
Sync ==
  /\ Due("sync")
  /\ \/ target' = work.commit /\ (Advance("sync") \/ GiveUp)
     \/ target' = None /\ GiveUp
  /\ UNCHANGED <<registry, cluster, current>>

Deploy ==
  /\ Due("deploy")
  /\ cluster' = work.tag
  /\ Advance("deploy") \/ GiveUp
  /\ UNCHANGED <<registry, target, current>>

\* All stages are done and the cluster confirms the release.
Finish ==
  /\ work # None /\ work.done = work.needs
  /\ "deploy" \in work.needs => Confirms(cluster, work.tag)
  /\ current' = work.tag /\ work' = None
  /\ UNCHANGED <<registry, target, cluster>>

Abandon == GiveUp /\ UNCHANGED <<registry, target, cluster, current>>

\* A new start, with nothing taken up, may record any release.
StartOver ==
  /\ work = None
  /\ current' \in Recordable
  /\ UNCHANGED <<work, registry, target, cluster>>

\* Others change the image in the cluster.
Drift ==
  /\ cluster' \in Tags
  /\ UNCHANGED <<work, registry, target, current>>

Next == Take \/ Build \/ Sync \/ Deploy \/ Finish \/ Abandon \/ StartOver \/ Drift

Spec == Init /\ [][Next]_vars
=============================================================================
