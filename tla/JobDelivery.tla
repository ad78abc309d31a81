---------------------------- MODULE JobDelivery ------------------------------
(***************************************************************************)
(* The job of workload.go implements Delivery.  What it has taken up, and  *)
(* how far it has got, is where RunOneJob is between the check-out of the  *)
(* release and its record.                                                 *)
(***************************************************************************)
EXTENDS Job

ASSUME NoneIsNoWork ==
  None \notin [tag : GitTags, commit : Commits, needs : SUBSET {"build", "sync", "deploy"},
               done : SUBSET {"build", "sync", "deploy"}]

\* The stages the job file asks for, and the ones behind RunOneJob.
Needs == {s \in {"build", "sync", "deploy"} :
            \/ s = "build" /\ cfg.build
            \/ s = "sync" /\ cfg.sync
            \/ s = "deploy" /\ cfg.deploy}
Behind == CASE pc = "build" -> {}
            [] pc = "sync" -> {"build"}
            [] pc = "apply" -> {"build", "sync"}
            [] OTHER -> {"build", "sync", "deploy"}

Working == pc \in {"build", "sync", "apply", "wait", "verify"}
Work ==
  IF Working
    THEN [tag |-> strMaxTag, commit |-> head, needs |-> Needs, done |-> Needs \cap Behind]
    ELSE None

\* The tag GetImageTag reads from the image in the cluster is the release.
ConfirmsRelease(clusterName, tag) ==
  clusterName # None /\ \E p \in Prefixes : ImageTagOf(clusterName, p) = [status |-> "ok", tag |-> tag]

D == INSTANCE Delivery WITH
       Tags <- GitTags, Recordable <- Tag, Confirms <- ConfirmsRelease,
       work <- Work, cluster <- clusterTag, current <- gitCurrentTag

\* Whatever fails, crashes, is pushed, moved or edited between two commands,
\* the stages of RunOneJob happen in order, on the one commit that was checked
\* out, and a release is recorded only after all of them.
ImplementsDelivery == D!Spec
=============================================================================
