-------------------------------- MODULE MCJob --------------------------------
\* One job with two releases or odd ones, two commits and a few job files.
EXTENDS JobDelivery, TLC

V(patch) == Version("v", 1, 0, patch)

MCTags == {V(1), V(2)}
\* A release next to one that does not read back and a tag that is no version.
NoVersion == [prefix |-> "v", parts |-> <<1>>]
MCOddTags == {V(2), V(100), NoVersion}
MCLightweight == {V(2)}
MCNoTags == {}
MCSymmetry == Permutations(Commits)

\* Remotes that start with the older release, or with both.
MCRepos(c) == { (V(1) :> c @@ V(2) :> None), (V(1) :> c @@ V(2) :> c) }
MCAllRepos == UNION { MCRepos(c) : c \in Commits }
MCOddRepos == { (V(2) :> c @@ V(100) :> None @@ NoVersion :> None) : c \in Commits }
MCOldRepo == { (V(1) :> (CHOOSE c \in Commits : TRUE) @@ V(2) :> None) }

\* A job that builds and deploys up to v1.0.9.
Full == [active |-> TRUE, clone |-> TRUE, build |-> TRUE, sync |-> FALSE, deploy |-> TRUE,
         kubeconfig |-> TRUE, testApp |-> TRUE, prefix |-> "v",
         startTag |-> Version("v", 0, 0, 0), maxTag |-> V(9)]
Capped == [Full EXCEPT !.maxTag = V(1)]
Suspended == [Full EXCEPT !.active = FALSE]
BuildOnly == [Full EXCEPT !.deploy = FALSE]
SyncOnly == [BuildOnly EXCEPT !.build = FALSE, !.sync = TRUE]
AllStages == [Full EXCEPT !.sync = TRUE]
NoStages == [BuildOnly EXCEPT !.build = FALSE]

\* Configurations the job stops at.
NoClone == [Full EXCEPT !.clone = FALSE]
NoKubeconfig == [Full EXCEPT !.kubeconfig = FALSE]
NoLimit == [Full EXCEPT !.maxTag = EmptyTag]
NoPrefix == [Full EXCEPT !.prefix = ""]
ShortLimit == [Full EXCEPT !.maxTag = [prefix |-> "v", parts |-> <<1>>]]
OtherNamespace == [Full EXCEPT !.testApp = FALSE]
HighLimit == [AllStages EXCEPT !.maxTag = Version("v", 2, 0, 0)]

MCPipelines == {AllStages, [AllStages EXCEPT !.maxTag = V(1)], BuildOnly, SyncOnly}
MCOdd == {NoStages, NoClone, NoKubeconfig, NoLimit, NoPrefix, ShortLimit, OtherNamespace, HighLimit}
MCLive == {Full, Capped, BuildOnly}
MCFull == {Full}
MCBuildOnly == {BuildOnly}
MCSuspendable == {Full, Suspended}

\* Times that a tag is pushed, the job file edited, the deployment changed by
\* others, a command fails, the process crashes.
Times(push, edit, drift, fault, crash) ==
  ("push" :> push) @@ ("edit" :> edit) @@ ("drift" :> drift) @@ ("fault" :> fault) @@ ("crash" :> crash)
MCEvents == Times(1, 1, 1, 1, 1)
MCEdits == Times(0, 1, 0, 0, 0)
MCTwoEdits == Times(0, 2, 0, 0, 0)
MCCrashes == Times(0, 0, 0, 0, 1)
MCLiveEvents == Times(1, 2, 0, 1, 1)
MCPushes == Times(1, 0, 0, 0, 0)
=============================================================================
