------------------------------ MODULE MCProcess ------------------------------
\* Two jobs in one process: the first builds and deploys.
EXTENDS Process, TLC

CONSTANTS main, assets, kube, home

MCFiles == {kube, home}
\* Both jobs deploy to one context of the mounted file, which is not the one
\* selected at first.
MCKubeconfigOf == (main :> kube) @@ (assets :> kube)
MCContextOf == (main :> "production") @@ (assets :> "production")
=============================================================================
