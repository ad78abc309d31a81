CONSTANTS
  main = main
  assets = assets
  kube = kube
  home = home
  Jobs = {main, assets}
  Builders = {main}
  Deployers = {main, assets}
  Files <- MCFiles
  Contexts = {"default", "production"}
  KubeconfigOf <- MCKubeconfigOf
  ContextOf <- MCContextOf
  DefaultFile = home
  FirstContext = "default"
  Mounted = TRUE
  Home = Home
  None = None
SPECIFICATION FairSpec
INVARIANTS TypeOK NoJobIsCutOff RightCluster AgentHasKeyOfItsJob
PROPERTIES JobsAreStartedAgain
