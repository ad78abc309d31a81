CONSTANTS
  main = main
  assets = assets
  kube = kube
  home = home
  Jobs = {main, assets}
  Builders = {main}
  Deployers = {main}
  Files <- MCFiles
  Contexts = {"default", "production"}
  KubeconfigOf <- MCKubeconfigOf
  ContextOf <- MCContextOf
  DefaultFile = home
  FirstContext = "default"
  Mounted = TRUE
  Home = Home
  None = None
SPECIFICATION Spec
INVARIANT BuiltInOwnFolder
