CONSTANTS
  Names = {"a", "b"}
  NoName = "noname"
  None = "none"
  HostOf <- MCHostOf
  Start <- MCStart
  Secrets <- MCSecrets
  SelfSigned = {"noname"}
  Nicks = {"x"}
  Kinds = {"pm", "notice"}
  MaxSteps = 2
  MaxJobs = 2
SPECIFICATION Spec
CHECK_DEADLOCK FALSE
INVARIANTS ServersInv
PROPERTIES CopiesAgree WaitsEnd
