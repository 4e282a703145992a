SPECIFICATION HostSpec
CONSTANTS
  Call = {c1, c2}
  Id = {i1}
  Target = {colima, t1}
  Colima = colima
  Args = {g1, g2}
  Life = {l1, l2}
  None = None
  Cluster = {"m", "x", "y"}
  Managed = "m"
  Iface <- ThreeIfaces
  DtGet = {"get"}
  Relay = {1, 2}
  NoRelay = 0
  MaxEdit = 3
  Trainer = {1, 2}
  GuardCmd = {1}
  GuardConfigs <- OneConfig
  NoTrainer = 0
  Omlx = {o1, o2}
  LiCall = {d1, d2}
  NoOmlx = NoOmlx
  MiB = 4
  MaxU64 = 40
  RcCall = {q1}
  RcModel = {"small", "big"}
  ModelSize <- Sizes
  RcLimit = {0, 2, 20}
  MaxEpoch = 2
  Node = {"r", "d", "f", "g", "l"}
  Root = "r"
  Above <- Tree
  NodeKind <- TreeKinds
  RootAnswer <- CacheRoot
  PfCall = {a}
  Context = {"x", "y"}
  MaxForward = 3
  Jobs <- TwoJobs
  PortRange <- TwoRanges
  NoContext = "none"
  App = {a1, a2}
  Looking = {a2}
  Pid = {1}
  MaxBirth = 3
  Nobody = Nobody
  Runner = {11, 12}
  RunCall = {1, 2}
  NoRunner = 100
  Starting = 0
  Setups = {"prefect"}
  Try = {1, 2}
  BaseOf <- SameBase
  MaxStep = 2
  MaxHarm = 1
  Session = {"s"}
  Scope = {"in", "out"}
  Policy = {"v1", "v2"}
  Arguments = {"few", "many"}
  Presented <- HeldInvocations
  ResolutionId = {1}
  GrantId = {1}
  ApprovalId = {1}
  Executor = {x1, x2}
  Allows <- OnlyIn
  PolicyOf <- FirstPolicy
  From <- Opens
  Until <- Closes
  Ttl = {0, 3}
  MaxTime = 3
  MaxGrant = 1
  MaxApproval = 2
  Repo = {"x"}
  Slug <- OwnSlug
  HubTask = {1, 2}
  HubUpload = {1}
  MaxFile = 2
  MaxVersion = 1
  Log = {"a.log", "b:c.log"}
  Unsafe = {"b:c.log"}
  Fixed <- ThreeFiles
  Extra = ".DS_Store"
  LogKinds <- LogStarts
  MaxDamage = 1
CHECK_DEADLOCK FALSE
INVARIANTS
  OperationsExclude
  AppliesWhatWasConfirmed
  NoReplay
  CachesFollowFile
  OnlyReachedAddresses
  RelayIsOwned
  PausedMeansStopped
  RuntimeIsOwned
  ExitEvidenceIsTrue
  LoadsAreJudged
  ForwardsAreKnown
  OnlyOrphansAreStruck
  OrphanKeepsMarker
  RunnerIsReachable
  CheckpointsAreGenuine
  ExecutionIsAuthorised
  DownloadsAreWhole
  BundleTellsTheTruth
PROPERTIES
  UserOverridesHold
  FinishedStaysFinished
  LosesNothingInUse
