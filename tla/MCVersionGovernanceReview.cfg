CONSTANTS
  Version = {"v1", "v2"}
  User = {"ann", "bob"}
  Request = {q1, q2}
  RunHandler = {h1, h2}
  Operations = {"test", "plan"}
  Modes = {"byoc", "peaas"}
  Posts = {"running", "succeeded"}
  Page = 1
  MaxRuns = 2
  PatchBump <- PatchOfFirst
  Target = {"t1", "t2", "t3"}
  Tracks <- Tracking
  Newer <- NewerThan
  EnvironmentPage = 2
  Policies <- ReviewPolicies
  Template = {}
  TemplatePolicy <- NoTemplates
  Bindings = {}
  Mixes <- ReviewMixes
  MaxEdits = 0
  MaxRestarts = 1
  None = None

SPECIFICATION Spec
INVARIANTS TypeOK EnoughApprovers OneLatest LatestIsApproved AutoApprovedIsPatch CascadesAreDecided
PROPERTIES DecisionsStand ApprovedIsCascaded
CHECK_DEADLOCK FALSE
