CONSTANTS
  Version = {v1, v2}
  User = {"ann"}
  Request = {q1}
  RunHandler = {h1, h2}
  Operations = {"test", "plan"}
  Modes = {"byoc", "peaas"}
  Posts = {"running", "succeeded"}
  Page = 1
  MaxRuns = 2
  PatchBump = {}
  Target = {}
  Tracks = {}
  Newer <- NoTargets
  EnvironmentPage = 2
  Policies <- EvidencePolicies
  Template = {"lax", "strict", "graded"}
  TemplatePolicy <- ThreeTemplates
  Bindings <- EvidenceBindings
  Mixes <- EvidenceMixes
  MaxEdits = 3
  MaxRestarts = 0
  None = None

SPECIFICATION Spec
SYMMETRY Alike
INVARIANTS TestedBeforeApproval NeverWeaker
PROPERTIES ServedIsVetted
CHECK_DEADLOCK FALSE
