\* Two concurrent calls, four in all (three with tools), one failing save.
CONSTANTS
  c1 = c1
  c2 = c2
  brand1 = brand1
  brand2 = brand2
  assets = assets
  openai = openai
  anthropic = anthropic
  builder = builder
  Callers = {c1, c2}
  Manifests = {brand1, brand2}
  Granting = {brand1}
  SkillOf <- MCSkillOf
  Connectors = {assets}
  Providers = {openai, anthropic}
  Roles = {builder}
  None = None
  MaxCalls = 4
  MaxFaults = 1
SYMMETRY Symmetry
SPECIFICATION MCSpec
\* MaxCalls ends a behaviour.
CHECK_DEADLOCK FALSE
INVARIANTS NoTwins BoundReviewed ToolAllowed EvidenceFirst
