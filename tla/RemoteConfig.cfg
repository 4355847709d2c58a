CONSTANTS
  Protections = {p1, p2}
  Choices = {block, watch}
  Default = block
  Remotes = {x1}
  Licences = {l1, l2}
  Requests = {r1, r2}
  Free = Free
  None = None
  MaxVersion = 2
SPECIFICATION ConfigFairSpec
INVARIANTS CurrentAgentIsRight LicenceComesWithTheNextVersion
PROPERTIES AgentCatchesUp EveryPutEnds
