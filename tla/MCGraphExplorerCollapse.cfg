CONSTANTS
  a = a  b = b  c = c  d = d
  ab = ab  ac = ac  ad = ad  dc = dc
  Node <- MCNode
  Rel <- MCRel
  From <- MCFrom
  To <- MCTo
  Type <- MCType
  Label <- MCLabel
  Inactive = {}
  Repo = {repo}
  SeedNodes <- MCSeedNodes
  SeedRels <- MCSeedRels
  PerLabel = 2
  MaxSeeding = 1
SPECIFICATION Spec
PROPERTIES CollapseRemovesOnlyDangling
