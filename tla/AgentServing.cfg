SPECIFICATION Spec
CONSTANTS
  n1 = n1
  n2 = n2
  k1 = k1
  i1 = i1
  i2 = i2
  c1 = c1
  q1 = q1
  Name <- MCName
  Skill <- MCSkill
  SkillTool <- MCSkillTool
  SkillMaps <- MCSkillMaps
  Multi <- MCMulti
  Captures <- MCCaptures
  Instance <- MCInstance
  NoInstance = NoInstance
  Call <- MCCall
  NoCall = NoCall
  Dotted <- MCDotted
  DataMap <- MCDataMap
  CopyTool <- MCCopyTool
  TokenExpiry = 1
  MaxTime = 2
  Request <- MCRequest
SYMMETRY MCSymmetry
INVARIANTS
  TypeOK
  RefusalHasReason
  LoadedSkillServes
