SPECIFICATION SkillSpec
CONSTANTS
  Versions <- MCVersions
  Skill <- MCSkill
  Tenant <- MCTenant
  Parent <- MCParent
  Dependencies <- MCDependencies
  Fingerprints = {"m1", "m2"}
  NoParent = NoParent
INVARIANT DriftNeverActive
CHECK_DEADLOCK FALSE
