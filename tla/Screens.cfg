SPECIFICATION ScreensSpec
CONSTANTS
  Parts = {"hosts", "policy", "approvals"}
  x = x
  y = y
  HostNames = {1, 2}
  Machine <- MCMachine2
  SshConfig = {2}
  KnownHosts = {}
  FirstHosts = {1}
  Tagging = {FALSE}
  Tested = {1}
  MaxEdits = 1
  MaxOpenings = 2
  MaxNotices = 1
  h1 = h1
  tagGroup = tagGroup
  p1 = p1
  c1 = c1
  Commands = {c1}
  Hosts = {h1}
  Presets = {p1}
  Priorities = {0}
  Approved = approved
  Manual = manual
  Carriers <- MCCarriers
  Alphabet <- MCAlphabet
  PresetOrder <- MCPresetOrder
  Texts <- MCTexts
  FirstPolicies <- MCFirst
  MaxRules = 1
  MaxChanges = 1
  MaxOutside = 1
  plan1 = plan1
  Requests = {1, 2, 3}
  PlanIDs = {plan1}
  NoPlanID = none
  PlanOf <- MCPlanOf
  Members <- MCMembers
  Taskable = {1}
  Promotable = {3}
  MaxPlans = 1
  MaxLists = 1
PROPERTIES OthersEditsKept SavedDecidesAlike MenuDecidesItsTarget
CHECK_DEADLOCK FALSE
