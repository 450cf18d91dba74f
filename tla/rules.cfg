SPECIFICATION RulesSpec
CONSTANTS
  d1 = d1
  s1 = s1
  s2 = s2
  sim = sim
  phone = phone
  shop = shop
  online = online
  Specs = {s1, s2}
  Parties = {d1}
  Categories = {sim, phone}
  Channels = {shop, online}
  Rules <- MCRules
  RuleOf <- MCRuleOf
  AnyCategory = AnyCategory
  AnyChannel = AnyChannel
  NoLimit = NoLimit
  Lines <- MCLines
  Asks = {q1}
  NoLine = NoLine
  NoSpec = NoSpec
  MaxPatches = 1
  MaxDeletes = 1
INVARIANTS PaidUnitByUnit DeletedRuleNeverPays
PROPERTY OnlyBetterRulesReprice
CHECK_DEADLOCK FALSE
