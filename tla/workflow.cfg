CONSTANTS
  RuleSets <- Both
  RuleIds <- AllRules
  Threads <- AllThreads
  KindOf <- Kinds
  MinuteLen = 2
  DayLen = 1
  MaxTime = 4
  MaxEvents = 2
  HistoryCap = 1
SPECIFICATION Spec
INVARIANTS OneRevert
PROPERTIES SeenOverrideStays CooldownHeld TimeRulesFire
CHECK_DEADLOCK FALSE
