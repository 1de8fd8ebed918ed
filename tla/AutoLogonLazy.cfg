SPECIFICATION AutoSpec
CONSTANTS
  RuleFiles <- MCLazyFiles
  Addresses <- MCLazyAddresses
INVARIANT LazyRulesMapped
CHECK_DEADLOCK FALSE
