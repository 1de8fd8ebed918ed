SPECIFICATION ServerSpec
CONSTANTS
  Conns = {"c1", "c2", "c3"}
  Ip <- MCIp
  MaxSessions = 2
  MaxBan = 1
  RestartBound = 1
  SetupOptions = {0, 2}
  SetupHeight = 7
  Characters <- MCCharacters
  SetupChars <- MCSetupChars
  SetupName <- MCSetupName
  SetupText <- MCSetupText
  KeyBuffer = 3
  TextBound = 3
  SaveBound = 1
  RuleFiles <- MCRuleFiles
  Addresses <- MCAddresses
  Inis <- MCInis
  Hellos <- MCHellos
  Requests <- MCRequests
  NoOpBound = 5
  DataBound = 1
  LongHellos <- MCLongHellos
  RekeyBound = 2
  MinPkcSize = 126
  MaxPkcSize = 512
CHECK_DEADLOCK FALSE
INVARIANTS SessionsBounded BanCounts SetupInv RulesExact TransportInv RekeyInv
PROPERTIES ClientsAccepted SessionsKept
