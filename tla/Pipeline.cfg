CONSTANTS
  MaxLevel = 65535
  Categories = {"internal", "personal", "credentials", "security_key", "cryptographic", "tainted_by_secret"}
  TaintBit = "tainted_by_secret"
  Secrets = {"credentials", "security_key", "cryptographic"}
  HighConf = 500
  Effects <- MCEffects
  RestrictedEffects <- restrictedEffects
  Resources <- MCWords
  External <- MCExternal
  Ids = {r1, r2}
  Roots = {p}
  Children = {c}
  Tokens = {t1}
  Requests <- MCRequests
  Rules <- MCRules
  NoToken = NoToken
  NoSession = NoSession
  NoRequest = NoRequest
  ToolNames <- MCToolNames
  NoName = NoName
  Catalogs <- MCCatalogs
  HashFunctions <- MCHashes
  CalledTools <- MCTools
  MaxDefinitions = 500
  Chains <- MCChains
  KeyRing = {"trusted"}
  Moments = {0, 1, 2, 3}
  Asks <- MCAsks
  ChainIds = {"a", "b"}
  NoId = NoId
  NoText = NoText
  BashCalls <- MCBashCalls
  OtherCalls <- MCOtherCalls
  Catalog <- MCCatalog
  NameHash <- MCHash
SPECIFICATION Spec
INVARIANTS    LookupExact   
