SPECIFICATION GatewaySpec
CONSTANTS
  h1 = h1
  h2 = h2
  a1 = a1
  a2 = a2
  Handlers = {h1, h2}
  Admins = {a1, a2}
  Documents = {"open", "partial", "broken"}
  Content <- MCContent
  Tools <- MCTools
  Lower <- MCLower
  Sigs = {"s1", "s2"}
  NoSig = NoSig
  NoDocument = NoDocument
  Ids = {1, 2}
  NoId = NoId
  Bodies <- MCBodies
  Catalogues <- MCCatalogues
  MaxHistory = 1
  MaxChanges = 2
  MaxTools = 1
SYMMETRY Symmetry
INVARIANTS GatewayTypeOK EnforcedIsStopped NothingElseIsLost EffectsAreOnRecord ResponsesJoin RollbackWalksBack
PROPERTY ToolsStayDeclared
CHECK_DEADLOCK FALSE
