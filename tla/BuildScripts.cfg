SPECIFICATION Spec
CONSTANTS
  Inputs <- MCInputs  Addresses <- MCAddresses  HexWords <- MCHexWords
  ScopeWords <- MCScopeWords  Digits <- MCDigits  Aliases <- MCAliases
  NoAddress = NoAddress  Lost = Lost  MaxRestarts = 2
  RuntimeOwned <- MCRuntimeOwned  Refused = Refused
  Open = Open  NothingThere = NothingThere  RomSize = 48  Rejected = Rejected
  Tasks <- MCTasks  Pending = Pending
  b1 = b1  b2 = b2  b3 = b3  f1 = f1  f2 = f2  lookup = lookup
  l1 = l1  l2 = l2  e1 = e1  e2 = e2  e3 = e3
  None = None  Torn = Torn  Whole = Whole  Lookup = lookup
  Builds <- MCBuilds  Exact <- MCExact  Files <- MCFiles  Emitted <- MCEmitted
  Lines <- MCLines  Diagnostics <- MCDiagnostics  RspDiagnostics <- MCRspDiagnostics
  Entries <- MCEntries  Matches <- MCMatches  Documented <- MCDocumented
  Stamps <- MCStamps  MaxChanges = 3
INVARIANTS ChainTypeOK AcceptedIsCurrent AcceptedIsInterpreted
INVARIANTS RecoveredLinkIsExact HiddenFits RecoveredFits SizesAreExact
INVARIANTS WindowsAdd RangesKeepApart
PROPERTIES OvertakenAuditIsDead GateOpens EventuallyLinked
