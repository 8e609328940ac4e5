SPECIFICATION Spec
CONSTANTS
  Depth = 5
  NumBands = 2
  BitsPerBand = 1
  BandWidth = 2
  ShortBits = 2
  Ladder <- MCLadder
  Epoch = "global"
  Backends <- MCBackends
  Clients = {"mock", "cli"}
  MaxPublish = 2
  Items <- MCItems
  Stored = {2}
  PolicyLists <- MCPolicyLists
  PathOf <- MCPathOf
  MaxAdds = 2
  MaxBuilds = 2
INVARIANTS ServedIsCurrent AnswerIsExact MirrorsPlainIndex UnwarnedPlanHides OpeningsBind PinnedAnswerIsAnchored ReceiptNamesOneRecord AckedStaysVerifiable
