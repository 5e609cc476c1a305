\* Two positions of the market, four changes of the ledger, a page that leaves and comes back.
SPECIFICATION Spec
CONSTANTS
  None = None
  Positions = {p1, p2}
  MaxChanges = 4
  MaxCalls = 4
  MaxEpoch = 1
CHECK_DEADLOCK FALSE
INVARIANT CardCurrent
INVARIANT OrdersSeen
PROPERTY CardNeverGoesBack
PROPERTY PanelSettles
