\* A symbol with two positions, a grace period of two seconds, one request.
CONSTANTS
  Positions = {p1, p2}
  NoPosition = none
  Long = {p1}
  Entry <- Entries
  Unit = 4
  MarkPrices = {97, 108}
  CandlePrices = {97, 108}
  Grace = 2
  MaxHolds = 1
SPECIFICATION Spec
INVARIANTS TypeOK StopEarned ClosedOnlyWhenAdvised
PROPERTIES ImplementsGrace LostRatchetRestored BreachIsActedOn
