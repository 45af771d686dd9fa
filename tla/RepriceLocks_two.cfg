SPECIFICATION Spec
CONSTANTS
  Readers = {k1, k2}
  Traders = {t1}
  Lots = {l1}
  LotsOf <- AllLots
  None = None
PROPERTIES RepricingEnds
CHECK_DEADLOCK FALSE
