\* Two callers, four calls: an order and a quote can each be retried, overlap
\* another call and meet a failure in between.
SPECIFICATION Spec
CONSTANTS
  Callers = {c1, c2}
  OrderIds = {o1, o2}
  Quantities <- MCQuantities
  Unit = 2
  InitialStock = 5
  Keys = {k1}
  NoKey = NoKey
  NoOrder = NoOrder
  MaxCalls = 4
INVARIANTS TypeOK StockSound RecordsAgree OneQuotePerKey
CHECK_DEADLOCK FALSE
