SPECIFICATION Spec
CONSTANTS
  k1 = k1  k2 = k2  s1 = s1  s2 = s2  b1 = b1  w1 = w1  w2 = w2
  Workers = {w1, w2}
  Admins = {a1}
  Keys = {k1, k2}
  Scopes = {s1, s2}
  ScopeOf <- TwoScopes
  LimitRequired = {s2}
  Quotes <- QuotesOf
  Charges = {0, 2}
  Limits = {2}
  Bills = {b1}
  BillAmount <- OneBill
  MinBalance = 1
  NoLimit = NoLimit
  MaxCalls <- TwoThenOne
INVARIANTS
  LedgerExplainsWallet
  FloorKept
  BudgetKept
  OneDebitPerOperation
  RepliesArePaid
PROPERTIES
  AccountSpec
SYMMETRY WorkerSymmetry
CHECK_DEADLOCK FALSE
