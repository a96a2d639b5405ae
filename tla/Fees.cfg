SPECIFICATION LiveSpec
CONSTANTS
  NumFees = 4
  NumRequests = 3
  NumInstallments = 2
  Nets = {2}
  Payments = {1, 2}
  EditedRevenues = {0}
  MaxEdits = 1
INVARIANTS Conserved NeverOverpaid LedgerAgrees PaymentsAccounted
PROPERTIES CancellationIsExact RequestsEnd
CHECK_DEADLOCK FALSE
