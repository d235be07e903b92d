CONSTANTS
  c1 = c1
  c2 = c2
  a = a
  b = b
  Clients = {c1, c2}
  Orders = {1, 2, 3}
  Products = {a, b}
  Lines <- CrossedLines
  OnSale = {a, b}
  Stock0 <- TightStock
  Addresses = {"home", "office"}
SPECIFICATION StockSpec
INVARIANTS StockTypeOK BooksBalance NeverRefusedByCheck DeadlockNeedsTwoRows DecisionStands
PROPERTIES AddressSettled TransactionsEnd
CHECK_DEADLOCK FALSE
