SPECIFICATION PaperSpec
CONSTANTS
  NoPrice = NoPrice
  Market <- Markets
  Price <- Prices
  Size <- Sizes
  Payout = 10
  Fee = 1
  StartingCash = 20
  MaxFills = 3
INVARIANTS
  BooksReconcile
  EntryIsAPrice
