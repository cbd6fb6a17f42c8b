SPECIFICATION MCSpec
CONSTANTS
  Numbers <- MCNumbers
  Request <- MCRequest
  Counted <- MCCounted
  Number <- Decimals
  QuantityPlaces = 1
  PricePlaces = 1
  AmountPlaces = 1
  QuantityDigits = 1
  PriceDigits = 1
  AmountDigits = 1
  Scale = 2
  MaxItems = 1
  Limits <- MCLimits
  Okei <- MCOkei
  Typed <- MCEntered
  Supplier = {s1, s2}
  First = s1
  Receipt = {r1, r2}
  Material <- MCMaterial
  Amounts <- MCAmount
  MinDate = 1
  Today = 2
  Filters <- MCFilters
  Browser <- MCBrowser
  Hours = 2
  Fine = 2
  MaxNow = 6
  MaxAccounts = 3
  Restores = 1
  Empty = Empty
  Wrong = Wrong
  None = None
SYMMETRY Symmetry
INVARIANTS
  MistakesAreNoticed
  StoredAsEntered AmountsAgree
  AcceptedIsStored StoredComesBack
  ReportIsTrue UntouchedAreShownRight
  SessionsLastTheirHours SessionsAreOwnUntilRestored
CHECK_DEADLOCK FALSE
