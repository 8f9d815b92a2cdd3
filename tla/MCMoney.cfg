CONSTANTS
  Precision = 2
  GuardDigits = 3
  MaxDigits = 9
  Table <- MCTable
  Unsupported = Unsupported
  Texts <- MCTexts
  MaxRateDigits = 2
  Limit <- MCLimit
  Inputs <- MCInputs
  RateValues <- MCRates
  NotANumber = NotANumber
  MaxLegs = 2
SPECIFICATION Spec
INVARIANT MoneyTypeOK
INVARIANT ProductsExact
INVARIANT LimitJudgedExactly
INVARIANT RoundedOnce
INVARIANT CurrencyAsNamed
INVARIANT ComesBackWhole
