CONSTANTS
  jan = jan
  feb = feb
  mar = mar
  ingest1 = ingest1
  ingest2 = ingest2
  Name <- MCName
  Type <- MCType
  Key <- MCKey
  Family <- MCFamily
  NoFamily = "no family"
  Contract <- MCContract
  File = {jan, feb, mar}
  Columns <- MCColumns
  Run = {ingest1, ingest2}
  Limits = {0, 1}
  MaxFaults = 1
SPECIFICATION Spec
SYMMETRY MCSymmetry
INVARIANTS NeverDoubled BronzeIsCanonical OwnFileSurvives
PROPERTIES AllOrNothing OtherMonthsUntouched CacheTrimmed
