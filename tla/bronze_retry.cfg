CONSTANTS
  jan = jan
  feb = feb
  mar = mar
  ingest1 = ingest1
  ingest2 = ingest2
  Name <- MCName
  Type <- MCType
  Key <- MCKey
  Family <- MCFamily
  NoFamily = "no family"
  Contract <- MCContract
  File = {jan, feb}
  Columns <- MCColumns
  Run = {ingest1}
  Limits = {2}
  MaxFaults = 1
SPECIFICATION FairSpec
PROPERTIES RerunSucceeds
