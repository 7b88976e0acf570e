SPECIFICATION MuxSpec
CONSTANTS
  Ends = {a, b}
  Keys = {p, q}
  MaxId = 2
  MaxNet = 4
  MaxCork = 1
  MaxBatch = 3
  Tidy = TRUE
SYMMETRY Interchangeable
INVARIANTS LookupExact EndsAgree StraysOnlyAcrossIds
CHECK_DEADLOCK FALSE
