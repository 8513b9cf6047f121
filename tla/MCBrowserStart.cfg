SPECIFICATION Spec
CONSTANTS
  page = page
  Pages <- MCPages
  Fetches = 157
  Limit = 120
  Window = 60
  TimeBound = 60
INVARIANT AnsweredPagesAreHosted
