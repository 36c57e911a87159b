CONSTANTS
  a = a  b = b  c = c  None = None
  Texts = {a, b, c}
  Huge = {c}
  MaxCopies = 3
  MaxFailures = 1
SPECIFICATION FairSpec
INVARIANTS EchoesBounded TwoCopiesRest NothingOverlooked
PROPERTY CopyIsSent
CHECK_DEADLOCK FALSE
