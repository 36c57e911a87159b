CONSTANTS
  p1 = p1  p2 = p2  right = right  bad = bad  garbage = garbage
  tok1 = tok1  tok2 = tok2  tok3 = tok3  all = all  None = None
  Peers = {p1, p2}
  Modes = {"Pin", "Ephemeral"}
  Pin = right
  Payloads = {right, garbage, tok1, tok2, tok3}
  Malformed = {garbage}
  Tokens = {tok1, tok2, tok3}
  max_pin_attempts = 2
  pin_lockout = 3
  ephemeral_lifetime = 2
  Perms = {all}
  default_permissions = all
  MaxFails = 6
SPECIFICATION HistorySpec
INVARIANTS BoundedGuesses OwnFailuresOnly EphemeralOnce
