CONSTANTS
  v1 = v1  v2 = v2  v3 = v3  a = a  b = b  right = right  all = all  some = some  None = None
  Peers = {a, b}
  Modes = {"Tofu"}
  Pin = right
  Payloads = {right}
  Malformed = {}
  Tokens = {}
  max_pin_attempts = 2
  pin_lockout = 1
  ephemeral_lifetime = 1
  Perms = {all}
  default_permissions = all
  Procs = {v1, v2}
  key_of <- KeyOf
  pin_of <- NoPin
  eph_of <- NoPin
  silent_allow = TRUE
  consent_gui = FALSE
  May = {"crash", "clear", "stop", "outage", "hello_timeout", "noise_timeout"}
  MaxDups = 0
  KEEPALIVE_TIMEOUT = 1
  DEFAULT_HELLO_RETRIES = 2
SPECIFICATION FairSpec
PROPERTIES HostFreesItself StopEndsLoop
CHECK_DEADLOCK FALSE
