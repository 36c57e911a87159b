CONSTANTS
  v1 = v1  v2 = v2  v3 = v3  a = a  b = b  right = right  all = all  some = some  None = None
  Peers = {a, b}
  Modes = {"Tofu", "Pin"}
  Pin = right
  Payloads = {right}
  Malformed = {}
  Tokens = {}
  max_pin_attempts = 2
  pin_lockout = 1
  ephemeral_lifetime = 1
  Perms = {all, some}
  default_permissions = all
  Procs = {v1, v3}
  key_of <- KeyOf
  pin_of <- RightPin
  eph_of <- NoPin
  silent_allow = FALSE
  consent_gui = TRUE
  May = {"loss", "crash", "encoder_error", "outage", "wrong_host", "bad_codec", "noise_timeout", "hello_retry", "hello_timeout"}
  MaxDups = 1
  KEEPALIVE_TIMEOUT = 1
  DEFAULT_HELLO_RETRIES = 2
SPECIFICATION Spec
INVARIANTS TypeOK GrantedAsChosen TrafficGoesToGrantee
CHECK_DEADLOCK FALSE
