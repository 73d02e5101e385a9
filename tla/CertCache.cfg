CONSTANTS
  h1 = h1
  h2 = h2
  h3 = h3
  web = web
  other = other
  NONE = NONE
  Handshakes <- MCHandshakes
  Authorities <- MCAuthorities
  TTL_SECS = 7
  NOT_BEFORE_OFFSET = 1
  MaxAwake = 4
  MaxSlept = 2
  MaxStep = 1
SPECIFICATION Spec
SYMMETRY CertSymmetry
CHECK_DEADLOCK FALSE
INVARIANTS
  TypeOK
  ValidWhenAnswered
  SecondHasAReason
