SPECIFICATION SignupSpec

CONSTANT
  Addresses = {e1}

PROPERTY
  MovesOnByItself

CHECK_DEADLOCK FALSE
