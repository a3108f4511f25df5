CONSTANTS
  Networks <- AllNetworks
  MaxNick = 3
SPECIFICATION LiveSpec
CHECK_DEADLOCK FALSE
INVARIANTS RegistrationInv AuthenticatedTruly
PROPERTIES Registers
