SPECIFICATION HostSpec
CONSTANTS
  BusWrites = {}
  Users = {"search"}
  SearchMask <- DriverMask
  ResetsFirst = TRUE
  Abandons = FALSE
INVARIANT DoneIsSignalled
