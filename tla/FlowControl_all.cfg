SPECIFICATION Spec
CONSTANTS
  small = small
  large = large
  Flow = {small, large}
  Lower = lower
  Order <- MCOrder
  Length <- MCLength
  MaxSize <- MCMaxSize
  Backlog = 2
  Outlet = 2
  Numbers = 5
INVARIANTS TypeOK KeepsOrder NobodyWaitsInVain
PROPERTIES CallsReturn
