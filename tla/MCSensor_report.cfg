SPECIFICATION Spec
CONSTANTS
  Cameras = 2
  MaxCars = 1
  Settings <- MCSettings
  Default <- MCDefault
  Window = 1
  Throttle = 1
  MaxInterval = 2
  Crossing = 10
  BigMove = 15
INVARIANTS GateHolds OneStaleFrame SettledIsReported
