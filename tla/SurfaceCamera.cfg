SPECIFICATION FairSpec
CONSTANTS
  rear1 = rear1
  rear2 = rear2
  front1 = front1
  Session = {rear1, rear2, front1}
  NoSession = NoSession
  Facing <- SensorOf
  MaxQueue = 2
  Faults = {"refuse", "garble", "hangup"}
INVARIANTS
  TypeOK
  RightSensor
  SensorHandedOver
  InStep
PROPERTY MutexReleased
