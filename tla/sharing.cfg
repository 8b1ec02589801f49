SPECIFICATION Spec
CONSTANTS
  a1 = a1  a2 = a2  a3 = a3  b1 = b1
  Nobody = Nobody
  Callers = {a1, a2, a3, b1}  Key <- Contents
  Cancellable = {a1, a2}  Vanishing = {a1}
  MaxPrunes = 2  MaxExpired = 2
INVARIANTS SingleFlight WaitersHeld FlightsBounded DuplicatesHeld
PROPERTIES WaitersAnswered PollersReturn
CHECK_DEADLOCK FALSE
