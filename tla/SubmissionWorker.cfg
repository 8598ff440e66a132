SPECIFICATION Spec
CONSTANTS
  Ids = {"t1", "t2"}
  Workers = {w1, w2}
  MaxSends = 2
PROPERTIES QueuedIsSubmitted
CHECK_DEADLOCK FALSE
