\* A retry overtaken by the delivery of what it retries.
CONSTANTS
  Item = {i1, i2, i3}
  Requester = {r1, r2}
  None = None
  MaxSeq = 3
  MaxStops = 1
SPECIFICATION Spec
INVARIANT
  RetryIsIdempotent
