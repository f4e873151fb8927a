SPECIFICATION Spec
CONSTANTS
  Producers = {p1, p2, p3}
  Owner = owner
  Free = free
  work1 = work1
  work2 = work2
  Null = null
  Value <- MCValue
  MaxPush = 4
  SpuriousWakeups = TRUE
INVARIANTS NoLostWakeup
PROPERTIES ImplementsFifo EveryPushDelivered
