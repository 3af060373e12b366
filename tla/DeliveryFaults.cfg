CONSTANTS
  Msgs = {m1}
  Malformed = {}
  Copies = {c1, c2, c3, c4}
  Workers = {w1, w2}
  MaxRetries = 1
  PublishAttempts = 2
  Topic = TRUE
  MaxFaults = 1
CHECK_DEADLOCK FALSE
SPECIFICATION FairDelivery
INVARIANTS DeliveryTypeOK NothingLost BurialIsEarned ExclusiveHandling
PROPERTIES ImplementsPromise EveryMessageSettles
