\* Three enqueues, two of one key, which has a rate limit of one; two attempts;
\* two restarts of the lifespan.
SPECIFICATION FairHistorySpec
CONSTANTS
  p1 = p1  p2 = p2  p3 = p3  k1 = k1  k2 = k2  r1 = r1  NoRateKey = NoRateKey
  Producers <- MCProducers
  Keys <- MCKeys
  KeyOf <- MCKeyOf
  PriorityOf <- MCPriorityOf
  RateKeyOf <- MCMixed
  RateLimitMax = 1
  MaxAttempts = 2
  BaseBackoff = 1
  VisibilityTimeout = 1
  Generations = 3
INVARIANTS DeadLettersExact InFlightExact RateCapRespected RestartCostsOneOutcome
PROPERTIES OutcomeIsFinal UnlimitedTaskSettles
