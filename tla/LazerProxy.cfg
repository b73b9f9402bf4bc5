SPECIFICATION Spec
CONSTANTS
  Submitters = {s1, s2}
  Pollers = {p1}
  s1 = s1
  s2 = s2
  p1 = p1
  CACHE_TTL = 2
  MIN_UPSTREAM_INTERVAL = 1
  CLAIM_RETRY = 2
  CLAIM_ATTEMPTS = 2
  MAX_UPSTREAM_FAILURES = 2
  BUCKET_BURST = 2
  BUCKET_RATE = 1
  MaxPrint = 2
INVARIANTS TypeOK ClaimIsExclusive
PROPERTIES CallsArePaidAndDue EnvelopeIsKept EveryRequestAnswered ServiceRecovers
