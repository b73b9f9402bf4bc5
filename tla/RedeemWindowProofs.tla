-------------------------- MODULE RedeemWindowProofs --------------------------
(***************************************************************************)
(* Proofs about RedeemWindow, for every budget, every length of window and *)
(* every horizon: the two buckets hold what was paid, the rate is kept     *)
(* (the refinement of RateLimit), and no setting back of the clock, no     *)
(* tightening and no waiting moves the headroom the wrong way.             *)
(***************************************************************************)
EXTENDS RedeemWindow, SumLemmas

-----------------------------------------------------------------------------
(* The inductive invariant, while the limits only tighten.                  *)

\* What a ledger pays out from second a to second b.
Within(f, a, b) == SumFunctionOnSet(f, (a..b) \cap (1..Horizon))

LimitsOnlyTighten == budget <= LaunchBudget /\ window >= LaunchWindow

\* Nothing was paid in the future, nor past the end of the current bucket.
BucketIsOpen ==
  \A t \in 1..Horizon :
    t > now \/ start = 0 \/ t >= start + window => paid[t] = 0

\* The current bucket holds what was paid since it was opened; the previous one
\* no more than was paid in the window before, and no less than in the shortest.
BucketsHoldPayments ==
  IF start = 0 THEN used = 0 /\ usedPrev = 0
  ELSE /\ start <= now
       /\ used = Within(paid, start, Horizon)
       /\ usedPrev <= Within(paid, start - window, start - 1)
       /\ Within(paid, start - LaunchWindow, start - 1) <= usedPrev
       /\ used <= LaunchBudget /\ usedPrev <= LaunchBudget

WindowInvariant ==
  /\ TypeOK
  /\ LimitsOnlyTighten
  /\ BucketIsOpen
  /\ BucketsHoldPayments
-----------------------------------------------------------------------------
(* The share of a bucket that still counts: (p * k) \div w.                  *)

LEMMA FloorOfProduct ==
  ASSUME NEW p \in Nat, NEW k \in Nat, NEW w \in Nat \ {0}
  PROVE  /\ (p * k) \div w \in Nat
         /\ ((p * k) \div w) * w <= p * k
         /\ p * k < ((p * k) \div w) * w + w
<1>1. p * k \in Nat
  OBVIOUS
<1> DEFINE a == p * k
<1> HIDE DEF a
<1>2. a \in Nat
  BY <1>1 DEF a
<1>3. a \div w \in Nat /\ (a \div w) * w <= a /\ a < (a \div w) * w + w
  BY <1>2, SMT
<1>4. QED
  BY <1>3 DEF a

\* Cancelling a positive factor.
LEMMA CancelFactor ==
  ASSUME NEW a \in Int, NEW b \in Int, NEW w \in Nat \ {0}, a * w < (b + 1) * w
  PROVE  a <= b
<1> SUFFICES ASSUME a >= b + 1 PROVE FALSE
  OBVIOUS
<1>1. a * w >= (b + 1) * w
  OBVIOUS
<1>2. a * w \in Int /\ (b + 1) * w \in Int
  OBVIOUS
<1>3. QED
  BY <1>1, <1>2

\* A quotient is the largest number that fits.
LEMMA FloorIsLargest ==
  ASSUME NEW p \in Nat, NEW k \in Nat, NEW w \in Nat \ {0}, NEW q \in Int, q * w <= p * k
  PROVE  q <= (p * k) \div w
<1> DEFINE f == (p * k) \div w
<1>1. f \in Nat /\ p * k < f * w + w
  BY FloorOfProduct
<1> HIDE DEF f
<1>2. f * w + w = (f + 1) * w /\ q * w \in Int /\ p * k \in Int /\ (f + 1) * w \in Int
  BY <1>1
<1>3. q * w < (f + 1) * w
  BY <1>1, <1>2
<1>4. q <= f
  BY <1>1, <1>3, CancelFactor
<1>5. QED
  BY <1>4 DEF f

\* No more than the bucket counts.
LEMMA ShareIsPart ==
  ASSUME NEW p \in Nat, NEW k \in Nat, NEW w \in Nat \ {0}, k <= w
  PROVE  (p * k) \div w <= p
<1> DEFINE f == (p * k) \div w
<1>1. f \in Nat /\ f * w <= p * k
  BY FloorOfProduct
<1> HIDE DEF f
<1>2. p * k <= p * w /\ p * k \in Int /\ p * w \in Int /\ f * w \in Int
  <2>1. w - k \in Nat
    OBVIOUS
  <2>2. p * (w - k) \in Nat
    BY <2>1
  <2>3. p * w = p * k + p * (w - k)
    BY <2>1
  <2>4. QED
    BY <1>1, <2>2, <2>3
<1>3. (p + 1) * w = p * w + w
  OBVIOUS
<1>4. f * w < (p + 1) * w
  BY <1>1, <1>2, <1>3
<1>5. f <= p
  BY <1>1, <1>4, CancelFactor
<1>6. QED
  BY <1>5 DEF f

LEMMA ShareIsTyped ==
  ASSUME NEW p \in Nat, NEW w \in Nat \ {0}, NEW k \in 0..w
  PROVE  (p * k) \div w \in 0..p
<1>1. k \in Nat /\ k <= w
  OBVIOUS
<1>2. (p * k) \div w \in Nat
  BY <1>1, FloorOfProduct
<1>3. (p * k) \div w <= p
  BY <1>1, ShareIsPart
<1>4. QED
  BY <1>2, <1>3

\* A longer window counts a larger share, if what remains of it grows as much.
LEMMA ShareGrows ==
  ASSUME NEW p \in Nat, NEW k \in Nat, NEW w \in Nat \ {0}, k <= w,
         NEW m \in Nat, NEW v \in Nat \ {0}, v >= w, m - k >= v - w
  PROVE  (p * k) \div w <= (p * m) \div v
<1> DEFINE f == (p * k) \div w
<1>1. f \in Nat /\ f * w <= p * k /\ f <= p
  BY FloorOfProduct, ShareIsPart
<1> HIDE DEF f
<1>2. v - w \in Nat
  OBVIOUS
<1>3. f * (v - w) <= p * (v - w)
  BY <1>1, <1>2
<1>4. p * (v - w) <= p * (m - k)
  OBVIOUS
<1>5. /\ f * v = f * w + f * (v - w)
      /\ p * m = p * k + p * (m - k)
      /\ f * w \in Int /\ f * (v - w) \in Int /\ p * k \in Int
      /\ p * (m - k) \in Int /\ p * (v - w) \in Int
  BY <1>1
<1>6. f * v <= p * m
  BY <1>1, <1>3, <1>4, <1>5
<1>7. f <= (p * m) \div v
  BY <1>1, <1>6, FloorIsLargest
<1>8. QED
  BY <1>7 DEF f

\* All of a bucket that has just been opened.
LEMMA WholeShare ==
  ASSUME NEW p \in Nat, NEW w \in Nat \ {0}
  PROVE  (p * w) \div w = p /\ (p * 0) \div w = 0 /\ (0 * w) \div w = 0
<1>1. p <= (p * w) \div w
  BY FloorIsLargest
<1>2. (p * w) \div w <= p /\ (p * w) \div w \in Nat
  BY ShareIsPart, FloorOfProduct
<1>3. p * 0 = 0 /\ 0 * w = 0
  OBVIOUS
<1>4. QED
  BY <1>1, <1>2, <1>3

-----------------------------------------------------------------------------
(* The effective usage in closed form.                                      *)

\* For the clock n, the bucket start s, the buckets u and p, the window w.
Effective(n, s, u, p, w) ==
  IF s = 0 THEN u + p
  ELSE IF n < s + w THEN u + (p * (IF n < s THEN w ELSE s + w - n)) \div w
  ELSE IF n < s + 2 * w THEN (u * (s + 2 * w - n)) \div w
  ELSE 0

Typed(n, s, u, p, w) ==
  n \in Nat \ {0} /\ s \in Nat /\ u \in Nat /\ p \in Nat /\ w \in Nat \ {0}

LEMMA StateIsTyped == TypeOK => Typed(now, start, used, usedPrev, window) /\ budget \in Nat
BY WindowsArePositive DEF TypeOK, Typed

\* Where the buckets stand, case by case.
LEMMA RolledCases ==
  ASSUME TypeOK
  PROVE  /\ start = 0 => Rolled = [start |-> now, current |-> used, prev |-> usedPrev]
         /\ start # 0 /\ now < start + window =>
              Rolled = [start |-> start, current |-> used, prev |-> usedPrev]
         /\ start # 0 /\ now >= start + window /\ now < start + 2 * window =>
              Rolled = [start |-> start + window, current |-> 0, prev |-> used]
         /\ start # 0 /\ now >= start + 2 * window =>
              Rolled = [start |-> now, current |-> 0, prev |-> 0]
<1>1. /\ now \in Nat \ {0} /\ start \in Nat /\ window \in Nat \ {0}
  BY StateIsTyped DEF Typed
<1>2. /\ (Elapsed >= 2 * window) <=> (now >= start + 2 * window)
      /\ (Elapsed >= window) <=> (now >= start + window)
      /\ (Elapsed < 2 * window) <=> (now < start + 2 * window)
  BY <1>1 DEF Elapsed
<1>3. now >= start + 2 * window => now >= start + window
  BY <1>1
<1>4. (now < start + window) => ~(now >= start + window)
  BY <1>1
<1>5. (now < start + 2 * window) => ~(now >= start + 2 * window)
  BY <1>1
<1> HIDE DEF Elapsed
<1>6. QED
  BY <1>2, <1>3, <1>4, <1>5 DEF Rolled

LEMMA WeightOfPrev ==
  ASSUME TypeOK, NEW b, b.start \in Nat, b.prev \in Nat, now <= b.start + window
  PROVE  WeightedPrev(b) =
           (b.prev * (IF now < b.start THEN window ELSE b.start + window - now)) \div window
<1>1. now \in Nat /\ window \in Nat \ {0}
  BY StateIsTyped DEF Typed
<1> DEFINE into == CASE now < b.start          -> 0
                     [] now > b.start + window -> window
                     [] OTHER                  -> now - b.start
<1>2. window - into = IF now < b.start THEN window ELSE b.start + window - now
  BY <1>1
<1>3. WeightedPrev(b) = (b.prev * (window - into)) \div window
  BY DEF WeightedPrev
<1> HIDE DEF into
<1>4. QED
  BY <1>2, <1>3

LEMMA EffectiveForm ==
  TypeOK => EffectiveUsed = Effective(now, start, used, usedPrev, window)
<1> SUFFICES ASSUME TypeOK
             PROVE  EffectiveUsed = Effective(now, start, used, usedPrev, window)
  OBVIOUS
<1>1. /\ now \in Nat \ {0} /\ start \in Nat /\ used \in Nat /\ usedPrev \in Nat
      /\ window \in Nat \ {0}
  BY StateIsTyped DEF Typed
<1>2. CASE start = 0
  <2>1. Rolled = [start |-> now, current |-> used, prev |-> usedPrev]
    BY <1>2, RolledCases
  <2>2. WeightedPrev(Rolled) = (usedPrev * (now + window - now)) \div window
    BY <1>1, <2>1, WeightOfPrev
  <2>3. WeightedPrev(Rolled) = usedPrev
    BY <1>1, <2>2, WholeShare
  <2>4. QED
    BY <1>2, <2>1, <2>3 DEF EffectiveUsed, Effective
<1>3. CASE start # 0 /\ now < start + window
  <2>1. Rolled = [start |-> start, current |-> used, prev |-> usedPrev]
    BY <1>3, RolledCases
  <2>2. WeightedPrev(Rolled) =
          (usedPrev * (IF now < start THEN window ELSE start + window - now)) \div window
    BY <1>1, <1>3, <2>1, WeightOfPrev
  <2>3. QED
    BY <1>3, <2>1, <2>2 DEF EffectiveUsed, Effective
<1>4. CASE start # 0 /\ now >= start + window /\ now < start + 2 * window
  <2>1. Rolled = [start |-> start + window, current |-> 0, prev |-> used]
    BY <1>4, RolledCases
  <2>2. /\ start + window \in Nat /\ ~(now < start + window)
        /\ now <= start + window + window /\ start + window + window - now = start + 2 * window - now
    BY <1>1, <1>4
  <2>3. WeightedPrev(Rolled) = (used * (start + 2 * window - now)) \div window
    <3>1. Rolled.start = start + window /\ Rolled.prev = used
      BY <2>1
    <3>2. WeightedPrev(Rolled) = (Rolled.prev * (Rolled.start + window - now)) \div window
      BY <1>1, <2>2, <3>1, WeightOfPrev
    <3>3. Rolled.start + window - now = start + 2 * window - now
      BY <2>2, <3>1
    <3>4. QED
      BY <3>1, <3>2, <3>3
  <2>4. (used * (start + 2 * window - now)) \div window \in Int
    BY <1>1, <1>4, FloorOfProduct
  <2>5. EffectiveUsed = (used * (start + 2 * window - now)) \div window
    BY <2>1, <2>3, <2>4 DEF EffectiveUsed
  <2>6. ~(now < start + window)
    BY <2>2
  <2>7. QED
    BY <1>4, <2>5, <2>6 DEF Effective
<1>5. CASE start # 0 /\ now >= start + 2 * window
  <2>1. Rolled = [start |-> now, current |-> 0, prev |-> 0]
    BY <1>5, RolledCases
  <2>2. WeightedPrev(Rolled) = (0 * (now + window - now)) \div window
    BY <1>1, <2>1, WeightOfPrev
  <2>3. WeightedPrev(Rolled) = 0
    BY <1>1, <2>2, WholeShare
  <2>4. ~(now < start + window) /\ ~(now < start + 2 * window)
    BY <1>1, <1>5
  <2>5. QED
    BY <1>5, <2>1, <2>3, <2>4 DEF EffectiveUsed, Effective
<1>6. QED
  BY <1>1, <1>2, <1>3, <1>4, <1>5
\* What is left of the previous bucket's window, and of the current one's.
RestOfPrev(n, s, w) == IF n < s THEN w ELSE s + w - n

LEMMA EffectiveRegions ==
  ASSUME NEW n, NEW s, NEW u, NEW p, NEW w, Typed(n, s, u, p, w)
  PROVE  /\ Effective(n, s, u, p, w) \in Nat
         /\ s = 0 => Effective(n, s, u, p, w) = u + p
         /\ s # 0 /\ n < s + w =>
              /\ RestOfPrev(n, s, w) \in 0..w
              /\ (p * RestOfPrev(n, s, w)) \div w \in Nat
              /\ Effective(n, s, u, p, w) = u + (p * RestOfPrev(n, s, w)) \div w
         /\ s # 0 /\ n >= s + w /\ n < s + 2 * w =>
              /\ s + 2 * w - n \in 0..w
              /\ (u * (s + 2 * w - n)) \div w <= u
              /\ Effective(n, s, u, p, w) = (u * (s + 2 * w - n)) \div w
         /\ s # 0 /\ n >= s + 2 * w => Effective(n, s, u, p, w) = 0
<1>1. n \in Nat \ {0} /\ s \in Nat /\ u \in Nat /\ p \in Nat /\ w \in Nat \ {0}
  BY DEF Typed
<1>2. CASE s = 0
  BY <1>1, <1>2 DEF Effective
<1>3. CASE s # 0 /\ n < s + w
  <2>1. RestOfPrev(n, s, w) \in 0..w
    BY <1>1, <1>3 DEF RestOfPrev
  <2>2. (p * RestOfPrev(n, s, w)) \div w \in Nat
    BY <1>1, <2>1, FloorOfProduct
  <2>3. Effective(n, s, u, p, w) = u + (p * RestOfPrev(n, s, w)) \div w
    BY <1>1, <1>3 DEF Effective, RestOfPrev
  <2>4. QED
    BY <1>1, <1>3, <2>1, <2>2, <2>3
<1>4. CASE s # 0 /\ n >= s + w /\ n < s + 2 * w
  <2>1. s + 2 * w - n \in 0..w /\ ~(n < s + w)
    BY <1>1, <1>4
  <2>2. (u * (s + 2 * w - n)) \div w \in 0..u
    <3> DEFINE k == s + 2 * w - n
    <3>1. k \in 0..w
      BY <2>1
    <3> HIDE DEF k
    <3>2. (u * k) \div w \in 0..u
      BY <1>1, <3>1, ShareIsTyped
    <3>3. QED
      BY <3>2 DEF k
  <2>3. Effective(n, s, u, p, w) = (u * (s + 2 * w - n)) \div w
    BY <1>4, <2>1 DEF Effective
  <2>4. QED
    BY <1>1, <1>4, <2>1, <2>2, <2>3
<1>5. CASE s # 0 /\ n >= s + 2 * w
  <2>1. ~(n < s + w) /\ ~(n < s + 2 * w)
    BY <1>1, <1>5
  <2>2. Effective(n, s, u, p, w) = 0
    BY <1>5, <2>1 DEF Effective
  <2>3. QED
    BY <1>1, <1>5, <2>1, <2>2
<1>6. QED
  BY <1>1, <1>2, <1>3, <1>4, <1>5

\* The later the clock, the less is held against a redemption.
LEMMA EffectiveFalls ==
  ASSUME NEW n, NEW s, NEW u, NEW p, NEW w, Typed(n, s, u, p, w),
         NEW m \in Nat \ {0}, n <= m
  PROVE  Effective(m, s, u, p, w) <= Effective(n, s, u, p, w)
<1>1. n \in Nat \ {0} /\ s \in Nat /\ u \in Nat /\ p \in Nat /\ w \in Nat \ {0}
  BY DEF Typed
<1>2. Typed(m, s, u, p, w)
  BY <1>1 DEF Typed
<1>3. CASE s = 0
  BY <1>1, <1>2, <1>3, EffectiveRegions
<1>4. CASE s # 0 /\ m < s + w
  <2>1. n < s + w
    BY <1>1, <1>4
  <2>2. /\ RestOfPrev(m, s, w) \in 0..w /\ RestOfPrev(n, s, w) \in 0..w
        /\ Effective(m, s, u, p, w) = u + (p * RestOfPrev(m, s, w)) \div w
        /\ Effective(n, s, u, p, w) = u + (p * RestOfPrev(n, s, w)) \div w
        /\ (p * RestOfPrev(m, s, w)) \div w \in Nat
        /\ (p * RestOfPrev(n, s, w)) \div w \in Nat
    BY <1>2, <1>4, <2>1, EffectiveRegions
  <2>3. RestOfPrev(n, s, w) - RestOfPrev(m, s, w) >= w - w
    BY <1>1, <1>4, <2>1 DEF RestOfPrev
  <2>4. (p * RestOfPrev(m, s, w)) \div w <= (p * RestOfPrev(n, s, w)) \div w
    BY <1>1, <2>2, <2>3, ShareGrows
  <2>5. QED
    BY <1>1, <2>2, <2>4
<1>5. CASE s # 0 /\ m >= s + w /\ m < s + 2 * w
  <2>1. /\ s + 2 * w - m \in 0..w
        /\ Effective(m, s, u, p, w) = (u * (s + 2 * w - m)) \div w
        /\ Effective(m, s, u, p, w) <= u /\ Effective(m, s, u, p, w) \in Nat
    BY <1>2, <1>5, EffectiveRegions
  <2>2. CASE n < s + w
    <3>1. /\ Effective(n, s, u, p, w) = u + (p * RestOfPrev(n, s, w)) \div w
          /\ (p * RestOfPrev(n, s, w)) \div w \in Nat
      BY <1>5, <2>2, EffectiveRegions
    <3>2. QED
      BY <1>1, <2>1, <3>1
  <2>3. CASE n >= s + w
    <3>1. n < s + 2 * w
      BY <1>1, <1>5
    <3>2. /\ s + 2 * w - n \in 0..w
          /\ Effective(n, s, u, p, w) = (u * (s + 2 * w - n)) \div w
      BY <1>5, <2>3, <3>1, EffectiveRegions
    <3>3. (s + 2 * w - n) - (s + 2 * w - m) >= w - w
      BY <1>1
    <3>4. (u * (s + 2 * w - m)) \div w <= (u * (s + 2 * w - n)) \div w
      BY <1>1, <2>1, <3>2, <3>3, ShareGrows
    <3>5. QED
      BY <2>1, <3>2, <3>4
  <2>4. QED
    BY <1>1, <2>2, <2>3
<1>6. CASE s # 0 /\ m >= s + 2 * w
  <2>1. Effective(m, s, u, p, w) = 0 /\ Effective(n, s, u, p, w) \in Nat
    BY <1>2, <1>6, EffectiveRegions
  <2>2. QED
    BY <2>1
<1>7. QED
  BY <1>1, <1>3, <1>4, <1>5, <1>6

\* The longer the window, the more is held against a redemption.
LEMMA EffectiveGrows ==
  ASSUME NEW n, NEW s, NEW u, NEW p, NEW w, Typed(n, s, u, p, w),
         NEW v \in Nat \ {0}, w <= v
  PROVE  Effective(n, s, u, p, w) <= Effective(n, s, u, p, v)
<1>1. n \in Nat \ {0} /\ s \in Nat /\ u \in Nat /\ p \in Nat /\ w \in Nat \ {0}
  BY DEF Typed
<1>2. Typed(n, s, u, p, v) /\ Effective(n, s, u, p, v) \in Nat
  <2>1. Typed(n, s, u, p, v)
    BY <1>1 DEF Typed
  <2>2. QED
    BY <2>1, EffectiveRegions
<1>3. CASE s = 0
  BY <1>1, <1>2, <1>3, EffectiveRegions
<1>4. CASE s # 0 /\ n < s + v
  <2>1. /\ RestOfPrev(n, s, v) \in 0..v
        /\ Effective(n, s, u, p, v) = u + (p * RestOfPrev(n, s, v)) \div v
        /\ (p * RestOfPrev(n, s, v)) \div v \in Nat
    BY <1>2, <1>4, EffectiveRegions
  <2>2. CASE n < s + w
    <3>1. /\ RestOfPrev(n, s, w) \in 0..w
          /\ Effective(n, s, u, p, w) = u + (p * RestOfPrev(n, s, w)) \div w
          /\ (p * RestOfPrev(n, s, w)) \div w \in Nat
      BY <1>4, <2>2, EffectiveRegions
    <3>2. RestOfPrev(n, s, v) - RestOfPrev(n, s, w) >= v - w
      BY <1>1, <1>4, <2>2 DEF RestOfPrev
    <3>3. (p * RestOfPrev(n, s, w)) \div w <= (p * RestOfPrev(n, s, v)) \div v
      BY <1>1, <2>1, <3>1, <3>2, ShareGrows
    <3>4. QED
      BY <1>1, <2>1, <3>1, <3>3
  <2>3. CASE n >= s + w
    <3>1. Effective(n, s, u, p, w) <= u
      <4>1. CASE n < s + 2 * w
        BY <1>4, <2>3, <4>1, EffectiveRegions
      <4>2. CASE n >= s + 2 * w
        BY <1>1, <1>4, <4>2, EffectiveRegions
      <4>3. QED
        BY <1>1, <4>1, <4>2
    <3>2. Effective(n, s, u, p, w) \in Nat
      BY EffectiveRegions
    <3>3. QED
      BY <1>1, <2>1, <3>1, <3>2
  <2>4. QED
    BY <1>1, <2>2, <2>3
<1>5. CASE s # 0 /\ n >= s + v /\ n < s + 2 * v
  <2>1. /\ s + 2 * v - n \in 0..v
        /\ Effective(n, s, u, p, v) = (u * (s + 2 * v - n)) \div v
    BY <1>2, <1>5, EffectiveRegions
  <2>2. n >= s + w
    BY <1>1, <1>5
  <2>3. CASE n < s + 2 * w
    <3>1. /\ s + 2 * w - n \in 0..w
          /\ Effective(n, s, u, p, w) = (u * (s + 2 * w - n)) \div w
      BY <1>5, <2>2, <2>3, EffectiveRegions
    <3>2. (s + 2 * v - n) - (s + 2 * w - n) >= v - w
      BY <1>1
    <3>3. (u * (s + 2 * w - n)) \div w <= (u * (s + 2 * v - n)) \div v
      BY <1>1, <2>1, <3>1, <3>2, ShareGrows
    <3>4. QED
      BY <2>1, <3>1, <3>3
  <2>4. CASE n >= s + 2 * w
    <3>1. Effective(n, s, u, p, w) = 0
      BY <1>5, <2>4, EffectiveRegions
    <3>2. QED
      BY <1>2, <3>1
  <2>5. QED
    BY <1>1, <2>3, <2>4
<1>6. CASE s # 0 /\ n >= s + 2 * v
  <2>1. n >= s + 2 * w
    BY <1>1, <1>6
  <2>2. Effective(n, s, u, p, w) = 0
    BY <1>6, <2>1, EffectiveRegions
  <2>3. QED
    BY <1>2, <2>2
<1>7. QED
  BY <1>1, <1>3, <1>4, <1>5, <1>6

-----------------------------------------------------------------------------
(* Types, and what a step does to the headroom.                             *)

LEMMA DebitCases ==
  ASSUME TypeOK, NEW out \in Nat, Debit(out)
  PROVE  /\ EffectiveUsed \in Nat /\ EffectiveUsed + out <= budget
         /\ \/ /\ start = 0
               /\ start' = now /\ used' = used + out /\ usedPrev' = usedPrev
            \/ /\ start # 0 /\ now < start + window
               /\ start' = start /\ used' = used + out /\ usedPrev' = usedPrev
            \/ /\ start # 0 /\ now >= start + window /\ now < start + 2 * window
               /\ start' = start + window /\ used' = out /\ usedPrev' = used
            \/ /\ start # 0 /\ now >= start + 2 * window
               /\ start' = now /\ used' = out /\ usedPrev' = 0
<1>1. Typed(now, start, used, usedPrev, window)
  BY StateIsTyped
<1>2. EffectiveUsed \in Nat
  BY <1>1, EffectiveForm, EffectiveRegions
<1>3. /\ EffectiveUsed + out <= budget
      /\ start' = Rolled.start /\ usedPrev' = Rolled.prev /\ used' = Rolled.current + out
  BY DEF Debit
<1>4. now \in Nat /\ start \in Nat /\ window \in Nat
  BY <1>1 DEF Typed
<1>5. CASE start = 0
  BY <1>2, <1>3, <1>5, RolledCases
<1>6. CASE start # 0 /\ now < start + window
  BY <1>2, <1>3, <1>6, RolledCases
<1>7. CASE start # 0 /\ now >= start + window /\ now < start + 2 * window
  BY <1>2, <1>3, <1>7, RolledCases
<1>8. CASE start # 0 /\ now >= start + 2 * window
  BY <1>2, <1>3, <1>8, RolledCases
<1>9. QED
  BY <1>4, <1>5, <1>6, <1>7, <1>8

LEMMA RedemptionIsTyped ==
  ASSUME TypeOK, Redemption
  PROVE  /\ TypeOK'
         /\ \E out \in 1..budget : Debit(out) /\ paid' = [paid EXCEPT ![now] = @ + out]
         /\ UNCHANGED << now, limits >>
<1>1. PICK out \in 1..budget : Redeem(out)
  BY DEF Redemption
<1>2. /\ Debit(out) /\ UNCHANGED << now, limits >>
      /\ paid' = [paid EXCEPT ![now] = paid[now] + out]
  BY <1>1 DEF Redeem
<1>3. Typed(now, start, used, usedPrev, window) /\ budget \in Nat /\ out \in Nat
  BY StateIsTyped
<1>4. start' \in Nat /\ used' \in Nat /\ usedPrev' \in Nat
  BY <1>2, <1>3, DebitCases DEF Typed
<1>5. paid' \in [1..Horizon -> Nat]
  BY <1>2, <1>3 DEF TypeOK
<1>6. QED
  BY <1>2, <1>4, <1>5 DEF TypeOK, limits

LEMMA TypeInit == Init => TypeOK
BY WindowsArePositive DEF Init, TypeOK

LEMMA TypeStep == TypeOK /\ [Next]_vars => TypeOK'
<1> SUFFICES ASSUME TypeOK, [Next]_vars PROVE TypeOK'
  OBVIOUS
<1>1. CASE Redemption
  BY <1>1, RedemptionIsTyped
<1>2. CASE Tightening \/ Loosening
  BY <1>2
  DEF Tightening, Loosening, EmergencyTightenRedeemLimits, ExecuteSetRedeemLimits, TypeOK, buckets
<1>3. CASE Tick
  BY <1>3, WindowsArePositive DEF Tick, TypeOK, buckets, limits
<1>4. CASE ClockSkew
  BY <1>4, WindowsArePositive DEF ClockSkew, TypeOK, buckets, limits
<1>5. CASE UNCHANGED vars
  BY <1>5 DEF vars, TypeOK, buckets, limits
<1>6. QED
  BY <1>1, <1>2, <1>3, <1>4, <1>5 DEF Next, SteadyNext

\* Every variable has its type, whatever the clock and the governors do
\* (config.rs 165-172, 235).
THEOREM WindowTypes == Spec => []TypeOK
BY TypeInit, TypeStep, PTL DEF Spec

\* The same, and the closed form, in the state after a step.
LEMMA EffectiveFormAfter ==
  TypeOK' => /\ EffectiveUsed' = Effective(now', start', used', usedPrev', window')
             /\ Typed(now', start', used', usedPrev', window') /\ budget' \in Nat
<1>1. (TypeOK => EffectiveUsed = Effective(now, start, used, usedPrev, window))'
  BY EffectiveForm, PTL
<1>2. (TypeOK => Typed(now, start, used, usedPrev, window) /\ budget \in Nat)'
  BY StateIsTyped, PTL
<1>3. QED
  BY <1>1, <1>2

LEMMA EffectiveIsTyped ==
  ASSUME TypeOK, TypeOK'
  PROVE  /\ EffectiveUsed \in Nat /\ EffectiveUsed' \in Nat
         /\ budget \in Nat /\ budget' \in Nat
<1>1. /\ EffectiveUsed = Effective(now, start, used, usedPrev, window)
      /\ Typed(now, start, used, usedPrev, window) /\ budget \in Nat
  BY EffectiveForm, StateIsTyped
<1>2. /\ EffectiveUsed' = Effective(now', start', used', usedPrev', window')
      /\ Typed(now', start', used', usedPrev', window') /\ budget' \in Nat
  BY EffectiveFormAfter
<1>3. Effective(now, start, used, usedPrev, window) \in Nat
  BY <1>1, EffectiveRegions
<1>4. Effective(now', start', used', usedPrev', window') \in Nat
  BY <1>2, EffectiveRegions
<1>5. QED
  BY <1>1, <1>2, <1>3, <1>4

LEMMA HeadroomForm ==
  /\ Headroom = IF EffectiveUsed < budget THEN budget - EffectiveUsed ELSE 0
  /\ Headroom' = IF EffectiveUsed' < budget' THEN budget' - EffectiveUsed' ELSE 0
BY Zenon DEF Headroom

LEMMA LessIsLeft ==
  ASSUME NEW e \in Nat, NEW f \in Nat, NEW b \in Nat, NEW c \in Nat, c <= b, f >= e
  PROVE  (IF f < c THEN c - f ELSE 0) <= (IF e < b THEN b - e ELSE 0)
OBVIOUS

\* More held against a redemption, and no larger budget: no more headroom.
LEMMA HeadroomShrinks ==
  ASSUME TypeOK, TypeOK', budget' <= budget, EffectiveUsed' >= EffectiveUsed
  PROVE  Headroom' <= Headroom
BY EffectiveIsTyped, HeadroomForm, LessIsLeft

\* Less held against a redemption, and the same budget: no less headroom.
LEMMA HeadroomGrows ==
  ASSUME TypeOK, TypeOK', budget' = budget, EffectiveUsed' <= EffectiveUsed
  PROVE  Headroom' >= Headroom
<1>1. /\ EffectiveUsed \in Nat /\ EffectiveUsed' \in Nat /\ budget \in Nat
      /\ EffectiveUsed >= EffectiveUsed' /\ budget <= budget
  BY EffectiveIsTyped
<1>2. (IF EffectiveUsed < budget THEN budget - EffectiveUsed ELSE 0)
        <= (IF EffectiveUsed' < budget THEN budget - EffectiveUsed' ELSE 0)
  BY <1>1, LessIsLeft
<1>3. Headroom <= Headroom'
  BY <1>2, HeadroomForm
<1>4. Headroom \in Int /\ Headroom' \in Int
  BY <1>1, EffectiveIsTyped, HeadroomForm
<1>5. QED
  BY <1>3, <1>4

\* A redemption takes from the headroom what it pays out.
LEMMA RedemptionCounts ==
  ASSUME TypeOK, TypeOK', NEW out \in Nat, Debit(out), UNCHANGED << now, limits >>
  PROVE  EffectiveUsed' = EffectiveUsed + out
<1>1. /\ now \in Nat \ {0} /\ start \in Nat /\ used \in Nat /\ usedPrev \in Nat
      /\ window \in Nat \ {0} /\ now' = now /\ window' = window
      /\ Typed(now, start, used, usedPrev, window)
  BY StateIsTyped DEF Typed, limits
<1>2. /\ EffectiveUsed = Effective(now, start, used, usedPrev, window)
      /\ EffectiveUsed' = Effective(now, start', used', usedPrev', window)
      /\ Typed(now, start', used', usedPrev', window)
  BY <1>1, EffectiveForm, EffectiveFormAfter
<1>3. CASE start = 0 /\ start' = now /\ used' = used + out /\ usedPrev' = usedPrev
  <2>1. RestOfPrev(now, now, window) = window
    BY <1>1 DEF RestOfPrev
  <2>2. Effective(now, start', used', usedPrev', window)
          = used + out + (usedPrev * window) \div window
    BY <1>1, <1>2, <1>3, <2>1, EffectiveRegions
  <2>3. Effective(now, start, used, usedPrev, window) = used + usedPrev
    BY <1>1, <1>3, EffectiveRegions
  <2>4. QED
    BY <1>1, <1>2, <2>2, <2>3, WholeShare
<1>4. CASE /\ start # 0 /\ now < start + window
           /\ start' = start /\ used' = used + out /\ usedPrev' = usedPrev
  <2>1. /\ Effective(now, start, used, usedPrev, window)
             = used + (usedPrev * RestOfPrev(now, start, window)) \div window
        /\ Effective(now, start', used', usedPrev', window)
             = used + out + (usedPrev * RestOfPrev(now, start, window)) \div window
        /\ (usedPrev * RestOfPrev(now, start, window)) \div window \in Nat
    BY <1>1, <1>2, <1>4, EffectiveRegions
  <2>2. QED
    BY <1>1, <1>2, <2>1
<1>5. CASE /\ start # 0 /\ now >= start + window /\ now < start + 2 * window
           /\ start' = start + window /\ used' = out /\ usedPrev' = used
  <2>1. /\ start' # 0 /\ now < start' + window
        /\ RestOfPrev(now, start', window) = start + 2 * window - now
    BY <1>1, <1>5 DEF RestOfPrev
  <2>2. /\ Effective(now, start', used', usedPrev', window)
             = out + (used * (start + 2 * window - now)) \div window
    BY <1>2, <1>5, <2>1, EffectiveRegions
  <2>3. /\ Effective(now, start, used, usedPrev, window)
             = (used * (start + 2 * window - now)) \div window
        /\ Effective(now, start, used, usedPrev, window) \in Nat
    BY <1>1, <1>5, EffectiveRegions
  <2>4. QED
    BY <1>1, <1>2, <2>2, <2>3
<1>6. CASE /\ start # 0 /\ now >= start + 2 * window
           /\ start' = now /\ used' = out /\ usedPrev' = 0
  <2>1. RestOfPrev(now, now, window) = window
    BY <1>1 DEF RestOfPrev
  <2>2. Effective(now, start', used', usedPrev', window) = out + (0 * window) \div window
    BY <1>1, <1>2, <1>6, <2>1, EffectiveRegions
  <2>3. Effective(now, start, used, usedPrev, window) = 0
    BY <1>1, <1>6, EffectiveRegions
  <2>4. QED
    BY <1>1, <1>2, <2>2, <2>3, WholeShare
<1>7. QED
  BY <1>3, <1>4, <1>5, <1>6, DebitCases
\* The later clock holds no more, the longer window no less: both for steps.
LEMMA ClockAndWindow ==
  ASSUME TypeOK, TypeOK', UNCHANGED buckets
  PROVE  /\ now' >= now /\ window' = window => EffectiveUsed' <= EffectiveUsed
         /\ now' <= now /\ window' = window => EffectiveUsed' >= EffectiveUsed
         /\ now' = now /\ window' >= window => EffectiveUsed' >= EffectiveUsed
<1>1. /\ start' = start /\ used' = used /\ usedPrev' = usedPrev
      /\ EffectiveUsed = Effective(now, start, used, usedPrev, window)
      /\ Typed(now, start, used, usedPrev, window)
  BY EffectiveForm, StateIsTyped DEF buckets
<1>2. /\ EffectiveUsed' = Effective(now', start, used, usedPrev, window')
      /\ Typed(now', start, used, usedPrev, window')
  BY <1>1, EffectiveFormAfter
<1>3. /\ now \in Nat \ {0} /\ now' \in Nat \ {0}
      /\ window \in Nat \ {0} /\ window' \in Nat \ {0}
  BY <1>1, <1>2 DEF Typed
<1>4. ASSUME now' >= now, window' = window PROVE EffectiveUsed' <= EffectiveUsed
  BY <1>1, <1>2, <1>3, <1>4, EffectiveFalls
<1>5. ASSUME now' <= now, window' = window PROVE EffectiveUsed' >= EffectiveUsed
  <2>1. Effective(now, start, used, usedPrev, window)
          <= Effective(now', start, used, usedPrev, window)
    BY <1>2, <1>3, <1>5, EffectiveFalls
  <2>2. /\ Effective(now, start, used, usedPrev, window) \in Nat
        /\ Effective(now', start, used, usedPrev, window') \in Nat
    BY <1>1, <1>2, EffectiveRegions
  <2>3. QED
    BY <1>1, <1>2, <1>5, <2>1, <2>2
<1>6. ASSUME now' = now, window' >= window PROVE EffectiveUsed' >= EffectiveUsed
  <2>1. Effective(now, start, used, usedPrev, window)
          <= Effective(now, start, used, usedPrev, window')
    BY <1>1, <1>3, <1>6, EffectiveGrows
  <2>2. /\ Effective(now, start, used, usedPrev, window) \in Nat
        /\ Effective(now', start, used, usedPrev, window') \in Nat
    BY <1>1, <1>2, EffectiveRegions
  <2>3. QED
    BY <1>1, <1>2, <1>6, <2>1, <2>2
<1>7. QED
  BY <1>4, <1>5, <1>6

\* Shrinking the budget and lengthening the window never leave more to redeem at
\* once, though a longer window re-reads the same buckets and can revive one
\* that had expired (caps.rs 278-365, redeem_window.rs 29-79).
THEOREM TighteningFreesNothing == Spec => TighteningNeverFrees
<1> DEFINE Tightens == now' = now /\ budget' <= budget /\ window' >= window
<1>1. TypeOK /\ [Next]_vars => [Tightens => Headroom' <= Headroom]_vars
  <2> SUFFICES ASSUME TypeOK, Next, Tightens PROVE Headroom' <= Headroom
    OBVIOUS
  <2>1. TypeOK'
    BY TypeStep
  <2>2. CASE UNCHANGED buckets
    BY <2>1, <2>2, ClockAndWindow, HeadroomShrinks
  <2>3. CASE Redemption
    <3>1. PICK out \in 1..budget : Debit(out)
      BY <2>3, RedemptionIsTyped
    <3>2. UNCHANGED << now, limits >> /\ out \in Nat
      BY <2>3, RedemptionIsTyped, StateIsTyped
    <3>3. EffectiveUsed' = EffectiveUsed + out /\ EffectiveUsed \in Nat
      BY <2>1, <3>1, <3>2, RedemptionCounts, DebitCases
    <3>4. EffectiveUsed' >= EffectiveUsed
      BY <3>2, <3>3
    <3>5. QED
      BY <2>1, <3>4, HeadroomShrinks
  <2>4. QED
    BY <2>2, <2>3
    DEF Next, SteadyNext, Tick, Tightening, EmergencyTightenRedeemLimits, Loosening,
        ExecuteSetRedeemLimits, ClockSkew
<1>2. QED
  BY <1>1, WindowTypes, PTL DEF Spec, TighteningNeverFrees

\* The steps that move the clock leave buckets and limits alone.
LEMMA ClockSteps ==
  ASSUME TypeOK, Next, now' # now
  PROVE  UNCHANGED << buckets, limits >>
<1>1. ASSUME Redemption PROVE now' = now
  BY <1>1, RedemptionIsTyped
<1>2. QED
  BY <1>1
  DEF Next, SteadyNext, Tick, Tightening, EmergencyTightenRedeemLimits, Loosening,
      ExecuteSetRedeemLimits, ClockSkew

\* A clock set back gives nothing back, not even to before the start of the
\* current bucket (redeem_window.rs 49-51).
THEOREM SkewRefundsNothing == Spec => ClockSkewNeverRefunds
<1> DEFINE Kept == now' < now => Headroom' <= Headroom
<1>1. TypeOK /\ [Next]_vars => [Kept]_vars
  <2> SUFFICES ASSUME TypeOK, Next, now' < now PROVE Headroom' <= Headroom
    OBVIOUS
  <2>1. TypeOK' /\ now \in Nat /\ now' \in Nat
    BY TypeStep DEF TypeOK
  <2>2. UNCHANGED << buckets, limits >>
    BY <2>1, ClockSteps
  <2>3. EffectiveUsed' >= EffectiveUsed
    BY <2>1, <2>2, ClockAndWindow DEF limits
  <2>4. budget' <= budget
    BY <2>2, StateIsTyped DEF limits
  <2>5. QED
    BY <2>1, <2>3, <2>4, HeadroomShrinks
<1>2. QED
  BY <1>1, WindowTypes, PTL DEF Spec, ClockSkewNeverRefunds

\* Waiting never takes headroom away (redeem_silv.rs 262-263).
THEOREM WaitingIsSafe == Spec => WaitingNeverHurts
<1> DEFINE Kept == now' > now => Headroom' >= Headroom
<1>1. TypeOK /\ [Next]_vars => [Kept]_vars
  <2> SUFFICES ASSUME TypeOK, Next, now' > now PROVE Headroom' >= Headroom
    OBVIOUS
  <2>1. TypeOK' /\ now \in Nat /\ now' \in Nat
    BY TypeStep DEF TypeOK
  <2>2. UNCHANGED << buckets, limits >>
    BY <2>1, ClockSteps
  <2>3. EffectiveUsed' <= EffectiveUsed
    BY <2>1, <2>2, ClockAndWindow DEF limits
  <2>4. budget' = budget
    BY <2>2 DEF limits
  <2>5. QED
    BY <2>1, <2>3, <2>4, HeadroomGrows
<1>2. QED
  BY <1>1, WindowTypes, PTL DEF Spec, WaitingNeverHurts
-----------------------------------------------------------------------------
(* Sums of a ledger over stretches of time.                                 *)

Ledgers == [1..Horizon -> Nat]

LEMMA StretchIsFinite ==
  ASSUME NEW a, NEW b
  PROVE  IsFiniteSet((a..b) \cap (1..Horizon))
<1>1. IsFiniteSet(1..Horizon)
  BY WindowsArePositive, FS_Interval
<1>2. QED
  BY <1>1, FS_Subset

LEMMA WithinIsNat ==
  ASSUME NEW f \in Ledgers, NEW a, NEW b
  PROVE  Within(f, a, b) \in Nat
<1>1. \A t \in (a..b) \cap (1..Horizon) : f[t] \in Nat
  BY DEF Ledgers
<1>2. QED
  BY <1>1, StretchIsFinite, SumOfNaturals DEF Within

LEMMA WithinWider ==
  ASSUME NEW f \in Ledgers, NEW a \in Int, NEW b \in Int, NEW c \in Int, NEW d \in Int,
         c <= a, b <= d
  PROVE  Within(f, a, b) <= Within(f, c, d)
<1>1. \A t \in (c..d) \cap (1..Horizon) : f[t] \in Nat
  BY DEF Ledgers
<1>2. (a..b) \cap (1..Horizon) \in SUBSET ((c..d) \cap (1..Horizon))
  OBVIOUS
<1>3. IsFiniteSet((c..d) \cap (1..Horizon))
  BY StretchIsFinite
<1>4. QED
  BY <1>1, <1>2, <1>3, SumOfNaturals DEF Within

LEMMA WithinSplit ==
  ASSUME NEW f \in Ledgers, NEW a \in Int, NEW m \in Int, NEW b \in Int, a <= m + 1, m <= b
  PROVE  Within(f, a, b) = Within(f, a, m) + Within(f, m + 1, b)
<1> DEFINE S == (a..b) \cap (1..Horizon)
           P == (a..m) \cap (1..Horizon)
<1>1. \A t \in S : f[t] \in Int
  BY DEF Ledgers
<1>2. IsFiniteSet(S)
  BY StretchIsFinite
<1>3. P \in SUBSET S /\ S \ P = (m + 1 .. b) \cap (1..Horizon)
  OBVIOUS
<1>4. SumFunctionOnSet(f, S) = SumFunctionOnSet(f, P) + SumFunctionOnSet(f, S \ P)
  <2> HIDE DEF S, P
  <2>1. QED
    BY <1>1, <1>2, <1>3, SumOfParts
<1>5. QED
  BY <1>3, <1>4 DEF Within

LEMMA WithinNothing ==
  ASSUME NEW f \in Ledgers, NEW a \in Int, NEW b \in Int,
         \A t \in 1..Horizon : a <= t /\ t <= b => f[t] = 0
  PROVE  Within(f, a, b) = 0
<1>1. \A t \in (a..b) \cap (1..Horizon) : f[t] = 0
  OBVIOUS
<1>2. QED
  BY <1>1, StretchIsFinite, SumOfZeros DEF Within

\* Ledger g is f with x more in second n.
Paying(f, g, n, x) ==
  /\ f \in Ledgers /\ g \in Ledgers /\ n \in 1..Horizon /\ x \in Nat
  /\ g[n] = f[n] + x
  /\ \A t \in 1..Horizon : t # n => g[t] = f[t]

LEMMA WithinPaid ==
  ASSUME NEW f, NEW g, NEW n, NEW x, Paying(f, g, n, x), NEW a \in Int, NEW b \in Int
  PROVE  /\ a <= n /\ n <= b => Within(g, a, b) = Within(f, a, b) + x
         /\ ~(a <= n /\ n <= b) => Within(g, a, b) = Within(f, a, b)
<1>0. /\ f \in Ledgers /\ g \in Ledgers /\ n \in 1..Horizon /\ x \in Nat
      /\ g[n] = f[n] + x
      /\ \A t \in 1..Horizon : t # n => g[t] = f[t]
  BY DEF Paying
<1> DEFINE S == (a..b) \cap (1..Horizon)
<1>1. /\ \A t \in S : f[t] \in Int /\ g[t] \in Int
      /\ \A t \in S \ {n} : g[t] = f[t]
  BY <1>0 DEF Ledgers
<1>a. g[n] = f[n] + x /\ f[n] \in Int
  BY <1>0 DEF Ledgers
<1>2. IsFiniteSet(S)
  BY StretchIsFinite
<1>3. CASE a <= n /\ n <= b
  <2>1. n \in S
    BY <1>0, <1>3
  <2>2. SumFunctionOnSet(g, S) = SumFunctionOnSet(f, S) - f[n] + g[n]
    <3> HIDE DEF S
    <3>1. QED
      BY <1>1, <1>2, <2>1, SumOfUpdate
  <2>3. Within(f, a, b) \in Nat
    BY <1>0, WithinIsNat
  <2>4. QED
    BY <1>0, <1>a, <1>3, <2>2, <2>3 DEF Within
<1>4. CASE ~(a <= n /\ n <= b)
  <2>1. n \notin S
    BY <1>4
  <2>2. \A t \in S : f[t] \in Int /\ g[t] = f[t]
    BY <1>1, <2>1
  <2>3. SumFunctionOnSet(g, S) = SumFunctionOnSet(f, S)
    <3> HIDE DEF S
    <3>1. QED
      BY <1>2, <2>2, SumOfEquals
  <2>4. QED
    BY <1>4, <2>3 DEF Within
<1>5. QED
  BY <1>3, <1>4

-----------------------------------------------------------------------------
(* The invariant of SteadySpec.                                             *)

LEMMA WindowInvariantInit == Init => WindowInvariant
<1> SUFFICES ASSUME Init PROVE WindowInvariant
  OBVIOUS
<1>1. TypeOK
  BY TypeInit
<1>2. LimitsOnlyTighten
  BY WindowsArePositive DEF Init, LimitsOnlyTighten
<1>3. BucketIsOpen /\ BucketsHoldPayments
  BY DEF Init, BucketIsOpen, BucketsHoldPayments
<1>4. QED
  BY <1>1, <1>2, <1>3 DEF WindowInvariant

\* What the invariant says, without the sums' types.
LEMMA WindowFacts ==
  ASSUME WindowInvariant
  PROVE  /\ now \in 1..Horizon /\ start \in Nat /\ used \in Nat /\ usedPrev \in Nat
         /\ budget \in Nat /\ window \in Nat \ {0} /\ Horizon \in Nat \ {0}
         /\ LaunchBudget \in Nat /\ LaunchWindow \in Nat \ {0}
         /\ budget <= LaunchBudget /\ window >= LaunchWindow
         /\ paid \in Ledgers
         /\ \A t \in 1..Horizon : paid[t] \in Nat
BY WindowsArePositive DEF WindowInvariant, TypeOK, LimitsOnlyTighten, Ledgers

LEMMA TickKeepsInvariant ==
  ASSUME WindowInvariant, Tick
  PROVE  WindowInvariant'
<1>1. /\ now' = now + 1 /\ now < Horizon
      /\ start' = start /\ used' = used /\ usedPrev' = usedPrev
      /\ budget' = budget /\ window' = window /\ paid' = paid
  BY DEF Tick, buckets, limits
<1>2. TypeOK'
  BY TypeStep DEF WindowInvariant, Next, SteadyNext
<1>3. LimitsOnlyTighten'
  BY <1>1 DEF WindowInvariant, LimitsOnlyTighten
<1>4. BucketIsOpen'
  BY <1>1, WindowFacts DEF WindowInvariant, BucketIsOpen
<1>5. BucketsHoldPayments'
  BY <1>1, WindowFacts DEF WindowInvariant, BucketsHoldPayments
<1>6. QED
  BY <1>2, <1>3, <1>4, <1>5 DEF WindowInvariant

LEMMA TighteningKeepsInvariant ==
  ASSUME WindowInvariant, Tightening
  PROVE  WindowInvariant'
<1>1. /\ now' = now /\ start' = start /\ used' = used /\ usedPrev' = usedPrev
      /\ budget' <= budget /\ window' >= window /\ paid' = paid
      /\ budget' \in Budgets /\ window' \in Windows
  BY DEF Tightening, EmergencyTightenRedeemLimits, buckets
<1>2. TypeOK'
  BY TypeStep DEF WindowInvariant, Next, SteadyNext
<1>3. budget' \in Nat /\ window' \in Nat \ {0}
  BY <1>1, WindowsArePositive
<1>4. LimitsOnlyTighten'
  BY <1>1, <1>3, WindowFacts DEF LimitsOnlyTighten
<1>5. BucketIsOpen'
  <2> SUFFICES ASSUME NEW t \in 1..Horizon, t > now \/ start = 0 \/ t >= start + window'
               PROVE  paid[t] = 0
    BY <1>1 DEF BucketIsOpen
  <2>1. t > now \/ start = 0 \/ t >= start + window
    BY <1>1, <1>3, WindowFacts
  <2>2. QED
    BY <2>1 DEF WindowInvariant, BucketIsOpen
<1>6. BucketsHoldPayments'
  <2>1. CASE start = 0
    BY <1>1, <2>1 DEF WindowInvariant, BucketsHoldPayments
  <2>2. CASE start # 0
    <3>1. /\ start <= now /\ used = Within(paid, start, Horizon)
          /\ usedPrev <= Within(paid, start - window, start - 1)
          /\ Within(paid, start - LaunchWindow, start - 1) <= usedPrev
          /\ used <= LaunchBudget /\ usedPrev <= LaunchBudget
      BY <2>2 DEF WindowInvariant, BucketsHoldPayments
    <3>2. Within(paid, start - window, start - 1) <= Within(paid, start - window', start - 1)
      BY <1>1, <1>3, WindowFacts, WithinWider
    <3>3. /\ Within(paid, start - window, start - 1) \in Nat
          /\ Within(paid, start - window', start - 1) \in Nat
      BY WindowFacts, WithinIsNat
    <3>4. usedPrev <= Within(paid, start - window', start - 1)
      BY <3>1, <3>2, <3>3, WindowFacts
    <3>5. QED
      BY <1>1, <2>2, <3>1, <3>4 DEF BucketsHoldPayments
  <2>3. QED
    BY <2>1, <2>2
<1>7. QED
  BY <1>2, <1>4, <1>5, <1>6 DEF WindowInvariant
\* A redemption in the ledger: `out` more in every stretch that holds its second.
LEMMA RedemptionInLedger ==
  ASSUME WindowInvariant, NEW out \in Nat
  PROVE  paid' = [paid EXCEPT ![now] = @ + out] =>
           /\ paid' \in Ledgers /\ \A t \in 1..Horizon : t # now => paid'[t] = paid[t]
           /\ \A a, b \in Int :
                /\ a <= now /\ now <= b => Within(paid', a, b) = Within(paid, a, b) + out
                /\ ~(a <= now /\ now <= b) => Within(paid', a, b) = Within(paid, a, b)
<1>0. HAVE paid' = [paid EXCEPT ![now] = @ + out]
<1>1. /\ paid \in Ledgers /\ now \in 1..Horizon
      /\ paid' = [paid EXCEPT ![now] = paid[now] + out]
  BY <1>0, WindowFacts
<1>2. paid' \in Ledgers
  BY <1>1 DEF Ledgers
<1>3. paid'[now] = paid[now] + out /\ \A t \in 1..Horizon : t # now => paid'[t] = paid[t]
  BY <1>1 DEF Ledgers
<1>4. Paying(paid, paid', now, out)
  BY <1>1, <1>2, <1>3 DEF Paying
<1>5. \A a, b \in Int :
        /\ a <= now /\ now <= b => Within(paid', a, b) = Within(paid, a, b) + out
        /\ ~(a <= now /\ now <= b) => Within(paid', a, b) = Within(paid, a, b)
  BY <1>4, WithinPaid
<1>6. QED
  BY <1>2, <1>3, <1>5

LEMMA RedemptionKeepsInvariant ==
  ASSUME WindowInvariant, NEW out \in 1..budget, Debit(out),
         paid' = [paid EXCEPT ![now] = @ + out], UNCHANGED << now, limits >>, TypeOK'
  PROVE  /\ WindowInvariant'
         /\ start' \in 1..now /\ now < start' + window
<1>0. /\ now \in 1..Horizon /\ start \in Nat /\ used \in Nat /\ usedPrev \in Nat
      /\ budget \in Nat /\ window \in Nat \ {0} /\ Horizon \in Nat
      /\ LaunchBudget \in Nat /\ LaunchWindow \in Nat \ {0}
      /\ budget <= LaunchBudget /\ window >= LaunchWindow /\ paid \in Ledgers
      /\ out \in Nat /\ now' = now /\ budget' = budget /\ window' = window
  BY WindowFacts DEF limits
<1>1. /\ paid' \in Ledgers /\ \A t \in 1..Horizon : t # now => paid'[t] = paid[t]
      /\ \A a, b \in Int :
           /\ a <= now /\ now <= b => Within(paid', a, b) = Within(paid, a, b) + out
           /\ ~(a <= now /\ now <= b) => Within(paid', a, b) = Within(paid, a, b)
  BY <1>0, RedemptionInLedger
<1>2. /\ \A t \in 1..Horizon :
           t > now \/ start = 0 \/ t >= start + window => paid[t] = 0
      /\ start = 0 => used = 0 /\ usedPrev = 0
      /\ start # 0 =>
           /\ start <= now /\ used = Within(paid, start, Horizon)
           /\ usedPrev <= Within(paid, start - window, start - 1)
           /\ Within(paid, start - LaunchWindow, start - 1) <= usedPrev
           /\ used <= LaunchBudget /\ usedPrev <= LaunchBudget
  BY DEF WindowInvariant, BucketIsOpen, BucketsHoldPayments
<1>3. EffectiveUsed \in Nat /\ EffectiveUsed + out <= budget
  BY <1>0, DebitCases DEF WindowInvariant
<1>4. out <= LaunchBudget
  BY <1>0
<1>5. LimitsOnlyTighten'
  BY <1>0 DEF LimitsOnlyTighten
<1>6. CASE (start = 0 \/ now >= start + 2 * window) /\ start' = now /\ used' = out /\ usedPrev' = 0
  <2>1. \A t \in 1..Horizon : t >= now - LaunchWindow => paid[t] = 0
    BY <1>0, <1>2, <1>6
  <2>2. BucketIsOpen'
    BY <1>0, <1>1, <1>6, <2>1 DEF BucketIsOpen
  <2>3. Within(paid, now, Horizon) = 0 /\ Within(paid, now - LaunchWindow, now - 1) = 0
    <3>1. \A t \in 1..Horizon : now <= t /\ t <= Horizon => paid[t] = 0
      BY <1>0, <2>1
    <3>2. \A t \in 1..Horizon : now - LaunchWindow <= t /\ t <= now - 1 => paid[t] = 0
      BY <1>0, <2>1
    <3>3. now \in Int /\ Horizon \in Int /\ now - LaunchWindow \in Int /\ now - 1 \in Int
      BY <1>0
    <3>4. Within(paid, now, Horizon) = 0
      BY <1>0, <3>1, <3>3, WithinNothing
    <3>5. Within(paid, now - LaunchWindow, now - 1) = 0
      BY <1>0, <3>2, <3>3, WithinNothing
    <3>6. QED
      BY <3>4, <3>5
  <2>4. Within(paid', now, Horizon) = out /\ Within(paid', now - LaunchWindow, now - 1) = 0
    <3>1. /\ now \in Int /\ Horizon \in Int /\ now - 1 \in Int /\ now - LaunchWindow \in Int
          /\ now <= Horizon /\ now <= now /\ ~(now <= now - 1)
      BY <1>0
    <3>2. /\ Within(paid', now, Horizon) = Within(paid, now, Horizon) + out
          /\ Within(paid', now - LaunchWindow, now - 1)
               = Within(paid, now - LaunchWindow, now - 1)
      BY <1>1, <3>1
    <3>3. QED
      BY <1>0, <2>3, <3>2
  <2>5. Within(paid', now - window, now - 1) \in Nat
    BY <1>1, WithinIsNat
  <2>6. BucketsHoldPayments'
    BY <1>0, <1>4, <1>6, <2>4, <2>5 DEF BucketsHoldPayments
  <2>7. QED
    BY <1>0, <1>5, <1>6, <2>2, <2>6 DEF WindowInvariant
<1>7. CASE /\ start # 0 /\ now < start + window
           /\ start' = start /\ used' = used + out /\ usedPrev' = usedPrev
  <2>1. BucketIsOpen'
    BY <1>0, <1>1, <1>2, <1>7 DEF BucketIsOpen
  <2>2. used <= EffectiveUsed
    <3>1. /\ EffectiveUsed = Effective(now, start, used, usedPrev, window)
          /\ Typed(now, start, used, usedPrev, window)
      BY EffectiveForm, StateIsTyped DEF WindowInvariant
    <3>2. /\ (usedPrev * RestOfPrev(now, start, window)) \div window \in Nat
          /\ EffectiveUsed = used + (usedPrev * RestOfPrev(now, start, window)) \div window
      BY <1>7, <3>1, EffectiveRegions
    <3>3. QED
      BY <1>0, <3>2
  <2>3. used + out <= LaunchBudget
    BY <1>0, <1>3, <2>2
  <2>4. /\ Within(paid', start, Horizon) = Within(paid, start, Horizon) + out
        /\ Within(paid', start - window, start - 1) = Within(paid, start - window, start - 1)
        /\ Within(paid', start - LaunchWindow, start - 1)
             = Within(paid, start - LaunchWindow, start - 1)
    <3>1. /\ start \in Int /\ Horizon \in Int /\ start - 1 \in Int
          /\ start - window \in Int /\ start - LaunchWindow \in Int
          /\ start <= now /\ now <= Horizon /\ ~(now <= start - 1)
      BY <1>0, <1>2, <1>7
    <3>2. QED
      BY <1>1, <3>1
  <2>5. BucketsHoldPayments'
    BY <1>0, <1>2, <1>7, <2>3, <2>4 DEF BucketsHoldPayments
  <2>6. QED
    BY <1>0, <1>2, <1>5, <1>7, <2>1, <2>5 DEF WindowInvariant
<1>8. CASE /\ start # 0 /\ now >= start + window /\ now < start + 2 * window
           /\ start' = start + window /\ used' = out /\ usedPrev' = used
  <2>1. BucketIsOpen'
    BY <1>0, <1>1, <1>2, <1>8 DEF BucketIsOpen
  <2>2. Within(paid, start + window, Horizon) = 0
    BY <1>0, <1>2, WithinNothing
  <2>3. Within(paid, start, start + window - 1) = used
    <3>1. /\ start \in Int /\ start + window - 1 \in Int /\ Horizon \in Int
          /\ start <= start + window - 1 + 1 /\ start + window - 1 <= Horizon
          /\ start + window - 1 + 1 = start + window
      BY <1>0, <1>8
    <3>2. Within(paid, start, Horizon)
            = Within(paid, start, start + window - 1) + Within(paid, start + window, Horizon)
      BY <1>0, <3>1, WithinSplit
    <3>3. Within(paid, start, start + window - 1) \in Nat
      BY <1>0, WithinIsNat
    <3>4. QED
      BY <1>2, <1>8, <2>2, <3>2, <3>3
  <2>4. Within(paid, start + window - LaunchWindow, start + window - 1)
          <= Within(paid, start, start + window - 1)
    BY <1>0, WithinWider
  <2>5. /\ Within(paid', start + window, Horizon) = out
        /\ Within(paid', start, start + window - 1) = used
        /\ Within(paid', start + window - LaunchWindow, start + window - 1) <= used
    <3>1. /\ start \in Int /\ Horizon \in Int /\ start + window \in Int
          /\ start + window - 1 \in Int /\ start + window - LaunchWindow \in Int
          /\ start + window <= now /\ now <= Horizon /\ ~(now <= start + window - 1)
      BY <1>0, <1>8
    <3>2. /\ Within(paid', start + window, Horizon) = Within(paid, start + window, Horizon) + out
          /\ Within(paid', start, start + window - 1) = Within(paid, start, start + window - 1)
          /\ Within(paid', start + window - LaunchWindow, start + window - 1)
               = Within(paid, start + window - LaunchWindow, start + window - 1)
      BY <1>1, <3>1
    <3>3. QED
      BY <1>0, <2>2, <2>3, <2>4, <3>2
  <2>6. start' - window = start /\ start' # 0 /\ start' \in 1..now
    BY <1>0, <1>8
  <2>7. BucketsHoldPayments'
    BY <1>0, <1>2, <1>4, <1>8, <2>5, <2>6 DEF BucketsHoldPayments
  <2>8. QED
    BY <1>0, <1>5, <1>8, <2>1, <2>6, <2>7 DEF WindowInvariant
<1>9. QED
  <2>1. start = 0 => used + out = out /\ usedPrev = 0
    BY <1>0, <1>2
  <2>2. QED
    BY <1>0, <1>6, <1>7, <1>8, <2>1, DebitCases DEF WindowInvariant

LEMMA WindowInvariantStep == WindowInvariant /\ [SteadyNext]_vars => WindowInvariant'
<1> SUFFICES ASSUME WindowInvariant, [SteadyNext]_vars PROVE WindowInvariant'
  OBVIOUS
<1>1. CASE Tick
  BY <1>1, TickKeepsInvariant
<1>2. CASE Tightening
  BY <1>2, TighteningKeepsInvariant
<1>3. CASE Redemption
  BY <1>3, RedemptionIsTyped, RedemptionKeepsInvariant DEF WindowInvariant
<1>4. CASE UNCHANGED vars
  BY <1>4
  DEF vars, buckets, limits, WindowInvariant, TypeOK, LimitsOnlyTighten, BucketIsOpen,
      BucketsHoldPayments
<1>5. QED
  BY <1>1, <1>2, <1>3, <1>4 DEF SteadyNext

LEMMA WindowInvariantHolds == SteadySpec => []WindowInvariant
BY WindowInvariantInit, WindowInvariantStep, PTL DEF SteadySpec

THEOREM SteadyWindowTypes == SteadySpec => []TypeOK
<1>1. WindowInvariant => TypeOK
  BY DEF WindowInvariant
<1>2. QED
  BY <1>1, WindowInvariantHolds, PTL

-----------------------------------------------------------------------------
(* The counter never ratchets shut.                                         *)

\* The promise's sum over seconds is the sum the invariant speaks of.
LEMMA OutflowIsSum ==
  ASSUME NEW f \in Ledgers, NEW a, NEW b
  PROVE  Promise!Outflow(f, a, b) = Within(f, a, b)
<1>1. a..b \cap DOMAIN f = (a..b) \cap (1..Horizon)
  BY DEF Ledgers
<1>2. ASSUME NEW T
      PROVE  Promise!SumFunctionOnSet(f, T) = SumFunctionOnSet(f, T)
  BY Zenon
  DEF Promise!SumFunctionOnSet, SumFunctionOnSet, Promise!FoldFunctionOnSet, FoldFunctionOnSet,
      Promise!MapThenFoldSet, MapThenFoldSet
<1>3. QED
  BY <1>1, <1>2 DEF Promise!Outflow, Within

LEMMA InvariantCounts ==
  ASSUME WindowInvariant
  PROVE  EffectiveUsed <= Within(paid, now - 2 * window + 1, now)
<1>0. /\ now \in 1..Horizon /\ start \in Nat /\ used \in Nat /\ usedPrev \in Nat
      /\ window \in Nat \ {0} /\ Horizon \in Nat /\ paid \in Ledgers
  BY WindowFacts
<1>1. /\ \A t \in 1..Horizon :
           t > now \/ start = 0 \/ t >= start + window => paid[t] = 0
      /\ start = 0 => used = 0 /\ usedPrev = 0
      /\ start # 0 =>
           /\ start <= now /\ used = Within(paid, start, Horizon)
           /\ usedPrev <= Within(paid, start - window, start - 1)
  BY DEF WindowInvariant, BucketIsOpen, BucketsHoldPayments
<1>2. /\ EffectiveUsed = Effective(now, start, used, usedPrev, window)
      /\ Typed(now, start, used, usedPrev, window)
  BY EffectiveForm, StateIsTyped DEF WindowInvariant
<1>3. EffectiveUsed \in Nat
  BY <1>2, EffectiveRegions
<1> DEFINE recent == Within(paid, now - 2 * window + 1, now)
<1>4. recent \in Nat
  BY <1>0, WithinIsNat
<1>5. start # 0 => used = Within(paid, start, now)
  <2> SUFFICES ASSUME start # 0 PROVE used = Within(paid, start, now)
    OBVIOUS
  <2>1. /\ start \in Int /\ now \in Int /\ Horizon \in Int /\ now + 1 \in Int
        /\ start <= now + 1 /\ now <= Horizon
    BY <1>0, <1>1
  <2>2. Within(paid, start, Horizon) = Within(paid, start, now) + Within(paid, now + 1, Horizon)
    BY <1>0, <2>1, WithinSplit
  <2>3. Within(paid, now + 1, Horizon) = 0
    <3>1. \A t \in 1..Horizon : now + 1 <= t /\ t <= Horizon => paid[t] = 0
      BY <1>0, <1>1
    <3>2. QED
      BY <1>0, <2>1, <3>1, WithinNothing
  <2>4. Within(paid, start, now) \in Nat
    BY <1>0, WithinIsNat
  <2>5. QED
    BY <1>1, <2>2, <2>3, <2>4
<1>6. CASE start = 0
  BY <1>0, <1>1, <1>2, <1>4, <1>6, EffectiveRegions
<1>7. CASE start # 0 /\ now < start + window
  <2>1. /\ EffectiveUsed = used + (usedPrev * RestOfPrev(now, start, window)) \div window
        /\ RestOfPrev(now, start, window) \in 0..window
    BY <1>2, <1>7, EffectiveRegions
  <2>2. (usedPrev * RestOfPrev(now, start, window)) \div window \in 0..usedPrev
    BY <1>0, <2>1, ShareIsTyped
  <2>3. Within(paid, start - window, now)
          = Within(paid, start - window, start - 1) + Within(paid, start, now)
    <3>1. /\ start - window \in Int /\ start - 1 \in Int /\ now \in Int
          /\ start - window <= start - 1 + 1 /\ start - 1 <= now /\ start - 1 + 1 = start
      BY <1>0, <1>1, <1>7
    <3>2. QED
      BY <1>0, <3>1, WithinSplit
  <2>4. Within(paid, start - window, now) <= recent
    <3>1. /\ start - window \in Int /\ now - 2 * window + 1 \in Int /\ now \in Int
          /\ now - 2 * window + 1 <= start - window /\ now <= now
      BY <1>0, <1>7
    <3>2. QED
      BY <1>0, <3>1, WithinWider
  <2>5. /\ Within(paid, start - window, start - 1) \in Nat
        /\ Within(paid, start - window, now) \in Nat
    BY <1>0, WithinIsNat
  <2>6. QED
    BY <1>0, <1>1, <1>4, <1>5, <1>7, <2>1, <2>2, <2>3, <2>4, <2>5
<1>8. CASE start # 0 /\ now >= start + window /\ now < start + 2 * window
  <2>1. EffectiveUsed <= used
    BY <1>2, <1>8, EffectiveRegions
  <2>2. Within(paid, start, now) <= recent
    <3>1. /\ start \in Int /\ now - 2 * window + 1 \in Int /\ now \in Int
          /\ now - 2 * window + 1 <= start /\ now <= now
      BY <1>0, <1>8
    <3>2. QED
      BY <1>0, <3>1, WithinWider
  <2>3. QED
    BY <1>0, <1>3, <1>4, <1>5, <1>8, <2>1, <2>2
<1>9. CASE start # 0 /\ now >= start + 2 * window
  BY <1>2, <1>4, <1>9, EffectiveRegions
<1>10. QED
  BY <1>0, <1>6, <1>7, <1>8, <1>9

\* What the counter holds against a redemption was really paid out within the
\* last two windows (redeem_silv.rs 276-278).
THEOREM NothingIsInvented == SteadySpec => []CountsOnlyWhatWasPaid
<1>1. WindowInvariant => CountsOnlyWhatWasPaid
  BY InvariantCounts, OutflowIsSum, WindowFacts DEF CountsOnlyWhatWasPaid
<1>2. QED
  BY <1>1, WindowInvariantHolds, PTL

-----------------------------------------------------------------------------
(* The refinement: every step of the buckets is a step of the rate limit.    *)

\* After a redemption, both buckets fit the budget.
LEMMA BucketsFit ==
  ASSUME WindowInvariant, WindowInvariant', NEW out \in Nat, Debit(out),
         UNCHANGED << now, limits >>, start' \in 1..now, now < start' + window
  PROVE  /\ (usedPrev' * (start' + window - now)) \div window \in Nat
         /\ used' + (usedPrev' * (start' + window - now)) \div window <= LaunchBudget
<1>1. EffectiveUsed' <= LaunchBudget
  <2>1. EffectiveUsed' = EffectiveUsed + out
    BY RedemptionCounts DEF WindowInvariant
  <2>2. EffectiveUsed \in Nat /\ EffectiveUsed + out <= budget
    BY DebitCases DEF WindowInvariant
  <2>3. QED
    BY <2>1, <2>2, WindowFacts
<1>2. /\ now' = now /\ window' = window /\ now \in Nat /\ window \in Nat
      /\ start' \in Nat /\ start' <= now /\ start' # 0
  BY WindowFacts DEF limits
<1>3. /\ EffectiveUsed' = Effective(now, start', used', usedPrev', window)
      /\ Typed(now, start', used', usedPrev', window)
  BY <1>2, EffectiveFormAfter, StateIsTyped DEF WindowInvariant, Typed
<1>4. RestOfPrev(now, start', window) = start' + window - now
  <2>1. ~(now < start')
    BY <1>2
  <2>2. QED
    BY <2>1 DEF RestOfPrev
<1>5. /\ (usedPrev' * RestOfPrev(now, start', window)) \div window \in Nat
      /\ EffectiveUsed' = used' + (usedPrev' * RestOfPrev(now, start', window)) \div window
  BY <1>3, <1>4, EffectiveRegions
<1>6. QED
  BY <1>1, <1>2, <1>4, <1>5

\* The part of the previous bucket that no longer counts is within the share of
\* the launch budget that the seconds since then release: p of it, i seconds
\* into a window of w, against a budget b over a window of v.
LEMMA DecayIsReleased ==
  ASSUME NEW p \in Nat, NEW w \in Nat \ {0}, NEW i \in 0..w,
         NEW b \in Nat, NEW v \in Nat \ {0}, NEW e \in Nat,
         p <= b, v <= w, i <= e
  PROVE  p - (p * (w - i)) \div w <= Promise!CeilDiv(b * e, v)
<1> DEFINE q == (p * (w - i)) \div w
           c == Promise!CeilDiv(b * e, v)
<1>1. w - i \in Nat
  OBVIOUS
<1>2. q \in Nat /\ p * (w - i) < q * w + w
  BY <1>1, FloorOfProduct
<1>3. c \in Nat /\ b * e <= c * v
  <2> DEFINE a == b * e
  <2>1. a \in Nat
    OBVIOUS
  <2> HIDE DEF a
  <2>2. (a + v - 1) \div v \in Nat /\ a <= ((a + v - 1) \div v) * v
    BY <2>1, SMT
  <2>3. QED
    BY <2>2 DEF a, Promise!CeilDiv
<1> HIDE DEF q, c
<1>4. c * v <= c * w
  <2>1. w - v \in Nat /\ c * (w - v) \in Nat
    BY <1>3
  <2>2. c * w = c * v + c * (w - v) /\ c * v \in Int
    BY <1>3, <2>1
  <2>3. QED
    BY <1>3, <2>1, <2>2
<1>5. p * i <= b * e
  <2>1. p * i <= p * e
    <3>1. e - i \in Nat /\ p * (e - i) \in Nat
      OBVIOUS
    <3>2. p * e = p * i + p * (e - i) /\ p * i \in Int
      BY <3>1
    <3>3. QED
      BY <3>1, <3>2
  <2>2. p * e <= b * e
    <3>1. b - p \in Nat /\ (b - p) * e \in Nat
      OBVIOUS
    <3>2. b * e = p * e + (b - p) * e /\ p * e \in Int
      BY <3>1
    <3>3. QED
      BY <3>1, <3>2
  <2>3. p * i \in Int /\ p * e \in Int /\ b * e \in Int
    OBVIOUS
  <2>4. QED
    BY <2>1, <2>2, <2>3
<1>6. /\ p * (w - i) = p * w - p * i /\ p * w \in Int /\ p * i \in Int
      /\ q * w \in Int /\ (p - q) * w = p * w - q * w /\ (c + 1) * w = c * w + w
      /\ c * w \in Int /\ c * v \in Int /\ b * e \in Int
  BY <1>2, <1>3
<1>7. (p - q) * w < (c + 1) * w
  BY <1>2, <1>3, <1>4, <1>5, <1>6
<1>8. p - q <= c
  BY <1>2, <1>3, <1>7, CancelFactor
<1>9. QED
  BY <1>8 DEF q, c

\* A ledger whose payments are in two such buckets keeps the rate: at n, in a
\* window opened at s, for a budget b over a window of v.
LEMMA BucketsKeepRate ==
  ASSUME NEW f \in Ledgers, NEW n \in 1..Horizon, NEW s \in 1..n, NEW u \in Nat, NEW p \in Nat,
         NEW w \in Nat \ {0}, NEW b \in Nat, NEW v \in Nat \ {0}, NEW d \in 1..v,
         v <= w, n < s + w, u = Within(f, s, Horizon), Within(f, s - v, s - 1) <= p, p <= b,
         u + (p * (s + w - n)) \div w <= b
  PROVE  Within(f, n - d + 1, n) <= b + Promise!CeilDiv(b * (d - 1), v)
<1> DEFINE spare == Promise!CeilDiv(b * (d - 1), v)
           held == (p * (s + w - n)) \div w
           recent == Within(f, n - d + 1, n)
<1> SUFFICES recent <= b + spare
  OBVIOUS
<1>0. Horizon \in Nat /\ n \in Nat /\ s \in Nat /\ s <= n /\ n <= Horizon
  BY WindowsArePositive
<1>1. n - s \in 0..w /\ d - 1 \in Nat /\ w - (n - s) = s + w - n /\ s + w - n \in Nat
  BY <1>0
<1>2. held \in Nat
  BY <1>1, FloorOfProduct
<1>3. spare \in Nat
  <2> DEFINE a == b * (d - 1)
  <2>1. a \in Nat
    BY <1>1
  <2> HIDE DEF a
  <2>2. (a + v - 1) \div v \in Nat
    BY <2>1, SMT
  <2>3. QED
    BY <2>2 DEF a, Promise!CeilDiv
<1>4. recent \in Nat
  BY WithinIsNat
<1>5. u <= b
  BY <1>2
<1>6. CASE n - d + 1 >= s
  <2>1. recent <= u
    <3>1. n - d + 1 \in Int /\ n \in Int /\ s \in Int /\ Horizon \in Int /\ s <= n - d + 1
      BY <1>0, <1>6
    <3>2. QED
      BY <1>0, <3>1, WithinWider
  <2> HIDE DEF recent, spare
  <2>2. QED
    BY <1>3, <1>4, <1>5, <2>1
<1>7. CASE n - d + 1 < s
  <2>1. /\ n - d + 1 \in Int /\ n \in Int /\ s \in Int /\ Horizon \in Int /\ s - 1 \in Int
        /\ s - v \in Int /\ n - d + 1 <= s - 1 + 1 /\ s - 1 <= n /\ s - 1 + 1 = s
        /\ s - v <= n - d + 1 /\ s - 1 <= s - 1 /\ s <= s /\ n - s <= d - 1
    BY <1>0, <1>7
  <2>2. recent = Within(f, n - d + 1, s - 1) + Within(f, s, n)
    BY <2>1, WithinSplit
  <2>3. Within(f, n - d + 1, s - 1) <= Within(f, s - v, s - 1)
    BY <2>1, WithinWider
  <2>4. Within(f, s, n) <= Within(f, s, Horizon)
    BY <1>0, <2>1, WithinWider
  <2>5. /\ Within(f, n - d + 1, s - 1) \in Nat /\ Within(f, s - v, s - 1) \in Nat
        /\ Within(f, s, n) \in Nat
    BY WithinIsNat
  <2>6. p - held <= spare
    <3>1. p - (p * (w - (n - s))) \div w <= Promise!CeilDiv(b * (d - 1), v)
      BY <1>1, <2>1, DecayIsReleased
    <3>2. QED
      BY <1>1, <3>1
  <2>7. u + held <= b
    OBVIOUS
  <2> HIDE DEF recent, spare, held
  <2>8. recent <= p + u
    BY <2>2, <2>3, <2>4, <2>5
  <2>9. QED
    BY <1>2, <1>3, <1>4, <2>6, <2>7, <2>8
<1>8. QED
  BY <1>0, <1>6, <1>7

LEMMA RedemptionKeepsRate ==
  ASSUME WindowInvariant, NEW out \in 1..budget, Debit(out),
         paid' = [paid EXCEPT ![now] = @ + out], UNCHANGED << now, limits >>, TypeOK',
         NEW d \in 1..LaunchWindow
  PROVE  Promise!Outflow(paid', now - d + 1, now) <= Promise!Allowance(d)
<1>1. /\ now \in 1..Horizon /\ window \in Nat \ {0} /\ budget \in Nat
      /\ LaunchBudget \in Nat /\ LaunchWindow \in Nat \ {0}
      /\ budget <= LaunchBudget /\ LaunchWindow <= window /\ out \in Nat
  BY WindowFacts
<1>2. WindowInvariant' /\ start' \in 1..now /\ now < start' + window
  BY RedemptionKeepsInvariant
<1>3. paid' \in Ledgers /\ used' \in Nat /\ usedPrev' \in Nat
  BY <1>2 DEF WindowInvariant, TypeOK, Ledgers
<1>4. /\ used' = Within(paid', start', Horizon)
      /\ Within(paid', start' - LaunchWindow, start' - 1) <= usedPrev'
      /\ usedPrev' <= LaunchBudget
  <2>1. start' # 0
    BY <1>1, <1>2
  <2>2. QED
    BY <1>2, <2>1 DEF WindowInvariant, BucketsHoldPayments
<1>5. used' + (usedPrev' * (start' + window - now)) \div window <= LaunchBudget
  BY <1>1, <1>2, BucketsFit
<1>6. Within(paid', now - d + 1, now)
        <= LaunchBudget + Promise!CeilDiv(LaunchBudget * (d - 1), LaunchWindow)
  BY <1>1, <1>2, <1>3, <1>4, <1>5, BucketsKeepRate, Zenon
<1>7. QED
  BY <1>3, <1>6, OutflowIsSum DEF Promise!Allowance

LEMMA StepKeepsRate ==
  WindowInvariant /\ [SteadyNext]_vars => [Promise!Next]_<< now, paid >>
<1> SUFFICES ASSUME WindowInvariant, [SteadyNext]_vars
             PROVE  Promise!Next \/ UNCHANGED << now, paid >>
  OBVIOUS
<1>1. CASE Tick
  BY <1>1 DEF Tick, Promise!Next, Promise!Pass
<1>2. CASE Tightening
  BY <1>2 DEF Tightening, EmergencyTightenRedeemLimits
<1>3. CASE Redemption
  <2>1. /\ TypeOK' /\ UNCHANGED << now, limits >>
        /\ \E out \in 1..budget : Debit(out) /\ paid' = [paid EXCEPT ![now] = @ + out]
    BY <1>3, RedemptionIsTyped DEF WindowInvariant
  <2>2. PICK out \in 1..budget : Debit(out) /\ paid' = [paid EXCEPT ![now] = @ + out]
    BY <2>1
  <2>3. \A d \in 1..LaunchWindow :
          Promise!Outflow(paid', now - d + 1, now) <= Promise!Allowance(d)
    BY <2>1, <2>2, RedemptionKeepsRate
  <2>4. out \in 1..LaunchBudget
    BY WindowFacts
  <2>5. Promise!Pay(out)
    BY <2>1, <2>2, <2>3 DEF Promise!Pay
  <2>6. QED
    BY <2>4, <2>5 DEF Promise!Next
<1>4. CASE UNCHANGED vars
  BY <1>4 DEF vars
<1>5. QED
  BY <1>1, <1>2, <1>3, <1>4 DEF SteadyNext

\* The two buckets implement the rate limit: while the limits only tighten, any
\* d seconds in a row pay out at most the launch budget and its share of d - 1
\* seconds, however the redemptions fall on the grid of windows
\* (redeem_window.rs 1-9).
THEOREM RateIsKept == SteadySpec => KeepsTheRate
<1>1. Init => Promise!Init
  BY DEF Init, Promise!Init
<1>2. KeepsTheRate <=> Promise!Init /\ [][Promise!Next]_<< now, paid >>
  BY DEF KeepsTheRate, Promise!Spec
<1>3. QED
  BY <1>1, <1>2, StepKeepsRate, WindowInvariantHolds, PTL DEF SteadySpec
=============================================================================
