--------------------------- MODULE LazerProxyProofs ---------------------------
(***************************************************************************)
(* Proofs about LazerProxy, for every number of pages and banners, every   *)
(* period, retry budget and bucket: what the callers of one warm instance  *)
(* can never see, however their awaits interleave with its calls.          *)
(***************************************************************************)
EXTENDS LazerProxy, TLAPS

-----------------------------------------------------------------------------
(* The inductive invariant.                                                 *)

\* An envelope's usable timestamp is its print's.
CacheIsStamped == silvCache.ts \in {0, silvCache.print}

\* Where a submit flow stands tells how often it has fetched.
FlowsAreCounted ==
  \A c \in Submitters :
    /\ req[c].at = "idle" => tries[c] = 0
    /\ req[c].at # "idle" => tries[c] >= 1
    /\ req[c].at = "asleep" => tries[c] < CLAIM_ATTEMPTS

\* The claim mark is at or past every print a page believes to be its own.
ClaimsAreMarked ==
  \A c \in Submitters :
    answer[c].status = "ok" /\ ~answer[c].contended => answer[c].print <= lastClaimed

\* Who holds an envelope and is waiting again, waits for an optional retry.
HoldersOnlyRetry ==
  \A c \in Submitters :
    answer[c].status = "ok" => req[c].at # "idle" /\ (Asking(c) => tries[c] > 1)

ProxyInvariant ==
  /\ TypeOK
  /\ CacheIsStamped
  /\ FlowsAreCounted
  /\ ClaimsAreMarked
  /\ ClaimIsExclusive
  /\ HoldersOnlyRetry
-----------------------------------------------------------------------------
(* What a caller's segment, from one await to the next, amounts to.          *)

\* It goes on waiting, having started a call or not.
Waits(c) ==
  /\ \E at \in {"shared", "created"}, attempt \in 0..2,
        failures \in 0..MAX_UPSTREAM_FAILURES - 1 :
          req' = [req EXCEPT ![c] = Awaiting(at, attempt, failures)]
  /\ UNCHANGED << silvCache, lastClaimed, answer >>
  /\ \/ UNCHANGED << tokens, inflight >>
     \/ /\ inflight = "none" /\ inflight' = "out"
        /\ AllowRequest
        /\ ~Cached \/ silvCache.age >= MIN_UPSTREAM_INTERVAL

\* It is answered with the cached envelope, which a page may have claimed.
IsServed(c) ==
  \E contended \in BOOLEAN :
    /\ Serve(c, contended)
    /\ contended => Fresh(c)
    /\ \/ /\ UNCHANGED lastClaimed
          /\ Fresh(c) => contended
       \/ silvCache.ts > lastClaimed /\ lastClaimed' = silvCache.ts
    /\ UNCHANGED << silvCache, tokens, inflight >>

\* It is turned away.
IsRefused(c) ==
  /\ \E status \in {"limited", "down"} : Refuse(c, status)
  /\ UNCHANGED service

Outcome(c) == Waits(c) \/ IsServed(c) \/ IsRefused(c)

LEMMA ClaimServes ==
  ASSUME NEW c \in Clients, Fresh(c), ClaimOrContend(c),
         UNCHANGED << silvCache, tokens, inflight >>
  PROVE  Outcome(c)
BY DEF ClaimOrContend, Outcome, IsServed

LEMMA PageIsServed ==
  ASSUME NEW c \in Clients, Fresh(c), Serve(c, TRUE),
         UNCHANGED << silvCache, lastClaimed, tokens, inflight >>
  PROVE  Outcome(c)
BY DEF Outcome, IsServed

LEMMA BannerIsServed ==
  ASSUME NEW c \in Clients, ~Fresh(c), Serve(c, FALSE),
         UNCHANGED << silvCache, lastClaimed, tokens, inflight >>
  PROVE  Outcome(c)
BY DEF Outcome, IsServed

LEMMA PassHasOutcome ==
  ASSUME TypeOK, NEW c \in Clients, NEW attempt \in Nat,
         NEW failures \in 0..MAX_UPSTREAM_FAILURES - 1, Pass(c, attempt, failures),
         Fresh(c) /\ attempt = 0 => ~Cached \/ silvCache.age >= MIN_UPSTREAM_INTERVAL
  PROVE  Outcome(c)
<1>0. Attempts(c) \in {1, 3} /\ (Fresh(c) => Attempts(c) = 1)
  BY DEF Attempts
<1>1. CASE attempt >= Attempts(c)
  <2>1. ~(attempt < Attempts(c))
    BY <1>0, <1>1
  <2>2. Exit(c)
    BY <1>1, <2>1, Zenon DEF Pass
  <2>3. CASE Fresh(c) /\ Cached
    <3>1. Serve(c, TRUE) /\ UNCHANGED << silvCache, lastClaimed, tokens, inflight >>
      BY <2>2, <2>3 DEF Exit, service
    <3>2. QED
      BY <2>3, <3>1, PageIsServed
  <2>4. CASE ~(Fresh(c) /\ Cached)
    <3>1. Refuse(c, "down") /\ UNCHANGED service
      BY <2>2, <2>4 DEF Exit
    <3>2. QED
      BY <3>1 DEF Outcome, IsRefused
  <2>5. QED
    BY <2>3, <2>4
<1>2. CASE attempt < Attempts(c) /\ CacheHit(c)
  <2>1. ~(attempt >= Attempts(c))
    BY <1>0, <1>2
  <2>2. Serve(c, FALSE) /\ UNCHANGED service /\ ~Fresh(c)
    BY <1>2, <2>1, Zenon DEF Pass, CacheHit
  <2>3. UNCHANGED << silvCache, lastClaimed, tokens, inflight >>
    BY <2>2 DEF service
  <2>4. QED
    BY <2>2, <2>3, BannerIsServed
<1>3. CASE attempt < Attempts(c) /\ ~CacheHit(c)
  <2>1. attempt \in 0..2 /\ ~(attempt >= Attempts(c))
    BY <1>0, <1>3
  <2>2. ~Cached \/ silvCache.age >= MIN_UPSTREAM_INTERVAL
    <3>1. CASE Fresh(c)
      BY <1>0, <1>3, <3>1
    <3>2. CASE ~Fresh(c)
      <4>1. /\ silvCache.age \in Int /\ CACHE_TTL \in Int /\ MIN_UPSTREAM_INTERVAL \in Int
            /\ MIN_UPSTREAM_INTERVAL <= CACHE_TTL
        BY ProxyAssumption DEF TypeOK
      <4>2. QED
        BY <1>3, <3>2, <4>1 DEF CacheHit
    <3>3. QED
      BY <3>1, <3>2
  <2>3. CASE inflight # "none"
    <3>1. req' = [req EXCEPT ![c] = Awaiting("shared", attempt, failures)]
          /\ UNCHANGED << service, answer >>
      BY <1>3, <2>1, <2>3, Zenon DEF Pass
    <3>2. UNCHANGED << tokens, inflight, silvCache, lastClaimed, answer >>
      BY <3>1 DEF service
    <3>3. QED
      BY <2>1, <3>1, <3>2 DEF Outcome, Waits
  <2>4. CASE inflight = "none"
    <3>1. CreateOrJoin(c, attempt, failures)
      BY <1>3, <2>1, <2>4, Zenon DEF Pass
    <3>2. CASE AllowRequest
      <4>1. /\ inflight' = "out"
            /\ req' = [req EXCEPT ![c] = Awaiting("created", attempt, failures)]
            /\ UNCHANGED << silvCache, lastClaimed, answer >>
        BY <2>4, <3>1, <3>2 DEF CreateOrJoin, AllowRequest, TypeOK
      <4>2. QED
        BY <2>1, <2>2, <2>4, <3>2, <4>1 DEF Outcome, Waits
    <3>3. CASE ~AllowRequest
      BY <2>4, <3>1, <3>3 DEF CreateOrJoin, Outcome, IsRefused
    <3>4. QED
      BY <3>2, <3>3
  <2>5. QED
    BY <2>3, <2>4
<1>4. QED
  BY <1>0, <1>1, <1>2, <1>3

\* Where a caller takes up its work, and what it counts.
Begins(c) ==
  \/ /\ req[c].at \in {"idle", "asleep"}
     /\ tries' = IF Fresh(c) THEN [tries EXCEPT ![c] = @ + 1] ELSE tries
  \/ Asking(c) /\ UNCHANGED tries

LEMMA SegmentHasOutcome ==
  ASSUME TypeOK, NEW c \in Clients, Ask(c) \/ Resume(c)
  PROVE  Begins(c) /\ Outcome(c) /\ UNCHANGED feed
<1> USE ProxyAssumption
<1>0. /\ req[c].attempt \in 0..2 /\ req[c].failures \in 0..MAX_UPSTREAM_FAILURES - 1
      /\ req[c].attempt + 1 \in Nat /\ req[c].attempt + 1 # 0
      /\ req[c].failures + 1 \in Nat
      /\ req[c].failures + 1 < MAX_UPSTREAM_FAILURES =>
           req[c].failures + 1 \in 0..MAX_UPSTREAM_FAILURES - 1
  BY DEF TypeOK
<1>1. CASE Ask(c)
  <2>1. Begins(c) /\ UNCHANGED feed
    BY <1>1 DEF Ask, Begins
  <2>2. CASE Fresh(c) /\ Cached /\ silvCache.age < MIN_UPSTREAM_INTERVAL
    BY <1>1, <2>1, <2>2, ClaimServes DEF Ask, Handle
  <2>3. CASE ~(Fresh(c) /\ Cached /\ silvCache.age < MIN_UPSTREAM_INTERVAL)
    <3>1. Pass(c, 0, 0)
      BY <1>1, <2>3 DEF Ask, Handle
    <3>2. /\ silvCache.age \in Int /\ MIN_UPSTREAM_INTERVAL \in Int
          /\ 0 \in 0..MAX_UPSTREAM_FAILURES - 1
      BY DEF TypeOK
    <3>3. Fresh(c) /\ 0 = 0 => ~Cached \/ silvCache.age >= MIN_UPSTREAM_INTERVAL
      BY <2>3, <3>2
    <3>4. QED
      BY <2>1, <3>1, <3>2, <3>3, PassHasOutcome
  <2>4. QED
    BY <2>2, <2>3
<1>2. CASE ResumeShared(c)
  <2>1. Begins(c) /\ UNCHANGED feed
    BY <1>2 DEF ResumeShared, Begins, Asking
  <2>2. CASE CacheHit(c) /\ Serve(c, FALSE) /\ UNCHANGED service
    <3>1. ~Fresh(c) /\ UNCHANGED << silvCache, lastClaimed, tokens, inflight >>
      BY <2>2 DEF CacheHit, service
    <3>2. QED
      BY <2>1, <2>2, <3>1, BannerIsServed
  <2>3. CASE Fresh(c) /\ ClaimOrContend(c) /\ UNCHANGED << silvCache, tokens, inflight >>
    BY <2>1, <2>3, ClaimServes
  <2>4. CASE /\ req[c].failures + 1 < MAX_UPSTREAM_FAILURES
             /\ Pass(c, req[c].attempt + 1, req[c].failures + 1)
    BY <1>0, <2>1, <2>4, PassHasOutcome
  <2>5. CASE Refuse(c, "down") /\ UNCHANGED service
    BY <2>1, <2>5 DEF Outcome, IsRefused
  <2>6. QED
    BY <1>2, <2>2, <2>3, <2>4, <2>5 DEF ResumeShared
<1>3. CASE ResumeCreated(c)
  <2>1. Begins(c) /\ UNCHANGED feed
    BY <1>3 DEF ResumeCreated, Begins, Asking
  <2>2. CASE ~Fresh(c) /\ Serve(c, FALSE) /\ UNCHANGED service
    <3>1. UNCHANGED << silvCache, lastClaimed, tokens, inflight >>
      BY <2>2 DEF service
    <3>2. QED
      BY <2>1, <2>2, <3>1, BannerIsServed
  <2>3. CASE Fresh(c) /\ ClaimOrContend(c) /\ UNCHANGED << silvCache, tokens, inflight >>
    BY <2>1, <2>3, ClaimServes
  <2>4. CASE /\ req[c].failures + 1 < MAX_UPSTREAM_FAILURES
             /\ Pass(c, req[c].attempt + 1, req[c].failures + 1)
    BY <1>0, <2>1, <2>4, PassHasOutcome
  <2>5. CASE Refuse(c, "down") /\ UNCHANGED service
    BY <2>1, <2>5 DEF Outcome, IsRefused
  <2>6. QED
    BY <1>3, <2>2, <2>3, <2>4, <2>5 DEF ResumeCreated
<1>4. QED
  BY <1>1, <1>2, <1>3 DEF Resume
-----------------------------------------------------------------------------
(* Every step keeps the invariant.                                          *)

Requests ==
  [at : {"idle", "shared", "created", "asleep", "done"}, wake : {"no", "ok", "failed"},
   attempt : 0..2, failures : 0..MAX_UPSTREAM_FAILURES - 1, timer : 0..CLAIM_RETRY]
Answers ==
  [status : {"none", "ok", "limited", "down"}, print : 0..MaxPrint,
   contended : BOOLEAN, aged : BOOLEAN]

\* How far a caller's count of fetches moves when it takes up its work.
LEMMA BeginningIsCounted ==
  ASSUME TypeOK, FlowsAreCounted, HoldersOnlyRetry, NEW c \in Clients, Begins(c)
  PROVE  /\ tries' \in [Clients -> 0..CLAIM_ATTEMPTS]
         /\ \A d \in Clients \ {c} : tries'[d] = tries[d]
         /\ Fresh(c) => tries'[c] >= 1 /\ (answer[c].status = "ok" => tries'[c] > 1)
<1>1. CLAIM_ATTEMPTS \in Nat \ {0} /\ tries[c] \in 0..CLAIM_ATTEMPTS
  BY ProxyAssumption DEF TypeOK
<1>2. CASE req[c].at \in {"idle", "asleep"} /\ Fresh(c)
  <2>1. /\ c \in Submitters /\ tries' = [tries EXCEPT ![c] = tries[c] + 1]
        /\ req[c].at \in {"idle", "asleep"}
    BY <1>2 DEF Begins, Fresh, Asking
  <2>2. /\ tries[c] < CLAIM_ATTEMPTS
        /\ answer[c].status = "ok" => tries[c] >= 1
    BY <1>1, <2>1 DEF FlowsAreCounted, HoldersOnlyRetry
  <2>3. tries' \in [Clients -> 0..CLAIM_ATTEMPTS] /\ tries'[c] = tries[c] + 1
    BY <1>1, <2>1, <2>2 DEF TypeOK
  <2>4. QED
    BY <1>1, <2>1, <2>2, <2>3 DEF TypeOK
<1>3. CASE ~(req[c].at \in {"idle", "asleep"} /\ Fresh(c))
  <2>1. UNCHANGED tries
    BY <1>3 DEF Begins
  <2>2. ASSUME Fresh(c)
        PROVE  tries'[c] >= 1 /\ (answer[c].status = "ok" => tries'[c] > 1)
    <3>1. c \in Submitters /\ Asking(c)
      BY <1>3, <2>2 DEF Begins, Fresh
    <3>2. req[c].at # "idle"
      BY <3>1 DEF Asking
    <3>3. QED
      BY <2>1, <3>1, <3>2 DEF FlowsAreCounted, HoldersOnlyRetry
  <2>3. QED
    BY <2>1, <2>2 DEF TypeOK
<1>4. QED
  BY <1>2, <1>3

\* What an answer leaves its caller with.
LEMMA ServingSets ==
  ASSUME TypeOK, tries' \in [Clients -> 0..CLAIM_ATTEMPTS], NEW c \in Clients,
         NEW contended \in BOOLEAN, Serve(c, contended), contended => Fresh(c)
  PROVE  /\ req' \in [Clients -> Requests] /\ answer' \in [Clients -> Answers]
         /\ \A d \in Clients \ {c} : req'[d] = req[d] /\ answer'[d] = answer[d]
         /\ answer'[c].status = "ok" /\ answer'[c].contended = contended
         /\ Fresh(c) => answer'[c].print = silvCache.print
         /\ ~Asking(c)' /\ req'[c].wake = "no"
         /\ Fresh(c) => req'[c].at # "idle"
         /\ req'[c].at = "asleep" => tries'[c] < CLAIM_ATTEMPTS
<1> USE ProxyAssumption
<1>1. req \in [Clients -> Requests] /\ answer \in [Clients -> Answers]
  BY DEF TypeOK, Requests, Answers
<1> DEFINE next == IF contended /\ tries'[c] < CLAIM_ATTEMPTS
                   THEN [Resting("asleep") EXCEPT !.timer = CLAIM_RETRY]
                   ELSE Resting(ReturnTo(c))
<1>2. /\ next \in Requests /\ next.at \in {"asleep", "done", "idle"} /\ next.wake = "no"
      /\ Fresh(c) => next.at # "idle"
      /\ next.at = "asleep" => tries'[c] < CLAIM_ATTEMPTS
  <2>1. CASE contended /\ tries'[c] < CLAIM_ATTEMPTS
    BY <2>1 DEF Resting, Requests
  <2>2. CASE ~(contended /\ tries'[c] < CLAIM_ATTEMPTS)
    <3>1. next = Resting(ReturnTo(c))
      BY <2>2
    <3>2. ReturnTo(c) \in {"done", "idle"} /\ (Fresh(c) => ReturnTo(c) = "done")
      BY DEF ReturnTo
    <3>3. QED
      BY <3>1, <3>2 DEF Resting, Requests
  <2>3. QED
    BY <2>1, <2>2
<1>3. /\ Served(c, contended) \in Answers
      /\ Served(c, contended).status = "ok" /\ Served(c, contended).contended = contended
      /\ Fresh(c) => Served(c, contended).print = silvCache.print
  <2>1. silvCache.print \in 0..MaxPrint /\ 0 \in 0..MaxPrint
    BY DEF TypeOK
  <2>2. QED
    BY <2>1 DEF Served, Answers
<1>4. req' = [req EXCEPT ![c] = next] /\ answer' = [answer EXCEPT ![c] = Served(c, contended)]
  BY DEF Serve
<1> HIDE DEF next
<1>5. req'[c] = next /\ answer'[c] = Served(c, contended)
  BY <1>1, <1>4
<1>6. /\ req' \in [Clients -> Requests] /\ answer' \in [Clients -> Answers]
      /\ \A d \in Clients \ {c} : req'[d] = req[d] /\ answer'[d] = answer[d]
  BY <1>1, <1>2, <1>3, <1>4
<1>7. QED
  BY <1>2, <1>3, <1>5, <1>6 DEF Asking

LEMMA RefusalSets ==
  ASSUME TypeOK, NEW c \in Clients, NEW status \in {"limited", "down"}, Refuse(c, status)
  PROVE  /\ req' \in [Clients -> Requests] /\ answer' \in [Clients -> Answers]
         /\ \A d \in Clients \ {c} : req'[d] = req[d] /\ answer'[d] = answer[d]
         /\ answer'[c] = answer[c] \/ answer'[c].status # "ok"
         /\ tries'[c] > 1 => answer'[c] = answer[c]
         /\ ~Asking(c)' /\ req'[c].wake = "no"
         /\ Fresh(c) => req'[c].at = "done"
         /\ req'[c].at # "asleep"
<1> USE ProxyAssumption
<1>1. req \in [Clients -> Requests] /\ answer \in [Clients -> Answers]
  BY DEF TypeOK, Requests, Answers
<1>2. /\ Resting(ReturnTo(c)) \in Requests
      /\ Resting(ReturnTo(c)).at \in {"done", "idle"} /\ Resting(ReturnTo(c)).wake = "no"
      /\ Fresh(c) => Resting(ReturnTo(c)).at = "done"
  <2>1. ReturnTo(c) \in {"done", "idle"} /\ (Fresh(c) => ReturnTo(c) = "done")
    BY DEF ReturnTo
  <2>2. QED
    BY <2>1 DEF Resting, Requests
<1> DEFINE refusal == [NoAnswer EXCEPT !.status = status]
<1>3. refusal \in Answers /\ refusal.status # "ok"
  <2>1. NoAnswer \in Answers
    BY DEF NoAnswer, Answers
  <2>2. refusal.status = status
    BY DEF NoAnswer
  <2>3. QED
    BY <2>1, <2>2 DEF Answers
<1>4. req' = [req EXCEPT ![c] = Resting(ReturnTo(c))]
  BY DEF Refuse
<1>5. answer' = [answer EXCEPT ![c] = IF tries'[c] > 1 THEN answer[c] ELSE refusal]
  BY DEF Refuse
<1> HIDE DEF refusal
<1>6. req'[c] = Resting(ReturnTo(c)) /\ req' \in [Clients -> Requests]
  BY <1>1, <1>2, <1>4
<1>7. /\ answer' \in [Clients -> Answers]
      /\ answer'[c] = IF tries'[c] > 1 THEN answer[c] ELSE refusal
  BY <1>1, <1>3, <1>5
<1>8. \A d \in Clients \ {c} : req'[d] = req[d] /\ answer'[d] = answer[d]
  BY <1>1, <1>4, <1>5
<1>9. QED
  BY <1>2, <1>3, <1>6, <1>7, <1>8 DEF Asking

LEMMA WaitingSets ==
  ASSUME TypeOK, NEW c \in Clients, Waits(c)
  PROVE  /\ req' \in [Clients -> Requests]
         /\ \A d \in Clients \ {c} : req'[d] = req[d]
         /\ req'[c].at \in {"shared", "created"}
         /\ tokens' \in 0..BUCKET_BURST /\ inflight' \in {"none", "out", "ok", "failed"}
         /\ UNCHANGED << silvCache, lastClaimed, answer >>
<1> USE ProxyAssumption
<1>1. req \in [Clients -> Requests]
  BY DEF TypeOK, Requests
<1>2. PICK at \in {"shared", "created"}, attempt \in 0..2,
           failures \in 0..MAX_UPSTREAM_FAILURES - 1 :
             req' = [req EXCEPT ![c] = Awaiting(at, attempt, failures)]
  BY DEF Waits
<1>3. /\ Awaiting(at, attempt, failures) \in Requests
      /\ Awaiting(at, attempt, failures).at = at
  <2>1. Resting(at) \in Requests /\ Resting(at).at = at
    BY DEF Resting, Requests
  <2>2. QED
    BY <2>1 DEF Awaiting, Requests
<1>4. /\ req' \in [Clients -> Requests]
      /\ \A d \in Clients \ {c} : req'[d] = req[d]
      /\ req'[c] = Awaiting(at, attempt, failures)
  BY <1>1, <1>2, <1>3
<1>5. tokens' \in 0..BUCKET_BURST /\ inflight' \in {"none", "out", "ok", "failed"}
  BY DEF Waits, AllowRequest, TypeOK
<1>6. QED
  BY <1>3, <1>4, <1>5 DEF Waits
\* What a segment of `c` leaves behind, whichever its outcome.
LEMMA SegmentIsTyped ==
  ASSUME ProxyInvariant, NEW c \in Clients, Begins(c), Outcome(c), UNCHANGED feed
  PROVE  TypeOK' /\ CacheIsStamped'
<1> USE ProxyAssumption
<1>0. TypeOK
  BY DEF ProxyInvariant
<1>1. tries' \in [Clients -> 0..CLAIM_ATTEMPTS]
  BY BeginningIsCounted DEF ProxyInvariant
<1>2. answer \in [Clients -> Answers]
  BY <1>0 DEF TypeOK, Answers
<1>3. CASE Waits(c)
  <2>1. /\ req' \in [Clients -> Requests]
        /\ tokens' \in 0..BUCKET_BURST /\ inflight' \in {"none", "out", "ok", "failed"}
        /\ UNCHANGED << silvCache, lastClaimed, answer >>
    BY <1>0, <1>3, WaitingSets
  <2>2. QED
    BY <1>0, <1>1, <2>1 DEF ProxyInvariant, TypeOK, CacheIsStamped, Requests
<1>4. CASE IsServed(c)
  <2>1. PICK contended \in BOOLEAN :
          /\ Serve(c, contended) /\ (contended => Fresh(c))
          /\ UNCHANGED lastClaimed \/ lastClaimed' = silvCache.ts
          /\ UNCHANGED << silvCache, tokens, inflight >>
    BY <1>4 DEF IsServed
  <2>2. req' \in [Clients -> Requests] /\ answer' \in [Clients -> Answers]
    BY <1>0, <1>1, <2>1, ServingSets
  <2>3. QED
    BY <1>0, <1>1, <2>1, <2>2 DEF ProxyInvariant, TypeOK, CacheIsStamped, Requests, Answers
<1>5. CASE IsRefused(c)
  <2>1. PICK status \in {"limited", "down"} : Refuse(c, status)
    BY <1>5 DEF IsRefused
  <2>2. req' \in [Clients -> Requests] /\ answer' \in [Clients -> Answers]
    BY <1>0, <2>1, RefusalSets
  <2>3. QED
    BY <1>0, <1>1, <1>5, <2>2
    DEF IsRefused, service, ProxyInvariant, TypeOK, CacheIsStamped, Requests, Answers
<1>6. QED
  BY <1>3, <1>4, <1>5 DEF Outcome

LEMMA SegmentKeepsFlows ==
  ASSUME ProxyInvariant, NEW c \in Clients, Begins(c), Outcome(c)
  PROVE  FlowsAreCounted' /\ HoldersOnlyRetry'
<1>0. TypeOK
  BY DEF ProxyInvariant
<1>1. /\ tries' \in [Clients -> 0..CLAIM_ATTEMPTS]
      /\ \A d \in Clients \ {c} : tries'[d] = tries[d]
      /\ Fresh(c) => tries'[c] >= 1 /\ (answer[c].status = "ok" => tries'[c] > 1)
  BY BeginningIsCounted DEF ProxyInvariant
<1>2. ASSUME \A d \in Clients \ {c} : req'[d] = req[d] /\ answer'[d] = answer[d],
             Fresh(c) => req'[c].at # "idle",
             req'[c].at = "asleep" => tries'[c] < CLAIM_ATTEMPTS,
             answer'[c].status = "ok" => answer[c].status = "ok" \/ ~Asking(c)'
      PROVE  FlowsAreCounted' /\ HoldersOnlyRetry'
  <2> SUFFICES ASSUME NEW d \in Submitters
               PROVE  /\ req'[d].at = "idle" => tries'[d] = 0
                      /\ req'[d].at # "idle" => tries'[d] >= 1
                      /\ req'[d].at = "asleep" => tries'[d] < CLAIM_ATTEMPTS
                      /\ answer'[d].status = "ok" =>
                           req'[d].at # "idle" /\ (Asking(d)' => tries'[d] > 1)
    BY DEF FlowsAreCounted, HoldersOnlyRetry
  <2>1. CASE d = c
    <3>1. Fresh(c)
      BY <2>1 DEF Fresh
    <3>2. QED
      BY <1>1, <1>2, <2>1, <3>1
  <2>2. CASE d # c
    <3>1. req'[d] = req[d] /\ answer'[d] = answer[d] /\ tries'[d] = tries[d]
      BY <1>1, <1>2, <2>2 DEF Clients
    <3>2. QED
      BY <3>1 DEF ProxyInvariant, FlowsAreCounted, HoldersOnlyRetry, Asking
  <2>3. QED
    BY <2>1, <2>2
<1>3. CASE Waits(c)
  <2>1. /\ \A d \in Clients \ {c} : req'[d] = req[d]
        /\ req'[c].at \in {"shared", "created"} /\ UNCHANGED answer
    BY <1>0, <1>3, WaitingSets
  <2>2. QED
    BY <1>2, <2>1
<1>4. CASE IsServed(c)
  <2>1. PICK contended \in BOOLEAN : Serve(c, contended) /\ (contended => Fresh(c))
    BY <1>4 DEF IsServed
  <2>2. QED
    BY <1>0, <1>1, <1>2, <2>1, ServingSets
<1>5. CASE IsRefused(c)
  <2>1. PICK status \in {"limited", "down"} : Refuse(c, status)
    BY <1>5 DEF IsRefused
  <2>2. QED
    BY <1>0, <1>2, <2>1, RefusalSets
<1>6. QED
  BY <1>3, <1>4, <1>5 DEF Outcome

LEMMA SegmentKeepsClaims ==
  ASSUME ProxyInvariant, NEW c \in Clients, Begins(c), Outcome(c)
  PROVE  ClaimsAreMarked' /\ ClaimIsExclusive'
<1> USE ProxyAssumption
<1>0. TypeOK
  BY DEF ProxyInvariant
<1>1. tries' \in [Clients -> 0..CLAIM_ATTEMPTS]
  BY BeginningIsCounted DEF ProxyInvariant
<1>2. /\ lastClaimed \in Int /\ silvCache.ts \in Int /\ silvCache.print \in Int
      /\ \A d \in Clients : answer[d].print \in Int
  BY <1>0 DEF TypeOK
<1>3. ASSUME UNCHANGED lastClaimed,
             \A d \in Clients \ {c} : answer'[d] = answer[d],
             Fresh(c) => \/ answer'[c] = answer[c]
                         \/ answer'[c].status # "ok"
                         \/ answer'[c].contended
      PROVE  ClaimsAreMarked' /\ ClaimIsExclusive'
  <2>1. ASSUME NEW d \in Submitters, answer'[d].status = "ok", ~answer'[d].contended
        PROVE  answer'[d] = answer[d]
    BY <1>3, <2>1 DEF Clients, Fresh
  <2>2. QED
    BY <1>3, <2>1 DEF ProxyInvariant, ClaimsAreMarked, ClaimIsExclusive
<1>4. CASE Waits(c)
  <2>1. UNCHANGED << lastClaimed, answer >>
    BY <1>4 DEF Waits
  <2>2. QED
    BY <1>3, <2>1
<1>5. CASE IsRefused(c)
  <2>1. PICK status \in {"limited", "down"} : Refuse(c, status)
    BY <1>5 DEF IsRefused
  <2>2. UNCHANGED lastClaimed
    BY <1>5 DEF IsRefused, service
  <2>3. QED
    BY <1>0, <1>3, <2>1, <2>2, RefusalSets
<1>6. CASE IsServed(c)
  <2>1. PICK contended \in BOOLEAN :
          /\ Serve(c, contended) /\ (contended => Fresh(c))
          /\ \/ UNCHANGED lastClaimed /\ (Fresh(c) => contended)
             \/ silvCache.ts > lastClaimed /\ lastClaimed' = silvCache.ts
    BY <1>6 DEF IsServed
  <2>2. /\ \A d \in Clients \ {c} : answer'[d] = answer[d]
        /\ answer'[c].contended = contended
        /\ Fresh(c) => answer'[c].print = silvCache.print
    BY <1>0, <1>1, <2>1, ServingSets
  <2>3. CASE UNCHANGED lastClaimed /\ (Fresh(c) => contended)
    BY <1>3, <2>2, <2>3
  <2>4. CASE silvCache.ts > lastClaimed /\ lastClaimed' = silvCache.ts
    <3>1. silvCache.ts = silvCache.print
      BY <1>0, <2>4 DEF ProxyInvariant, CacheIsStamped, TypeOK
    <3>2. ASSUME NEW d \in Submitters, d # c, answer'[d].status = "ok", ~answer'[d].contended
          PROVE  answer'[d] = answer[d] /\ answer'[d].print <= lastClaimed
      BY <2>2, <3>2 DEF Clients, ProxyInvariant, ClaimsAreMarked
    <3>3. c \in Submitters => answer'[c].print = lastClaimed'
      BY <2>2, <2>4, <3>1 DEF Fresh
    <3>4. ClaimsAreMarked'
      <4> SUFFICES ASSUME NEW d \in Submitters, answer'[d].status = "ok", ~answer'[d].contended
                   PROVE  answer'[d].print <= lastClaimed'
        BY DEF ClaimsAreMarked
      <4>1. CASE d = c
        BY <1>2, <2>4, <3>3, <4>1
      <4>2. CASE d # c
        <5>1. answer'[d].print <= lastClaimed /\ answer'[d].print \in Int
          BY <1>2, <3>2, <4>2 DEF Clients
        <5>2. QED
          BY <1>2, <2>4, <5>1
      <4>3. QED
        BY <4>1, <4>2
    <3>5. ASSUME NEW d \in Submitters, NEW e \in Submitters,
                 answer'[d].status = "ok", ~answer'[d].contended,
                 answer'[e].status = "ok", ~answer'[e].contended,
                 answer'[d].print = answer'[e].print
          PROVE  d = e
      <4>1. CASE d # c /\ e # c
        <5>1. answer'[d] = answer[d] /\ answer'[e] = answer[e]
          BY <3>2, <3>5, <4>1
        <5>2. QED
          BY <3>5, <5>1 DEF ProxyInvariant, ClaimIsExclusive
      <4>2. ASSUME NEW x \in Submitters, x # c, c \in Submitters,
                   answer'[x].status = "ok", ~answer'[x].contended
            PROVE  answer'[x].print # answer'[c].print
        <5>1. answer'[x].print <= lastClaimed /\ answer'[x].print \in Int
          BY <1>2, <3>2, <4>2 DEF Clients
        <5>2. answer'[c].print = silvCache.ts
          BY <2>4, <3>3, <4>2
        <5>3. QED
          BY <1>2, <2>4, <5>1, <5>2
      <4>3. QED
        BY <3>5, <4>1, <4>2
    <3>6. QED
      BY <3>4, <3>5 DEF ClaimIsExclusive
  <2>5. QED
    BY <2>1, <2>3, <2>4
<1>7. QED
  BY <1>4, <1>5, <1>6 DEF Outcome

\* The upstream, the `.finally` of a call and the clock.
LEMMA SurroundingsKeepInvariant ==
  ASSUME ProxyInvariant, Upstream \/ ClearInflight \/ Tick
  PROVE  ProxyInvariant'
<1> USE ProxyAssumption
<1>0. TypeOK
  BY DEF ProxyInvariant
<1>1. req \in [Clients -> Requests]
  BY <1>0 DEF TypeOK, Requests
<1>2. ASSUME UNCHANGED << lastClaimed, tries, answer >>,
             \A c \in Clients : req'[c].at = req[c].at
      PROVE  FlowsAreCounted' /\ ClaimsAreMarked' /\ ClaimIsExclusive' /\ HoldersOnlyRetry'
  BY <1>2
  DEF ProxyInvariant, FlowsAreCounted, ClaimsAreMarked, ClaimIsExclusive, HoldersOnlyRetry,
      Asking, Clients
<1>3. CASE UpstreamSucceeds
  <2>1. PICK ts \in {0, feed} : silvCache' = [print |-> feed, ts |-> ts, age |-> 0]
    BY <1>3 DEF UpstreamSucceeds
  <2>2. silvCache' \in [print : 0..MaxPrint, ts : 0..MaxPrint, age : 0..CACHE_TTL]
    BY <1>0, <2>1 DEF TypeOK
  <2>3. CacheIsStamped'
    BY <2>1 DEF CacheIsStamped
  <2>4. TypeOK'
    BY <1>0, <1>3, <2>2 DEF UpstreamSucceeds, TypeOK
  <2>5. QED
    BY <1>2, <1>3, <2>3, <2>4 DEF UpstreamSucceeds, ProxyInvariant
<1>4. CASE UpstreamFails
  BY <1>0, <1>2, <1>4 DEF UpstreamFails, ProxyInvariant, TypeOK, CacheIsStamped
<1>5. CASE ClearInflight
  <2>1. \A c \in Clients : req'[c] = IF Asking(c) THEN [req[c] EXCEPT !.wake = inflight] ELSE req[c]
    BY <1>5 DEF ClearInflight, Woken
  <2>2. /\ inflight \in {"ok", "failed"} /\ inflight' = "none"
        /\ UNCHANGED << silvCache, lastClaimed, tokens, feed, tries, answer >>
    BY <1>5 DEF ClearInflight, Settled
  <2>3. \A c \in Clients : req'[c] \in Requests /\ req'[c].at = req[c].at
    BY <1>1, <2>1, <2>2 DEF Requests
  <2>4. req' \in [Clients -> Requests]
    BY <1>5, <2>3 DEF ClearInflight, Woken
  <2>5. TypeOK' /\ CacheIsStamped'
    BY <1>0, <2>2, <2>4 DEF ProxyInvariant, TypeOK, Requests, CacheIsStamped
  <2>6. QED
    BY <1>2, <2>2, <2>3, <2>5 DEF ProxyInvariant
<1>6. CASE Tick
  <2>1. \A c \in Clients :
          req'[c] = [req[c] EXCEPT !.timer = IF req[c].timer > 0 THEN req[c].timer - 1
                                             ELSE req[c].timer]
    BY <1>6 DEF Tick
  <2>2. /\ silvCache' = [silvCache EXCEPT !.age =
                           IF silvCache.age < CACHE_TTL THEN silvCache.age + 1 ELSE silvCache.age]
        /\ tokens' = IF tokens + BUCKET_RATE < BUCKET_BURST
                     THEN tokens + BUCKET_RATE ELSE BUCKET_BURST
        /\ feed' \in {feed, feed + 1} \cap 1..MaxPrint
        /\ UNCHANGED << lastClaimed, inflight, tries, answer >>
    BY <1>6 DEF Tick
  <2>3. \A c \in Clients : req'[c] \in Requests /\ req'[c].at = req[c].at
    <3> SUFFICES ASSUME NEW c \in Clients
                 PROVE  req'[c] \in Requests /\ req'[c].at = req[c].at
      OBVIOUS
    <3>1. req[c] \in Requests /\ req[c].timer \in 0..CLAIM_RETRY /\ CLAIM_RETRY \in Nat
      BY <1>1 DEF Requests
    <3>2. (IF req[c].timer > 0 THEN req[c].timer - 1 ELSE req[c].timer) \in 0..CLAIM_RETRY
      BY <3>1
    <3>3. QED
      BY <2>1, <3>1, <3>2 DEF Requests
  <2>4. req' \in [Clients -> Requests]
    BY <1>6, <2>3 DEF Tick
  <2>5. /\ silvCache' \in [print : 0..MaxPrint, ts : 0..MaxPrint, age : 0..CACHE_TTL]
        /\ silvCache'.ts = silvCache.ts /\ silvCache'.print = silvCache.print
    <3>1. /\ silvCache \in [print : 0..MaxPrint, ts : 0..MaxPrint, age : 0..CACHE_TTL]
          /\ silvCache.age \in 0..CACHE_TTL /\ CACHE_TTL \in Nat
      BY <1>0 DEF TypeOK
    <3>2. (IF silvCache.age < CACHE_TTL THEN silvCache.age + 1 ELSE silvCache.age) \in 0..CACHE_TTL
      BY <3>1
    <3>3. QED
      BY <2>2, <3>1, <3>2
  <2>6. tokens' \in 0..BUCKET_BURST
    BY <1>0, <2>2 DEF TypeOK
  <2>7. TypeOK' /\ CacheIsStamped'
    BY <1>0, <2>2, <2>4, <2>5, <2>6 DEF ProxyInvariant, TypeOK, Requests, CacheIsStamped
  <2>8. QED
    BY <1>2, <2>2, <2>3, <2>7 DEF ProxyInvariant
<1>7. QED
  BY <1>3, <1>4, <1>5, <1>6 DEF Upstream

LEMMA ProxyInvariantInit == Init => ProxyInvariant
<1> SUFFICES ASSUME Init PROVE ProxyInvariant
  OBVIOUS
<1> USE ProxyAssumption
<1>1. Resting("idle") \in Requests /\ Resting("idle").at = "idle"
  BY DEF Resting, Requests
<1>2. NoAnswer \in Answers /\ NoAnswer.status # "ok"
  BY DEF NoAnswer, Answers
<1>3. req \in [Clients -> Requests] /\ answer \in [Clients -> Answers]
  BY <1>1, <1>2 DEF Init
<1>4. TypeOK
  BY <1>3 DEF Init, TypeOK, NoCache, Requests, Answers
<1>5. CacheIsStamped
  BY DEF Init, CacheIsStamped, NoCache
<1>6. FlowsAreCounted
  BY <1>1 DEF Init, FlowsAreCounted, Clients
<1>7. ClaimsAreMarked /\ ClaimIsExclusive /\ HoldersOnlyRetry
  BY <1>2 DEF Init, ClaimsAreMarked, ClaimIsExclusive, HoldersOnlyRetry, Clients
<1>8. QED
  BY <1>4, <1>5, <1>6, <1>7 DEF ProxyInvariant

LEMMA ProxyInvariantStep == ProxyInvariant /\ [Next]_vars => ProxyInvariant'
<1> SUFFICES ASSUME ProxyInvariant, [Next]_vars PROVE ProxyInvariant'
  OBVIOUS
<1>1. ASSUME NEW c \in Clients, Ask(c) \/ Resume(c) PROVE ProxyInvariant'
  <2>1. Begins(c) /\ Outcome(c) /\ UNCHANGED feed
    BY <1>1, SegmentHasOutcome DEF ProxyInvariant
  <2>2. QED
    BY <2>1, SegmentIsTyped, SegmentKeepsFlows, SegmentKeepsClaims DEF ProxyInvariant
<1>2. CASE UNCHANGED vars
  BY <1>2
  DEF vars, service, ProxyInvariant, TypeOK, CacheIsStamped, FlowsAreCounted, ClaimsAreMarked,
      ClaimIsExclusive, HoldersOnlyRetry, Asking
<1>3. QED
  BY <1>1, <1>2, SurroundingsKeepInvariant DEF Next

LEMMA ProxyInvariantHolds == Spec => []ProxyInvariant
BY ProxyInvariantInit, ProxyInvariantStep, PTL DEF Spec

-----------------------------------------------------------------------------
(* What follows.                                                            *)

\* Every variable has its type: the bucket never goes below zero and no loop
\* passes its bounds (route.ts 53-63, 154-157).
THEOREM ProxyTypes == Spec => []TypeOK
<1>1. ProxyInvariant => TypeOK
  BY DEF ProxyInvariant
<1>2. QED
  BY <1>1, ProxyInvariantHolds, PTL

\* No two of any number of pages believe they are alone with the same print,
\* whatever awaits between claim and answer (route.ts 15-33, 262-273).
THEOREM ClaimsAreExclusive == Spec => []ClaimIsExclusive
<1>1. ProxyInvariant => ClaimIsExclusive
  BY DEF ProxyInvariant
<1>2. QED
  BY <1>1, ProxyInvariantHolds, PTL

\* A page that was handed an envelope keeps one, whatever its optional retries
\* meet (lazer-execute.ts 36-61).
THEOREM EnvelopesAreKept == Spec => EnvelopeIsKept
<1> DEFINE Kept == \A c \in Submitters : answer[c].status = "ok" => answer'[c].status = "ok"
<1>1. ProxyInvariant /\ [Next]_vars => [Kept]_vars
  <2> SUFFICES ASSUME ProxyInvariant, Next PROVE Kept
    OBVIOUS
  <2>1. CASE Upstream \/ ClearInflight \/ Tick
    BY <2>1 DEF Upstream, UpstreamSucceeds, UpstreamFails, ClearInflight, Tick
  <2>2. ASSUME NEW c \in Clients, Ask(c) \/ Resume(c) PROVE Kept
    <3>1. TypeOK /\ Begins(c) /\ Outcome(c)
      BY <2>2, SegmentHasOutcome DEF ProxyInvariant
    <3>2. /\ tries' \in [Clients -> 0..CLAIM_ATTEMPTS]
          /\ Fresh(c) => (answer[c].status = "ok" => tries'[c] > 1)
      BY <3>1, BeginningIsCounted DEF ProxyInvariant
    <3>3. CASE Waits(c)
      BY <3>3 DEF Waits
    <3>4. CASE IsServed(c)
      <4>1. PICK contended \in BOOLEAN : Serve(c, contended) /\ (contended => Fresh(c))
        BY <3>4 DEF IsServed
      <4>2. /\ \A d \in Clients \ {c} : answer'[d] = answer[d]
            /\ answer'[c].status = "ok"
        BY <3>1, <3>2, <4>1, ServingSets
      <4>3. QED
        BY <4>2 DEF Clients
    <3>5. CASE IsRefused(c)
      <4>1. PICK status \in {"limited", "down"} : Refuse(c, status)
        BY <3>5 DEF IsRefused
      <4>2. /\ \A d \in Clients \ {c} : answer'[d] = answer[d]
            /\ tries'[c] > 1 => answer'[c] = answer[c]
        BY <3>1, <4>1, RefusalSets
      <4>3. QED
        BY <3>2, <4>2 DEF Clients, Fresh
    <3>6. QED
      BY <3>1, <3>3, <3>4, <3>5 DEF Outcome
  <2>3. QED
    BY <2>1, <2>2 DEF Next
<1>2. QED
  BY <1>1, ProxyInvariantHolds, PTL DEF Spec, EnvelopeIsKept

\* A token is spent exactly when a call starts, and none starts before the next
\* print is due (route.ts 95-113, 128-140, 191-212).
THEOREM CallsArePaid == Spec => CallsArePaidAndDue
<1> DEFINE Starts == inflight = "none" /\ inflight' = "out"
           Paid == /\ Starts <=> tokens' < tokens
                   /\ Starts => ~Cached \/ silvCache.age >= MIN_UPSTREAM_INTERVAL
<1>1. ProxyInvariant /\ [Next]_vars => [Paid]_vars
  <2> SUFFICES ASSUME ProxyInvariant, Next PROVE Paid
    OBVIOUS
  <2>0. tokens \in Int /\ TypeOK
    BY DEF ProxyInvariant, TypeOK
  <2>1. CASE UNCHANGED << tokens, inflight >>
    BY <2>0, <2>1
  <2>2. CASE Upstream \/ ClearInflight
    BY <2>0, <2>2 DEF Upstream, UpstreamSucceeds, UpstreamFails, ClearInflight, Settled
  <2>3. CASE Tick
    <3>1. ~Starts
      BY <2>3 DEF Tick
    <3>2. tokens' >= tokens /\ tokens' \in Int
      BY <2>0, <2>3, ProxyAssumption DEF Tick, TypeOK
    <3>3. QED
      BY <2>0, <3>1, <3>2
  <2>4. ASSUME NEW c \in Clients, Ask(c) \/ Resume(c) PROVE Paid
    <3>1. Outcome(c)
      BY <2>0, <2>4, SegmentHasOutcome
    <3>2. CASE UNCHANGED << tokens, inflight >>
      BY <2>1, <3>2
    <3>3. CASE /\ inflight = "none" /\ inflight' = "out" /\ AllowRequest
               /\ ~Cached \/ silvCache.age >= MIN_UPSTREAM_INTERVAL
      BY <2>0, <3>3 DEF AllowRequest
    <3>4. QED
      BY <3>1, <3>2, <3>3 DEF Outcome, Waits, IsServed, IsRefused, service
  <2>5. QED
    BY <2>2, <2>3, <2>4 DEF Next
<1>2. QED
  BY <1>1, ProxyInvariantHolds, PTL DEF Spec, CallsArePaidAndDue
=============================================================================
