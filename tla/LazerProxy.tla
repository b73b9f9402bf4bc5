------------------------------ MODULE LazerProxy ------------------------------
(***************************************************************************)
(* The price envelope service of the public application: one warm instance *)
(* of the proxy (api/lazer/route.ts) with its cache, claim mark, token     *)
(* bucket and single flight, the submit flow that asks it for an envelope  *)
(* (lib/lazer-execute.ts) and the price banner that polls it.              *)
(*                                                                         *)
(* JavaScript runs from one await to the next without interruption: an     *)
(* action is such a segment.  A caller awaits at three places: "shared",   *)
(* for a call somebody else made; "created", for the call it made or       *)
(* joined last; "asleep", between two tries of the submit flow.  Callbacks *)
(* that are ready run before the clock moves.                              *)
(*                                                                         *)
(* An envelope is known by the print it carries.  Ages stop at CACHE_TTL,  *)
(* from where nothing distinguishes them.                                  *)
(***************************************************************************)
EXTENDS Integers

CONSTANTS
  Submitters,             \* pages about to submit: `fresh: true`
  Pollers,                \* price banners
  CACHE_TTL,              \* CACHE_TTL_MS
  MIN_UPSTREAM_INTERVAL,  \* MIN_UPSTREAM_INTERVAL_MS, the feed's publish period
  CLAIM_RETRY,            \* CLAIM_RETRY_MS
  CLAIM_ATTEMPTS,
  MAX_UPSTREAM_FAILURES,
  BUCKET_BURST,
  BUCKET_RATE,            \* tokens refilled per tick
  MaxPrint                \* bound: the newest print the feed publishes

ASSUME ProxyAssumption ==
  /\ MIN_UPSTREAM_INTERVAL \in 1..CACHE_TTL
  /\ CLAIM_RETRY > MIN_UPSTREAM_INTERVAL
  /\ Submitters \cap Pollers = {}
  /\ {CACHE_TTL, CLAIM_RETRY, CLAIM_ATTEMPTS, MAX_UPSTREAM_FAILURES,
      BUCKET_BURST, BUCKET_RATE, MaxPrint} \subseteq Nat \ {0}

Clients == Submitters \cup Pollers

VARIABLES
  silvCache,   \* the last payload: its print, the timestamp claimed on, its age
  lastClaimed, \* lastClaimedFeedTsUs
  tokens,
  inflight,    \* "none", "out", or settled and not yet cleared
  feed,        \* the newest print published upstream
  req,         \* per caller: where its request is suspended
  tries,       \* per caller: fetches of the submit flow started so far
  answer       \* per caller: what the last answer left it with

service == << silvCache, lastClaimed, tokens, inflight >>
vars == << service, feed, req, tries, answer >>

NoCache == [print |-> 0, ts |-> 0, age |-> CACHE_TTL]
NoAnswer == [status |-> "none", print |-> 0, contended |-> FALSE, aged |-> FALSE]
Resting(at) == [at |-> at, wake |-> "no", attempt |-> 0, failures |-> 0, timer |-> 0]
Awaiting(at, attempt, failures) ==
  [Resting(at) EXCEPT !.attempt = attempt, !.failures = failures]

Fresh(c) == c \in Submitters
Attempts(c) == IF Fresh(c) THEN 1 ELSE 3
Cached == silvCache.print > 0
CacheHit(c) == ~Fresh(c) /\ Cached /\ silvCache.age < CACHE_TTL
Asking(c) == req[c].at \in {"shared", "created"}

Init ==
  /\ silvCache = NoCache /\ lastClaimed = 0
  /\ tokens = BUCKET_BURST /\ inflight = "none"
  /\ feed = 1
  /\ req = [c \in Clients |-> Resting("idle")]
  /\ tries = [c \in Clients |-> 0]
  /\ answer = [c \in Clients |-> NoAnswer]

-----------------------------------------------------------------------------
\* The answers and what the caller does with them.  A submitter that is told
\* its print is contended sleeps and asks again, up to CLAIM_ATTEMPTS times.
\* A banner shows the price: it has no use for the envelope.
Served(c, contended) ==
  [status |-> "ok", print |-> IF Fresh(c) THEN silvCache.print ELSE 0,
   contended |-> contended, aged |-> silvCache.age > MIN_UPSTREAM_INTERVAL]

ReturnTo(c) == IF Fresh(c) THEN "done" ELSE "idle"

Serve(c, contended) ==
  /\ answer' = [answer EXCEPT ![c] = Served(c, contended)]
  /\ req' = [req EXCEPT ![c] =
               IF contended /\ tries'[c] < CLAIM_ATTEMPTS
               THEN [Resting("asleep") EXCEPT !.timer = CLAIM_RETRY]
               ELSE Resting(ReturnTo(c))]

\* Bug: a failed retry throws away the envelope the caller already has.
RefuseDroppingEnvelope(c, status) ==
  /\ answer' = [answer EXCEPT ![c] = [NoAnswer EXCEPT !.status = status]]
  /\ req' = [req EXCEPT ![c] = Resting(ReturnTo(c))]

\* A non-2xx: the first fetch of a flow fails it, a retry keeps what it had.
Refuse(c, status) ==
  /\ answer' = [answer EXCEPT ![c] =
                  IF tries'[c] > 1 THEN @ ELSE [NoAnswer EXCEPT !.status = status]]
  /\ req' = [req EXCEPT ![c] = Resting(ReturnTo(c))]

\* Bug: the caller that is handed the claimed print again is told it is alone.
ClaimOrContendLoosely(c) ==
  LET claimed == silvCache.ts >= lastClaimed /\ silvCache.ts > 0
  IN /\ Serve(c, ~claimed)
     /\ lastClaimed' = IF claimed THEN silvCache.ts ELSE lastClaimed

\* claimFresh, and the contended answer where it returns null.
ClaimOrContend(c) ==
  LET claimed == silvCache.ts > lastClaimed
  IN /\ Serve(c, ~claimed)
     /\ lastClaimed' = IF claimed THEN silvCache.ts ELSE lastClaimed

\* The end of the loop: contended and served anyway, however old it is.
Exit(c) ==
  /\ IF Fresh(c) /\ Cached THEN Serve(c, TRUE) ELSE Refuse(c, "down")
  /\ UNCHANGED service

\* Bug: the bucket is charged and never consulted.
AllowRequestAlways == tokens' = tokens - 1
AllowRequest == tokens >= 1 /\ tokens' = tokens - 1

\* Whoever finds no call out pays for one; the others join it unpaid.
CreateOrJoin(c, attempt, failures) ==
  \/ /\ inflight # "none"
     /\ req' = [req EXCEPT ![c] = Awaiting("created", attempt, failures)]
     /\ UNCHANGED << service, answer >>
  \/ /\ inflight = "none" /\ AllowRequest
     /\ inflight' = "out"
     /\ req' = [req EXCEPT ![c] = Awaiting("created", attempt, failures)]
     /\ UNCHANGED << silvCache, lastClaimed, answer >>
  \/ /\ inflight = "none" /\ tokens < 1
     /\ Refuse(c, "limited")
     /\ UNCHANGED service

\* One pass of the loop, from its head to the next await or answer.
Pass(c, attempt, failures) ==
  \/ /\ attempt >= Attempts(c)
     /\ Exit(c)
  \/ /\ attempt < Attempts(c) /\ CacheHit(c)
     /\ Serve(c, FALSE) /\ UNCHANGED service
  \/ /\ attempt < Attempts(c) /\ ~CacheHit(c) /\ inflight # "none"
     /\ req' = [req EXCEPT ![c] = Awaiting("shared", attempt, failures)]
     /\ UNCHANGED << service, answer >>
  \/ /\ attempt < Attempts(c) /\ ~CacheHit(c) /\ inflight = "none"
     /\ CreateOrJoin(c, attempt, failures)

\* Bug: `fresh` goes upstream whatever the age of the cache.
HandleWithoutFloor(c) == Pass(c, 0, 0)

\* POST, up to its first await: a display hit, the cadence floor, or the loop.
Handle(c) ==
  IF Fresh(c) /\ Cached /\ silvCache.age < MIN_UPSTREAM_INTERVAL
  THEN ClaimOrContend(c) /\ UNCHANGED << silvCache, tokens, inflight >>
  ELSE Pass(c, 0, 0)

-----------------------------------------------------------------------------
\* A banner polls again and again; a page runs one submit flow.
Ask(c) ==
  /\ req[c].at = "idle" \/ (req[c].at = "asleep" /\ req[c].timer = 0)
  /\ tries' = IF Fresh(c) THEN [tries EXCEPT ![c] = @ + 1] ELSE tries
  /\ Handle(c)
  /\ UNCHANGED feed

\* Bug: a caller whose shared call failed starts over without counting it.
ResumeSharedUncounted(c) ==
  /\ req[c].at = "shared" /\ req[c].wake # "no"
  /\ UNCHANGED << feed, tries >>
  /\ IF req[c].wake = "ok" THEN Serve(c, Fresh(c)) /\ UNCHANGED service ELSE Pass(c, 0, 0)

\* The call a caller waited for was somebody else's.
ResumeShared(c) ==
  LET failures == req[c].failures + 1
  IN /\ req[c].at = "shared"
     /\ UNCHANGED << feed, tries >>
     /\ \/ /\ req[c].wake = "ok" /\ CacheHit(c)
           /\ Serve(c, FALSE) /\ UNCHANGED service
        \/ /\ req[c].wake = "ok" /\ Fresh(c)
           /\ ClaimOrContend(c) /\ UNCHANGED << silvCache, tokens, inflight >>
        \/ /\ req[c].wake = "failed" /\ failures < MAX_UPSTREAM_FAILURES
           /\ Pass(c, req[c].attempt + 1, failures)
        \/ /\ req[c].wake = "failed" /\ failures >= MAX_UPSTREAM_FAILURES
           /\ Refuse(c, "down") /\ UNCHANGED service

\* The call was its own, or the one it joined at the last moment.
ResumeCreated(c) ==
  LET failures == req[c].failures + 1
      retry == failures < MAX_UPSTREAM_FAILURES /\ req[c].attempt + 1 < Attempts(c)
  IN /\ req[c].at = "created"
     /\ UNCHANGED << feed, tries >>
     /\ \/ /\ req[c].wake = "ok" /\ ~Fresh(c)
           /\ Serve(c, FALSE) /\ UNCHANGED service
        \/ /\ req[c].wake = "ok" /\ Fresh(c)
           /\ ClaimOrContend(c) /\ UNCHANGED << silvCache, tokens, inflight >>
        \/ /\ req[c].wake = "failed" /\ retry
           /\ Pass(c, req[c].attempt + 1, failures)
        \/ /\ req[c].wake = "failed" /\ ~retry
           /\ Refuse(c, "down") /\ UNCHANGED service

-----------------------------------------------------------------------------
\* External: Pyth publishes; the response carries the newest print, or one whose
\* timestamp fetchAndCache cannot use and replaces by 0.
UpstreamSucceeds ==
  /\ inflight = "out" /\ inflight' = "ok"
  /\ \E ts \in {0, feed} : silvCache' = [print |-> feed, ts |-> ts, age |-> 0]
  /\ UNCHANGED << lastClaimed, tokens, feed, req, tries, answer >>

\* An error status, a body without an envelope, or the three seconds are over.
UpstreamFails ==
  /\ inflight = "out" /\ inflight' = "failed"
  /\ UNCHANGED << silvCache, lastClaimed, tokens, feed, req, tries, answer >>

Settled == inflight \in {"ok", "failed"}
Woken == [c \in Clients |-> IF Asking(c) THEN [req[c] EXCEPT !.wake = inflight] ELSE req[c]]

\* Bug: `.then` in the place of `.finally`: a rejected call is never replaced.
ClearInflightOnSuccess ==
  /\ Settled
  /\ inflight' = IF inflight = "ok" THEN "none" ELSE inflight
  /\ req' = Woken
  /\ UNCHANGED << silvCache, lastClaimed, tokens, feed, tries, answer >>

\* The creator's `.finally`, and with it everybody who awaits the call.
ClearInflight ==
  /\ Settled /\ inflight' = "none"
  /\ req' = Woken
  /\ UNCHANGED << silvCache, lastClaimed, tokens, feed, tries, answer >>

\* The clock: nothing that is ready to run waits for it.
Tick ==
  /\ ~Settled /\ \A c \in Clients : req[c].wake = "no"
  /\ silvCache' = [silvCache EXCEPT !.age = IF @ < CACHE_TTL THEN @ + 1 ELSE @]
  /\ tokens' = IF tokens + BUCKET_RATE < BUCKET_BURST THEN tokens + BUCKET_RATE ELSE BUCKET_BURST
  /\ req' = [c \in Clients |-> [req[c] EXCEPT !.timer = IF @ > 0 THEN @ - 1 ELSE @]]
  /\ feed' \in {feed, feed + 1} \cap 1..MaxPrint
  /\ UNCHANGED << lastClaimed, inflight, tries, answer >>

Upstream == UpstreamSucceeds \/ UpstreamFails
Resume(c) == ResumeShared(c) \/ ResumeCreated(c)

Next ==
  \/ Upstream \/ ClearInflight \/ Tick
  \/ \E c \in Clients : Ask(c) \/ Resume(c)

\* Ready callbacks run, the call ends within its three seconds, time passes, a
\* banner polls and a sleeping page wakes.  No page has to start a flow, and
\* nothing makes the upstream succeed.
Fairness ==
  /\ WF_vars(Upstream) /\ WF_vars(ClearInflight) /\ WF_vars(Tick)
  /\ \A c \in Clients : WF_vars(Resume(c)) /\ WF_vars(Ask(c) /\ tries[c] > 0)
  /\ \A c \in Pollers : WF_vars(Ask(c))

Spec == Init /\ [][Next]_vars /\ Fairness

-----------------------------------------------------------------------------
\* Every variable has its type: the bucket never goes below zero, a loop never
\* passes its bounds (route.ts 53-63, 154-157).
TypeOK ==
  /\ silvCache \in [print : 0..MaxPrint, ts : 0..MaxPrint, age : 0..CACHE_TTL]
  /\ lastClaimed \in 0..MaxPrint /\ feed \in 1..MaxPrint
  /\ tokens \in 0..BUCKET_BURST /\ inflight \in {"none", "out", "ok", "failed"}
  /\ req \in [Clients -> [at : {"idle", "shared", "created", "asleep", "done"},
                          wake : {"no", "ok", "failed"}, attempt : 0..2,
                          failures : 0..MAX_UPSTREAM_FAILURES - 1, timer : 0..CLAIM_RETRY]]
  /\ tries \in [Clients -> 0..CLAIM_ATTEMPTS]
  /\ answer \in [Clients -> [status : {"none", "ok", "limited", "down"}, print : 0..MaxPrint,
                             contended : BOOLEAN, aged : BOOLEAN]]

\* No two pages believe they are alone with the same print: the loser's
\* transaction would be refused after the verify fee (route.ts 15-33, 262-273).
ClaimIsExclusive ==
  \A c, d \in Submitters :
    (/\ answer[c].status = "ok" /\ answer[d].status = "ok"
     /\ ~answer[c].contended /\ ~answer[d].contended
     /\ answer[c].print = answer[d].print) => c = d

\* A token is spent exactly when a call starts, so no waiter pays for a call it
\* did not make, and none starts before the next print is due
\* (route.ts 95-113, 128-140, 191-212).
CallsArePaidAndDue ==
  [][ LET starts == inflight = "none" /\ inflight' = "out"
      IN /\ starts <=> tokens' < tokens
         /\ starts => ~Cached \/ silvCache.age >= MIN_UPSTREAM_INTERVAL ]_vars

\* A page that was handed an envelope keeps one, whatever its optional retries
\* meet (lazer-execute.ts 36-61).
EnvelopeIsKept ==
  [][ \A c \in Submitters : answer[c].status = "ok" => answer'[c].status = "ok" ]_vars

\* No caller waits for ever, however often the upstream fails: every request is
\* answered and every submit flow ends (route.ts 142-146, 174-187, 216-228).
EveryRequestAnswered ==
  /\ \A c \in Pollers : Asking(c) ~> ~Asking(c)
  /\ \A c \in Submitters : tries[c] > 0 ~> req[c].at = "done"

\* A failure leaves nothing behind: once the upstream only succeeds, every
\* banner shows a price again, and for good (route.ts 210-214).
ServiceRecovers ==
  <>[][~UpstreamFails]_vars => <>[](\A c \in Pollers : answer[c].status = "ok")

\* "never serves a submitter an envelope aged past the publish period"
\* (lazer-route.test.ts 365-368, route.ts 106-109).
SubmitterGetsFreshPrint == \A c \in Submitters : ~answer[c].aged
=============================================================================
