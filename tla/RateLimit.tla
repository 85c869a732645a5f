----------------------------- MODULE RateLimit -----------------------------
(***************************************************************************)
(* The HTTP rate limiter (within_rate_limit in                             *)
(* crates/amatl-server/src/lib.rs).  A request reads the configured limit  *)
(* and the clock, and then waits for the limiter's mutex, so requests may  *)
(* enter it in another order than that of their timestamps.  A window is   *)
(* never restarted: it goes when a cleanup, at most one every Period,      *)
(* finds it a Period old.  The limiter survives reloads, which change the  *)
(* limit.                                                                  *)
(***************************************************************************)
EXTENDS Integers

CONSTANTS
  Ips,       \* client addresses
  Arrivals,  \* requests between their timestamp and the limiter
  Limits,    \* values of rate_limit_per_minute
  Period,    \* 60 seconds
  Skew,      \* bound: ticks a request waits for the mutex
  MaxClock   \* bound: the clock stops here

\* ServerConfig::validate refuses a limit of zero; the mutex is held for a moment.
ASSUME RateAssumption ==
  /\ Limits # {} /\ Limits \subseteq Nat \ {0}
  /\ Period \in Nat \ {0} /\ Skew \in Nat /\ Skew < Period
  /\ MaxClock \in Nat

VARIABLES
  clock,        \* the monotonic clock
  limit,        \* the limit of the running configuration
  windows,      \* windows[i]: the RateWindow of address i, or NoWindow
  lastCleanup,  \* when the windows were last swept
  entering,     \* entering[r]: the request r, see Arrival
  recent,       \* auxiliary: recent[i][k]: those of i let through in this tick and the k before
  wait,         \* auxiliary: what is left of the wait i was told, or Unset
  refusedAgain  \* auxiliary: an address that had waited as told was refused again

aux == <<recent, wait, refusedAgain>>
rateVars == <<clock, limit, windows, lastCleanup, entering, aux>>

Unset == -1
Time == 0 .. MaxClock
NoWindow == [started |-> Unset, count |-> 0]
RateWindow == [started : Time, count : Nat \ {0}] \cup {NoWindow}

Ages == 0 .. Period - 1

\* A request past the checks that come first: its address, its timestamp, the
\* limit of the security snapshot it took, and whether it is the first of an
\* address that had waited as told.
Arrival == [ip : Ips, stamp : Time, limit : Limits, waited : BOOLEAN]
NoArrival == [ip |-> "none", stamp |-> Unset, limit |-> 0, waited |-> FALSE]
----------------------------------------------------------------------------
RateInit ==
  /\ clock = 0
  /\ limit \in Limits
  /\ windows = [i \in Ips |-> NoWindow]
  /\ lastCleanup = 0
  /\ entering = [r \in Arrivals |-> NoArrival]
  /\ recent = [i \in Ips |-> [k \in Ages |-> 0]]
  /\ wait = [i \in Ips |-> Unset]
  /\ refusedAgain = FALSE

\* Nobody waits for the mutex longer than Skew.
RateTick ==
  /\ clock < MaxClock
  /\ \A r \in Arrivals : entering[r] # NoArrival => clock < entering[r].stamp + Skew
  /\ clock' = clock + 1
  /\ recent' = [i \in Ips |-> [k \in Ages |-> IF k = 0 THEN 0 ELSE recent[i][k - 1]]]
  /\ wait' = [i \in Ips |-> IF wait[i] > 0 THEN wait[i] - 1 ELSE wait[i]]
  /\ UNCHANGED <<limit, windows, lastCleanup, entering, refusedAgain>>

\* security_middleware up to the mutex: the snapshot and Instant::now.
Arrive(r, i) ==
  /\ entering[r] = NoArrival
  /\ entering' = [entering EXCEPT ![r] = [ip |-> i, stamp |-> clock, limit |-> limit,
                                waited |-> wait[i] = 0]]
  /\ wait' = [wait EXCEPT ![i] = Unset]
  /\ UNCHANGED <<clock, limit, windows, lastCleanup, recent, refusedAgain>>

\* duration_since saturates at zero.
Since(t, start) == IF t < start THEN 0 ELSE t - start

\* The windows a request finds once it has swept them, if it is time to.
Due(t) == Since(t, lastCleanup) >= Period

Swept(t) ==
  IF Due(t)
  THEN [i \in Ips |-> IF windows[i] # NoWindow /\ Since(t, windows[i].started) < Period
                      THEN windows[i] ELSE NoWindow]
  ELSE windows

\* Faulty variant: every request counts as a sweep.
SweepTimeAlways(t) == t

SweepTime(t) == IF Due(t) THEN t ELSE lastCleanup

\* The window of i, opened at t if there is none.
Opened(i, t) ==
  IF Swept(t)[i] = NoWindow THEN [started |-> t, count |-> 0] ELSE Swept(t)[i]

\* Faulty variant: one request too many.
FullLate(w, most) == w.count > most

Full(w, most) == w.count >= most

\* within_rate_limit returns true ...
Accept(r) ==
  LET i == entering[r].ip
      w == Opened(i, entering[r].stamp)
  IN  /\ entering[r] # NoArrival
      /\ ~Full(w, entering[r].limit)
      /\ windows' = [Swept(entering[r].stamp) EXCEPT
                       ![i] = [started |-> w.started, count |-> w.count + 1]]
      /\ lastCleanup' = SweepTime(entering[r].stamp)
      /\ entering' = [entering EXCEPT ![r] = NoArrival]
      /\ recent' = [recent EXCEPT ![i] = [k \in Ages |-> recent[i][k] + 1]]
      /\ UNCHANGED <<clock, limit, wait, refusedAgain>>

\* ... or false, and the answer is a 429 with Retry-After: 60.
Refuse(r) ==
  LET i == entering[r].ip
      w == Opened(i, entering[r].stamp)
  IN  /\ entering[r] # NoArrival
      /\ Full(w, entering[r].limit)
      /\ windows' = [Swept(entering[r].stamp) EXCEPT ![i] = w]
      /\ lastCleanup' = SweepTime(entering[r].stamp)
      /\ entering' = [entering EXCEPT ![r] = NoArrival]
      /\ wait' = [wait EXCEPT ![i] = Period]
      /\ refusedAgain' = (refusedAgain \/ entering[r].waited)
      /\ UNCHANGED <<clock, limit, recent>>

\* Faulty variant: a reload builds a new limiter.
ReloadAnew(n) ==
  /\ n # limit
  /\ limit' = n
  /\ windows' = [i \in Ips |-> NoWindow]
  /\ lastCleanup' = clock
  /\ UNCHANGED <<clock, entering, aux>>

\* AppState::reload swaps the limit and leaves the limiter alone.
ReloadLimit(n) ==
  /\ n # limit
  /\ limit' = n
  /\ UNCHANGED <<clock, windows, lastCleanup, entering, aux>>

RateNext ==
  \/ RateTick
  \/ \E r \in Arrivals : (\E i \in Ips : Arrive(r, i)) \/ Accept(r) \/ Refuse(r)
  \/ \E n \in Limits : ReloadLimit(n)

RateSpec == RateInit /\ [][RateNext]_rateVars
----------------------------------------------------------------------------
\* The types: a window counts at least one request and at most the largest limit.
RateTypeOK ==
  /\ clock \in Time /\ lastCleanup \in Time
  /\ limit \in Limits
  /\ windows \in [Ips -> RateWindow]
  /\ \A i \in Ips : windows[i] # NoWindow =>
       \E n \in Limits : windows[i].count <= n
  /\ entering \in [Arrivals -> Arrival \cup {NoArrival}]
  /\ recent \in [Ips -> [Ages -> Nat]]
  /\ wait \in [Ips -> Unset .. Period]
  /\ refusedAgain \in BOOLEAN

\* An address gets at most two windows' worth through in any span of Period less
\* the wait for the mutex, each of a limit that was configured, whatever the order
\* of the requests, the sweeps that other addresses cause and the reloads in
\* between.
BurstIsBounded ==
  \A i \in Ips : \E m, n \in Limits : recent[i][Period - Skew - 1] <= m + n

\* An address is never refused for a window that is two Periods old.
RefusalEnds ==
  [][\A r \in Arrivals :
       Refuse(r) => entering[r].stamp - windows'[entering[r].ip].started < 2 * Period]_rateVars

\* The 429 names the wait, Retry-After: 60, after which an address that did wait
\* is let through.
RetryAfterHonoured == ~refusedAgain
=============================================================================
