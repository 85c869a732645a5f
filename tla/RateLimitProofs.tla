-------------------------- MODULE RateLimitProofs --------------------------
(***************************************************************************)
(* Theorems about the rate limiter, for any addresses, requests in flight, *)
(* limits and period.                                                      *)
(***************************************************************************)
EXTENDS RateLimit, TLAPS

USE DEF aux, rateVars

\* Arrivals wait for the mutex no longer than Skew, so a window is never older
\* than a Period at the last sweep.
AgeInv ==
  /\ lastCleanup <= clock
  /\ \A r \in Arrivals : entering[r] # NoArrival =>
       entering[r].stamp <= clock /\ clock <= entering[r].stamp + Skew
  /\ \A i \in Ips : windows[i] # NoWindow => lastCleanup - windows[i].started < Period

LEMMA Constants ==
  /\ Period \in Nat /\ Skew \in Nat /\ Skew < Period /\ Period > 0
  /\ MaxClock \in Nat /\ Time \subseteq Nat /\ 0 \in Time
  /\ Limits \subseteq Nat /\ \A n \in Limits : n > 0
  BY RateAssumption DEF Time

LEMMA NoWindowIs == NoWindow \in RateWindow /\ NoWindow.started = Unset /\ NoWindow.count = 0
  BY DEF RateWindow, NoWindow

\* A stamped request.
LEMMA RequestIs ==
  ASSUME RateTypeOK, NEW r \in Arrivals, entering[r] # NoArrival
  PROVE  entering[r] \in Arrival /\ entering[r].ip \in Ips /\ entering[r].stamp \in Time
         /\ entering[r].limit \in Limits
  BY DEF RateTypeOK, Arrival

\* A window that is there.
LEMMA WindowIs ==
  ASSUME NEW w \in RateWindow, w # NoWindow
  PROVE  w.started \in Time /\ w.count \in Nat \ {0}
         /\ w = [started |-> w.started, count |-> w.count]
  BY DEF RateWindow

\* What a sweep at t leaves.
LEMMA SweptIs ==
  ASSUME RateTypeOK, NEW t \in Time
  PROVE  /\ Swept(t) \in [Ips -> RateWindow]
         /\ \A i \in Ips : Swept(t)[i] = windows[i] \/ Swept(t)[i] = NoWindow
         /\ SweepTime(t) \in Time
  BY NoWindowIs DEF RateTypeOK, Swept, SweepTime

\* The window a request of address i finds or opens.
LEMMA OpenedIs ==
  ASSUME RateTypeOK, NEW t \in Time, NEW i \in Ips
  PROVE  /\ Opened(i, t).started \in Time /\ Opened(i, t).count \in Nat
         /\ \/ Swept(t)[i] = NoWindow /\ Opened(i, t) = [started |-> t, count |-> 0]
            \/ /\ Swept(t)[i] # NoWindow /\ Opened(i, t) = windows[i]
               /\ Opened(i, t) = Swept(t)[i]
<1>1. CASE Swept(t)[i] = NoWindow
  BY <1>1 DEF Opened
<1>2. CASE Swept(t)[i] # NoWindow
  <2>1. Opened(i, t) = windows[i] /\ windows[i] # NoWindow /\ windows[i] \in RateWindow
    BY <1>2, SweptIs DEF Opened, RateTypeOK
  <2> QED
    BY <1>2, <2>1, WindowIs DEF Opened
<1> QED
  BY <1>1, <1>2

LEMMA InitType == ASSUME RateInit PROVE RateTypeOK
<1>1. windows \in [Ips -> RateWindow] /\ \A i \in Ips : windows[i] = NoWindow
  BY NoWindowIs DEF RateInit
<1>2. recent \in [Ips -> [Ages -> Nat]] /\ wait \in [Ips -> Unset .. Period]
  BY Constants DEF RateInit, Unset
<1>3. clock \in Time /\ lastCleanup \in Time /\ limit \in Limits
  BY Constants DEF RateInit
<1>4. entering \in [Arrivals -> Arrival \cup {NoArrival}] /\ refusedAgain \in BOOLEAN
  BY DEF RateInit
<1> QED
  BY <1>1, <1>2, <1>3, <1>4 DEF RateTypeOK

\* What the windows are after a request: swept, and the address's own one open.
LEMMA WindowsAfter ==
  ASSUME RateTypeOK, NEW t \in Time, NEW i \in Ips, NEW w, NEW most \in Limits,
         w.started \in Time, w.count \in Nat \ {0}, w \in RateWindow,
         w.count <= most \/ w = windows[i],
         windows' = [Swept(t) EXCEPT ![i] = w]
  PROVE  /\ windows' \in [Ips -> RateWindow] /\ windows'[i] = w
         /\ \A j \in Ips \ {i} : windows'[j] = windows[j] \/ windows'[j] = NoWindow
         /\ \A j \in Ips : windows'[j] # NoWindow => \E n \in Limits : windows'[j].count <= n
<1>1. Swept(t) \in [Ips -> RateWindow]
      /\ \A j \in Ips : Swept(t)[j] = windows[j] \/ Swept(t)[j] = NoWindow
  BY SweptIs
<1>2. /\ windows' \in [Ips -> RateWindow] /\ windows'[i] = w
      /\ \A j \in Ips \ {i} : windows'[j] = windows[j] \/ windows'[j] = NoWindow
  BY <1>1
<1>3. ASSUME NEW j \in Ips, windows'[j] # NoWindow
      PROVE  \E n \in Limits : windows'[j].count <= n
  <2>1. CASE j = i
    BY <1>2, <1>3, <2>1 DEF RateTypeOK
  <2>2. CASE j # i
    BY <1>2, <1>3, <2>2 DEF RateTypeOK
  <2> QED
    BY <2>1, <2>2
<1> QED
  BY <1>2, <1>3

\* A request let through: its window has room, and counts it.
LEMMA AcceptedWindow ==
  ASSUME RateTypeOK, NEW r \in Arrivals, Accept(r)
  PROVE  LET i == entering[r].ip
             t == entering[r].stamp
             w == [started |-> Opened(i, t).started, count |-> Opened(i, t).count + 1]
         IN  /\ i \in Ips /\ t \in Time /\ entering[r].limit \in Limits
             /\ w.started \in Time /\ w.count \in Nat \ {0} /\ w \in RateWindow
             /\ w.count <= entering[r].limit
             /\ windows' = [Swept(t) EXCEPT ![i] = w]
<1> DEFINE i == entering[r].ip
           t == entering[r].stamp
           w == [started |-> Opened(i, t).started, count |-> Opened(i, t).count + 1]
<1>1. i \in Ips /\ t \in Time /\ entering[r].limit \in Limits
  BY RequestIs DEF Accept
<1>2. Opened(i, t).started \in Time /\ Opened(i, t).count \in Nat
  BY <1>1, OpenedIs
<1>3. w.started \in Time /\ w.count \in Nat \ {0} /\ w \in RateWindow
  <2> HIDE DEF i, t
  <2> QED
    BY <1>2 DEF RateWindow
<1>4. Opened(i, t).count < entering[r].limit
  <2>1. ~(Opened(i, t).count >= entering[r].limit)
    BY DEF Accept, Full
  <2>2. entering[r].limit \in Nat
    BY <1>1, Constants
  <2> HIDE DEF i, t
  <2> QED
    BY <1>2, <2>1, <2>2
<1>5. w.count <= entering[r].limit
  <2>1. w.count = Opened(i, t).count + 1 /\ entering[r].limit \in Nat
    BY <1>1, Constants
  <2> HIDE DEF w
  <2> QED
    BY <1>2, <1>4, <2>1
<1>6. windows' = [Swept(t) EXCEPT ![i] = w]
  BY DEF Accept
<1> QED
  BY <1>1, <1>3, <1>5, <1>6

\* A request refused: its window was there before.
LEMMA RefusedWindow ==
  ASSUME RateTypeOK, NEW r \in Arrivals, Refuse(r)
  PROVE  LET i == entering[r].ip
             t == entering[r].stamp
             w == Opened(i, t)
         IN  /\ i \in Ips /\ t \in Time /\ entering[r].limit \in Limits
             /\ w.started \in Time /\ w.count \in Nat \ {0} /\ w \in RateWindow
             /\ w = windows[i] /\ w = Swept(t)[i] /\ w # NoWindow
             /\ windows' = [Swept(t) EXCEPT ![i] = w]
<1> DEFINE i == entering[r].ip
           t == entering[r].stamp
           w == Opened(i, t)
<1>1. i \in Ips /\ t \in Time /\ entering[r].limit \in Limits
  BY RequestIs DEF Refuse
<1>2. w.started \in Time /\ w.count \in Nat
  BY <1>1, OpenedIs
<1>3. w.count >= entering[r].limit /\ w.count # 0
  <2>1. w.count >= entering[r].limit
    BY DEF Refuse, Full
  <2>2. entering[r].limit \in Nat /\ entering[r].limit > 0
    BY <1>1, Constants
  <2> HIDE DEF w
  <2> QED
    BY <1>2, <2>1, <2>2
<1>4. w = windows[i] /\ w = Swept(t)[i] /\ w # NoWindow
  BY <1>1, <1>3, OpenedIs
<1>5. w \in RateWindow
  BY <1>1, <1>4 DEF RateTypeOK
<1>6. windows' = [Swept(t) EXCEPT ![i] = w]
  BY DEF Refuse
<1> QED
  BY <1>1, <1>2, <1>3, <1>4, <1>5, <1>6

LEMMA NextType == ASSUME RateTypeOK, [RateNext]_rateVars PROVE RateTypeOK'
<1>1. CASE UNCHANGED rateVars
  BY <1>1 DEF RateTypeOK
<1>2. CASE RateTick
  <2>1. clock' \in Time
    BY <1>2, Constants DEF RateTypeOK, RateTick, Time
  <2>2. recent' \in [Ips -> [Ages -> Nat]]
    BY <1>2, Constants DEF RateTypeOK, RateTick, Ages
  <2>3. wait' \in [Ips -> Unset .. Period]
    BY <1>2, Constants DEF RateTypeOK, RateTick, Unset
  <2> QED
    BY <1>2, <2>1, <2>2, <2>3 DEF RateTypeOK, RateTick
<1>3. ASSUME NEW r \in Arrivals, NEW i \in Ips, Arrive(r, i) PROVE RateTypeOK'
  <2>1. [ip |-> i, stamp |-> clock, limit |-> limit, waited |-> wait[i] = 0] \in Arrival
    BY DEF RateTypeOK, Arrival
  <2>2. entering' \in [Arrivals -> Arrival \cup {NoArrival}]
    BY <1>3, <2>1 DEF RateTypeOK, Arrive
  <2>3. wait' \in [Ips -> Unset .. Period]
    BY <1>3, Constants DEF RateTypeOK, Arrive, Unset
  <2> QED
    BY <1>3, <2>2, <2>3 DEF RateTypeOK, Arrive
<1>4. ASSUME NEW r \in Arrivals, Accept(r) PROVE RateTypeOK'
  <2> DEFINE i == entering[r].ip
  <2>1. i \in Ips /\ entering[r].stamp \in Time
    BY <1>4, AcceptedWindow
  <2>2. /\ windows' \in [Ips -> RateWindow]
        /\ \A j \in Ips : windows'[j] # NoWindow => \E n \in Limits : windows'[j].count <= n
    BY <1>4, AcceptedWindow, WindowsAfter
  <2>3. lastCleanup' \in Time
    BY <1>4, <2>1, SweptIs DEF Accept
  <2>4. entering' \in [Arrivals -> Arrival \cup {NoArrival}]
    BY <1>4 DEF Accept, RateTypeOK
  <2>5. recent' \in [Ips -> [Ages -> Nat]]
    <3>1. recent[i] \in [Ages -> Nat]
      BY <2>1 DEF RateTypeOK
    <3>2. recent' = [recent EXCEPT ![i] = [k \in Ages |-> recent[i][k] + 1]]
      BY <1>4 DEF Accept
    <3>3. [k \in Ages |-> recent[i][k] + 1] \in [Ages -> Nat]
      BY <3>1
    <3> QED
      BY <2>1, <3>2, <3>3 DEF RateTypeOK
  <2> QED
    BY <1>4, <2>2, <2>3, <2>4, <2>5 DEF Accept, RateTypeOK
<1>5. ASSUME NEW r \in Arrivals, Refuse(r) PROVE RateTypeOK'
  <2>1. entering[r].ip \in Ips /\ entering[r].stamp \in Time
    BY <1>5, RefusedWindow
  <2>2. /\ windows' \in [Ips -> RateWindow]
        /\ \A j \in Ips : windows'[j] # NoWindow => \E n \in Limits : windows'[j].count <= n
    BY <1>5, RefusedWindow, WindowsAfter
  <2>3. lastCleanup' \in Time
    BY <1>5, <2>1, SweptIs DEF Refuse
  <2>4. entering' \in [Arrivals -> Arrival \cup {NoArrival}]
    BY <1>5 DEF Refuse, RateTypeOK
  <2>5. wait' \in [Ips -> Unset .. Period]
    <3>1. Period \in Unset .. Period
      BY Constants DEF Unset
    <3>2. wait' = [wait EXCEPT ![entering[r].ip] = Period]
      BY <1>5 DEF Refuse
    <3> QED
      BY <3>1, <3>2 DEF RateTypeOK
  <2>6. refusedAgain' \in BOOLEAN
    BY <1>5 DEF Refuse
  <2> QED
    BY <1>5, <2>2, <2>3, <2>4, <2>5, <2>6 DEF Refuse, RateTypeOK
<1>6. ASSUME NEW n \in Limits, ReloadLimit(n) PROVE RateTypeOK'
  BY <1>6 DEF ReloadLimit, RateTypeOK
<1> QED
  BY <1>1, <1>2, <1>3, <1>4, <1>5, <1>6 DEF RateNext

\* The limiter's state is well formed; no window counts more than the largest limit.
THEOREM TypeCorrect == RateSpec => []RateTypeOK
<1>1. RateInit => RateTypeOK
  BY InitType
<1>2. RateTypeOK /\ [RateNext]_rateVars => RateTypeOK'
  BY NextType
<1> QED
  BY <1>1, <1>2, PTL DEF RateSpec
----------------------------------------------------------------------------
LEMMA InitAge == ASSUME RateInit PROVE AgeInv
  BY Constants DEF RateInit, AgeInv

\* A window that a sweep at t leaves is younger than a Period at that sweep.
LEMMA SweptAge ==
  ASSUME RateTypeOK, AgeInv, NEW t \in Time, NEW i \in Ips, Swept(t)[i] # NoWindow
  PROVE  /\ SweepTime(t) - windows[i].started < Period
         /\ t - windows[i].started < 2 * Period
<1>0. /\ windows[i] # NoWindow /\ windows[i].started \in Nat
      /\ t \in Nat /\ lastCleanup \in Nat
  <2>1. windows[i] # NoWindow /\ windows[i] \in RateWindow
    BY SweptIs DEF RateTypeOK
  <2> QED
    BY <2>1, WindowIs, Constants DEF RateTypeOK
<1>1. CASE Due(t)
  <2>1. Since(t, windows[i].started) < Period /\ SweepTime(t) = t
    BY <1>1 DEF Swept, SweepTime
  <2>2. t - windows[i].started < Period
    BY <1>0, <2>1, Constants DEF Since
  <2> QED
    BY <1>0, <2>1, <2>2, Constants
<1>2. CASE ~Due(t)
  <2>1. SweepTime(t) = lastCleanup
    BY <1>2 DEF SweepTime
  <2>2. t - lastCleanup < Period
    BY <1>0, <1>2, Constants DEF Due, Since
  <2>3. lastCleanup - windows[i].started < Period
    BY <1>0 DEF AgeInv
  <2> QED
    BY <1>0, <2>1, <2>2, <2>3, Constants
<1> QED
  BY <1>1, <1>2

\* So is one opened then, because nobody waits for the mutex long.
LEMMA OpenedAge ==
  ASSUME RateTypeOK, AgeInv, NEW r \in Arrivals, entering[r] # NoArrival
  PROVE  /\ SweepTime(entering[r].stamp) <= clock
         /\ SweepTime(entering[r].stamp) - Opened(entering[r].ip, entering[r].stamp).started < Period
<1> DEFINE t == entering[r].stamp
           i == entering[r].ip
<1>0. i \in Ips /\ t \in Time
  BY RequestIs
<1>1. t \in Nat /\ clock \in Nat /\ lastCleanup \in Nat
  BY <1>0, Constants DEF RateTypeOK
<1>2. t <= clock /\ clock <= t + Skew /\ lastCleanup <= clock
  BY DEF AgeInv
<1> HIDE DEF t, i
<1>3. SweepTime(t) \in {t, lastCleanup}
  BY DEF SweepTime
<1>4. SweepTime(t) <= clock /\ SweepTime(t) - t < Period
  BY <1>1, <1>2, <1>3, Constants
<1>5. CASE Swept(t)[i] = NoWindow
  <2>1. Opened(i, t).started = t
    BY <1>5 DEF Opened
  <2> QED
    BY <1>4, <2>1 DEF t, i
<1>6. CASE Swept(t)[i] # NoWindow
  <2>1. Opened(i, t) = windows[i]
    BY <1>0, <1>6, OpenedIs
  <2> QED
    BY <1>0, <1>4, <1>6, <2>1, SweptAge DEF t, i
<1> QED
  BY <1>5, <1>6

\* A request that leaves the limiter with windows that young.
LEMMA LeaveAges ==
  ASSUME RateTypeOK, AgeInv, NEW r \in Arrivals, entering[r] # NoArrival, NEW w,
         w.started = Opened(entering[r].ip, entering[r].stamp).started,
         windows' = [Swept(entering[r].stamp) EXCEPT ![entering[r].ip] = w],
         lastCleanup' = SweepTime(entering[r].stamp), clock' = clock,
         entering' = [entering EXCEPT ![r] = NoArrival]
  PROVE  AgeInv'
<1> DEFINE t == entering[r].stamp
           i == entering[r].ip
<1>0. i \in Ips /\ t \in Time
  BY RequestIs
<1>1. SweepTime(t) <= clock /\ SweepTime(t) - w.started < Period
  BY OpenedAge
<1>2. Swept(t) \in [Ips -> RateWindow]
      /\ \A j \in Ips : Swept(t)[j] = windows[j] \/ Swept(t)[j] = NoWindow
  BY <1>0, SweptIs
<1>3. windows'[i] = w /\ \A j \in Ips \ {i} : windows'[j] = Swept(t)[j]
  BY <1>0, <1>2
<1>4. \A j \in Ips : windows'[j] # NoWindow => lastCleanup' - windows'[j].started < Period
  <2> SUFFICES ASSUME NEW j \in Ips, windows'[j] # NoWindow
      PROVE  SweepTime(t) - windows'[j].started < Period
    OBVIOUS
  <2> HIDE DEF t, i
  <2>1. CASE j = i
    BY <1>1, <1>3, <2>1
  <2>2. CASE j # i
    BY <1>0, <1>2, <1>3, <2>2, SweptAge
  <2> QED
    BY <2>1, <2>2
<1>5. \A q \in Arrivals : entering'[q] # NoArrival => entering'[q] = entering[q]
  BY DEF RateTypeOK
<1>6. \A q \in Arrivals : entering'[q] # NoArrival =>
        entering'[q].stamp <= clock' /\ clock' <= entering'[q].stamp + Skew
  BY <1>5 DEF AgeInv
<1>7. lastCleanup' <= clock'
  BY <1>1
<1> QED
  BY <1>4, <1>6, <1>7 DEF AgeInv

LEMMA NextAge == ASSUME RateTypeOK, AgeInv, [RateNext]_rateVars PROVE AgeInv'
<1>0. clock \in Nat /\ lastCleanup \in Nat
  BY Constants DEF RateTypeOK
<1>1. CASE UNCHANGED rateVars
  BY <1>1 DEF AgeInv
<1>2. CASE RateTick
  <2>1. \A r \in Arrivals : entering[r] # NoArrival => entering[r].stamp \in Nat
    BY RequestIs, Constants
  <2>2. \A r \in Arrivals : entering[r] # NoArrival =>
          entering[r].stamp <= clock + 1 /\ clock + 1 <= entering[r].stamp + Skew
    BY <1>0, <1>2, <2>1, Constants DEF RateTick, AgeInv
  <2>3. lastCleanup <= clock + 1
    BY <1>0 DEF AgeInv
  <2> QED
    BY <1>2, <2>2, <2>3 DEF RateTick, AgeInv
<1>3. ASSUME NEW r \in Arrivals, NEW i \in Ips, Arrive(r, i) PROVE AgeInv'
  <2>1. entering'[r].stamp = clock /\ \A q \in Arrivals \ {r} : entering'[q] = entering[q]
    BY <1>3 DEF Arrive, RateTypeOK
  <2>2. clock <= clock /\ clock <= clock + Skew
    BY <1>0, Constants
  <2> QED
    BY <1>3, <2>1, <2>2 DEF Arrive, AgeInv
<1>4. ASSUME NEW r \in Arrivals, Accept(r) PROVE AgeInv'
  <2> DEFINE w == [started |-> Opened(entering[r].ip, entering[r].stamp).started,
                   count |-> Opened(entering[r].ip, entering[r].stamp).count + 1]
  <2>1. /\ entering[r] # NoArrival /\ windows' = [Swept(entering[r].stamp) EXCEPT ![entering[r].ip] = w]
        /\ lastCleanup' = SweepTime(entering[r].stamp) /\ clock' = clock
        /\ entering' = [entering EXCEPT ![r] = NoArrival]
    BY <1>4 DEF Accept
  <2>2. w.started = Opened(entering[r].ip, entering[r].stamp).started
    OBVIOUS
  <2> HIDE DEF w
  <2> QED
    BY <2>1, <2>2, LeaveAges
<1>5. ASSUME NEW r \in Arrivals, Refuse(r) PROVE AgeInv'
  BY <1>5, LeaveAges DEF Refuse
<1>6. ASSUME NEW n \in Limits, ReloadLimit(n) PROVE AgeInv'
  BY <1>6 DEF ReloadLimit, AgeInv
<1> QED
  BY <1>1, <1>2, <1>3, <1>4, <1>5, <1>6 DEF RateNext

\* A full window refuses its address for less than two Periods, in whatever order
\* requests with older and newer timestamps enter the limiter.
THEOREM RefusalIsBounded == RateSpec => RefusalEnds
<1>1. RateInit => RateTypeOK /\ AgeInv
  BY InitType, InitAge
<1>2. RateTypeOK /\ AgeInv /\ [RateNext]_rateVars => RateTypeOK' /\ AgeInv'
  BY NextType, NextAge
<1>3. RateTypeOK /\ AgeInv =>
        \A r \in Arrivals :
          Refuse(r) => entering[r].stamp - windows'[entering[r].ip].started < 2 * Period
  <2> SUFFICES ASSUME RateTypeOK, AgeInv, NEW r \in Arrivals, Refuse(r)
      PROVE  entering[r].stamp - windows'[entering[r].ip].started < 2 * Period
    OBVIOUS
  <2> DEFINE t == entering[r].stamp
             i == entering[r].ip
  <2>1. /\ i \in Ips /\ t \in Time
        /\ Opened(i, t) = windows[i] /\ Opened(i, t) = Swept(t)[i] /\ Opened(i, t) # NoWindow
        /\ windows' = [Swept(t) EXCEPT ![i] = Opened(i, t)]
    BY RefusedWindow
  <2>2. windows'[i] = windows[i]
    BY <2>1, SweptIs
  <2> HIDE DEF t, i
  <2>3. t - windows[i].started < 2 * Period
    BY <2>1, SweptAge
  <2> QED
    BY <2>2, <2>3 DEF t, i
<1> QED
  BY <1>1, <1>2, <1>3, PTL DEF RateSpec, RefusalEnds
----------------------------------------------------------------------------
\* What was let through before the window of an address was opened is out of
\* sight once the window is older than the wait for the mutex; and what the last
\* ticks saw is the work of this window and of at most one before it.
Span == Period - Skew - 1

Before(i) ==
  \A k \in Ages : windows[i] # NoWindow /\ k < clock - windows[i].started - Skew =>
    recent[i][k] <= windows[i].count

TwoWindows(i) ==
  \E m \in Limits : \A k \in 0 .. Span : recent[i][k] <= windows[i].count + m

BurstInv == \A i \in Ips : Before(i) /\ TwoWindows(i)

LEMMA SpanIs == Span \in Ages /\ 0 .. Span \subseteq Ages /\ Ages \subseteq Nat /\ Span < Period
  BY Constants DEF Span, Ages

LEMMA InitBurst == ASSUME RateInit PROVE BurstInv
<1> SUFFICES ASSUME NEW i \in Ips PROVE Before(i) /\ TwoWindows(i)
  BY DEF BurstInv
<1>1. windows[i] = NoWindow /\ \A k \in Ages : recent[i][k] = 0
  BY DEF RateInit
<1>2. PICK m \in Limits : m \in Nat
  BY RateAssumption
<1>3. \A k \in 0 .. Span : recent[i][k] <= windows[i].count + m
  BY <1>1, <1>2, NoWindowIs, SpanIs
<1> QED
  BY <1>1, <1>3 DEF Before, TwoWindows

\* The tick moves what was seen one tick back.
LEMMA TickBurst ==
  ASSUME RateTypeOK, BurstInv, RateTick, NEW i \in Ips
  PROVE  Before(i)' /\ TwoWindows(i)'
<1>0. /\ clock \in Nat /\ windows[i].count \in Nat /\ recent[i] \in [Ages -> Nat]
      /\ windows[i] # NoWindow => windows[i].started \in Nat
  BY WindowIs, NoWindowIs, Constants DEF RateTypeOK
<1>u. clock' = clock + 1 /\ windows' = windows
  BY DEF RateTick
<1>1. \A k \in Ages : recent'[i][k] = IF k = 0 THEN 0 ELSE recent[i][k - 1]
  BY DEF RateTick
<1>2. \A k \in Ages : k = 0 \/ k - 1 \in Ages
  BY Constants DEF Ages
<1>3. Before(i)'
  <2> SUFFICES ASSUME NEW k \in Ages, windows'[i] # NoWindow,
                      k < clock' - windows'[i].started - Skew
               PROVE  recent'[i][k] <= windows'[i].count
    BY DEF Before
  <2>0. windows[i] # NoWindow /\ k < clock + 1 - windows[i].started - Skew
    <3>1. windows'[i] = windows[i]
      BY <1>u
    <3>2. k \in Nat /\ windows[i].started \in Nat
      BY <1>0, <3>1, SpanIs
    <3> QED
      BY <1>0, <1>u, <3>1, <3>2, Constants
  <2>1. CASE k = 0
    BY <1>0, <1>1, <1>u, <2>1
  <2>2. CASE k # 0
    <3>1. k - 1 \in Ages /\ k - 1 < clock - windows[i].started - Skew
      BY <1>0, <1>2, <2>0, <2>2, Constants, SpanIs
    <3>2. recent[i][k - 1] <= windows[i].count
      BY <2>0, <3>1 DEF BurstInv, Before
    <3> QED
      BY <1>1, <1>u, <2>2, <3>2
  <2> QED
    BY <2>1, <2>2
<1>4. TwoWindows(i)'
  <2>1. PICK m \in Limits : \A k \in 0 .. Span : recent[i][k] <= windows[i].count + m
    BY DEF BurstInv, TwoWindows
  <2>2. m \in Nat
    BY Constants
  <2> SUFFICES ASSUME NEW k \in 0 .. Span PROVE recent'[i][k] <= windows[i].count + m
    BY <1>u DEF TwoWindows
  <2>3. k \in Ages
    BY SpanIs
  <2>4. CASE k = 0
    BY <1>0, <1>1, <2>2, <2>3, <2>4
  <2>5. CASE k # 0
    <3>1. k - 1 \in 0 .. Span
      BY <2>5, SpanIs
    <3> QED
      BY <1>1, <2>1, <2>3, <2>5, <3>1
  <2> QED
    BY <2>4, <2>5
<1> QED
  BY <1>3, <1>4

\* A sweep keeps what is known of the windows that stay, and the window it takes
\* away was opened more than a span ago.
LEMMA SweptBurst ==
  ASSUME RateTypeOK, AgeInv, BurstInv, NEW r \in Arrivals, entering[r] # NoArrival, NEW i \in Ips
  PROVE  \E m \in Limits : \A k \in 0 .. Span :
           recent[i][k] <= Swept(entering[r].stamp)[i].count + m
<1> DEFINE t == entering[r].stamp
<1>0. t \in Time /\ t \in Nat /\ clock \in Nat /\ t <= clock
  BY RequestIs, Constants DEF AgeInv, RateTypeOK
<1>1. PICK m \in Limits : \A k \in 0 .. Span : recent[i][k] <= windows[i].count + m
  BY DEF BurstInv, TwoWindows
<1>2. CASE Swept(t)[i] = windows[i]
  BY <1>1, <1>2
<1>3. CASE Swept(t)[i] # windows[i]
  <2>1. Swept(t)[i] = NoWindow /\ windows[i] # NoWindow /\ Since(t, windows[i].started) >= Period
    <3>1. Due(t) /\ ~(windows[i] # NoWindow /\ Since(t, windows[i].started) < Period)
      BY <1>3 DEF Swept
    <3>2. Swept(t)[i] = NoWindow
      BY <1>3, <1>0, SweptIs
    <3>3. windows[i] # NoWindow
      BY <1>3, <3>2
    <3>4. windows[i].started \in Nat
      BY <3>3, WindowIs, Constants DEF RateTypeOK
    <3>5. Since(t, windows[i].started) \in Int
      BY <1>0, <3>4 DEF Since
    <3> HIDE DEF t
    <3> QED
      BY <3>1, <3>2, <3>3, <3>5, Constants
  <2>2. windows[i].started \in Nat
    BY <2>1, WindowIs, Constants DEF RateTypeOK
  <2> HIDE DEF t
  <2>3. t - windows[i].started >= Period
    BY <1>0, <2>1, <2>2, Constants DEF Since
  <2>4. \A k \in 0 .. Span : k < clock - windows[i].started - Skew
    BY <1>0, <2>2, <2>3, Constants DEF Span
  <2>5. \A k \in 0 .. Span : recent[i][k] <= windows[i].count
    BY <2>1, <2>4, SpanIs DEF BurstInv, Before
  <2>6. PICK n \in Limits : windows[i].count <= n
    BY <2>1 DEF RateTypeOK
  <2>7. n \in Nat /\ windows[i].count \in Nat /\ Swept(t)[i].count = 0
    BY <2>1, WindowIs, NoWindowIs, Constants DEF RateTypeOK
  <2>8. \A k \in 0 .. Span : recent[i][k] \in Nat
    BY SpanIs DEF RateTypeOK
  <2>9. \A k \in 0 .. Span : recent[i][k] <= Swept(t)[i].count + n
    BY <2>5, <2>6, <2>7, <2>8
  <2> QED
    BY <2>9 DEF t
<1> QED
  BY <1>2, <1>3

\* The address of a request that leaves the limiter, and the others.
LEMMA OthersBurst ==
  ASSUME RateTypeOK, AgeInv, BurstInv, NEW r \in Arrivals, entering[r] # NoArrival, NEW i \in Ips,
         windows'[i] = Swept(entering[r].stamp)[i], recent'[i] = recent[i], clock' = clock
  PROVE  Before(i)' /\ TwoWindows(i)'
<1>1. TwoWindows(i)'
  BY SweptBurst DEF TwoWindows
<1>2. Before(i)'
  BY RequestIs, SweptIs DEF BurstInv, Before
<1> QED
  BY <1>1, <1>2

LEMMA AcceptBurst ==
  ASSUME RateTypeOK, AgeInv, BurstInv, NEW r \in Arrivals, Accept(r), NEW i \in Ips
  PROVE  Before(i)' /\ TwoWindows(i)'
<1> DEFINE t == entering[r].stamp
           o == Opened(entering[r].ip, t)
           w == [started |-> o.started, count |-> o.count + 1]
<1>0. /\ entering[r] # NoArrival /\ t \in Time /\ clock' = clock /\ entering[r].ip \in Ips
      /\ t \in Nat /\ clock \in Nat /\ t <= clock /\ clock <= t + Skew
  BY RequestIs, Constants DEF Accept, AgeInv, RateTypeOK
<1>1. /\ windows' = [Swept(t) EXCEPT ![entering[r].ip] = w]
      /\ recent' = [recent EXCEPT ![entering[r].ip] = [k \in Ages |-> recent[entering[r].ip][k] + 1]]
  BY DEF Accept
<1>2. CASE i # entering[r].ip
  <2>1. windows'[i] = Swept(t)[i] /\ recent'[i] = recent[i]
    BY <1>0, <1>1, <1>2, SweptIs DEF RateTypeOK
  <2> QED
    BY <1>0, <2>1, OthersBurst
<1>3. CASE i = entering[r].ip
  <2>1. windows'[i] = w /\ w.started = o.started /\ w.count = o.count + 1
    BY <1>0, <1>1, <1>3, SweptIs
  <2>2. \A k \in Ages : recent'[i][k] = recent[i][k] + 1 /\ recent[i][k] \in Nat
    BY <1>1, <1>3 DEF RateTypeOK
  <2>3. /\ o.started \in Nat /\ o.count \in Nat /\ o.count = Swept(t)[i].count
        /\ Swept(t)[i] = NoWindow => o.started = t
        /\ Swept(t)[i] # NoWindow => o = windows[i] /\ windows[i] # NoWindow
    <3> HIDE DEF t, w
    <3>1. /\ o.started \in Nat /\ o.count \in Nat
          /\ \/ Swept(t)[i] = NoWindow /\ o = [started |-> t, count |-> 0]
             \/ Swept(t)[i] # NoWindow /\ o = windows[i] /\ o = Swept(t)[i]
      BY <1>0, <1>3, OpenedIs, Constants
    <3> HIDE DEF o
    <3>2. CASE Swept(t)[i] = NoWindow
      BY <3>1, <3>2, NoWindowIs
    <3>3. CASE Swept(t)[i] # NoWindow
      BY <3>1, <3>3
    <3> QED
      BY <3>1, <3>2, <3>3
  <2> HIDE DEF t, o, w
  <2>4. TwoWindows(i)'
    <3>1. PICK m \in Limits : \A k \in 0 .. Span : recent[i][k] <= Swept(t)[i].count + m
      BY <1>0, SweptBurst DEF t
    <3>2. m \in Nat
      BY Constants
    <3>3. \A k \in 0 .. Span : recent'[i][k] <= windows'[i].count + m
      BY <2>1, <2>2, <2>3, <3>1, <3>2, SpanIs
    <3> QED
      BY <3>3 DEF TwoWindows
  <2>5. Before(i)'
    <3> SUFFICES ASSUME NEW k \in Ages, k < clock - o.started - Skew
                 PROVE  recent[i][k] + 1 <= o.count + 1
      BY <1>0, <2>1, <2>2 DEF Before
    <3>1. k \in Nat
      BY SpanIs
    <3>2. CASE Swept(t)[i] = NoWindow
      BY <1>0, <2>3, <3>1, <3>2, Constants
    <3>3. CASE Swept(t)[i] # NoWindow
      <4>1. recent[i][k] <= o.count
        BY <2>3, <3>3 DEF BurstInv, Before
      <4> QED
        BY <2>2, <2>3, <4>1
    <3> QED
      BY <3>2, <3>3
  <2> QED
    BY <2>4, <2>5
<1> QED
  BY <1>2, <1>3

LEMMA NextBurst == ASSUME RateTypeOK, AgeInv, BurstInv, [RateNext]_rateVars PROVE BurstInv'
<1> SUFFICES ASSUME NEW i \in Ips PROVE Before(i)' /\ TwoWindows(i)'
  BY DEF BurstInv
<1>1. CASE UNCHANGED <<clock, windows, recent>>
  BY <1>1 DEF BurstInv, Before, TwoWindows
<1>2. CASE RateTick
  BY <1>2, TickBurst
<1>3. ASSUME NEW r \in Arrivals, NEW j \in Ips, Arrive(r, j) PROVE UNCHANGED <<clock, windows, recent>>
  BY <1>3 DEF Arrive
<1>4. ASSUME NEW r \in Arrivals, Accept(r) PROVE Before(i)' /\ TwoWindows(i)'
  BY <1>4, AcceptBurst
<1>5. ASSUME NEW r \in Arrivals, Refuse(r) PROVE Before(i)' /\ TwoWindows(i)'
  <2>1. /\ entering[r].ip \in Ips /\ entering[r].stamp \in Time
        /\ Opened(entering[r].ip, entering[r].stamp) = Swept(entering[r].stamp)[entering[r].ip]
        /\ windows' = [Swept(entering[r].stamp) EXCEPT ![entering[r].ip] = Opened(entering[r].ip, entering[r].stamp)]
    BY <1>5, RefusedWindow
  <2>2. windows'[i] = Swept(entering[r].stamp)[i] /\ recent'[i] = recent[i] /\ clock' = clock
        /\ entering[r] # NoArrival
    BY <1>5, <2>1, SweptIs DEF Refuse
  <2> QED
    BY <2>2, OthersBurst
<1>6. ASSUME NEW n \in Limits, ReloadLimit(n) PROVE UNCHANGED <<clock, windows, recent>>
  BY <1>6 DEF ReloadLimit
<1> QED
  BY <1>1, <1>2, <1>3, <1>4, <1>5, <1>6 DEF RateNext

\* No address gets more than two windows' worth through in a span, whatever the
\* interleaving of requests, sweeps and reloads.
THEOREM BurstsAreBounded == RateSpec => []BurstIsBounded
<1>1. RateInit => RateTypeOK /\ AgeInv /\ BurstInv
  BY InitType, InitAge, InitBurst
<1>2. RateTypeOK /\ AgeInv /\ BurstInv /\ [RateNext]_rateVars => (RateTypeOK /\ AgeInv /\ BurstInv)'
  BY NextType, NextAge, NextBurst
<1>3. RateTypeOK /\ BurstInv => BurstIsBounded
  <2> SUFFICES ASSUME RateTypeOK, BurstInv, NEW i \in Ips
               PROVE  \E m, n \in Limits : recent[i][Span] <= m + n
    BY DEF BurstIsBounded, Span
  <2>1. PICK m \in Limits : recent[i][Span] <= windows[i].count + m
    BY Constants DEF BurstInv, TwoWindows, Span
  <2>2. PICK n \in Limits : windows[i].count <= n
    <3>1. CASE windows[i] = NoWindow
      BY <3>1, NoWindowIs, Constants
    <3>2. CASE windows[i] # NoWindow
      BY <3>2 DEF RateTypeOK
    <3> QED
      BY <3>1, <3>2
  <2>3. m \in Nat /\ n \in Nat /\ windows[i].count \in Nat /\ recent[i][Span] \in Nat
    BY WindowIs, NoWindowIs, SpanIs, Constants DEF RateTypeOK
  <2> QED
    BY <2>1, <2>2, <2>3
<1> QED
  BY <1>1, <1>2, <1>3, PTL DEF RateSpec
=============================================================================
