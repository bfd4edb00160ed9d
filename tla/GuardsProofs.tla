---------------------------- MODULE GuardsProofs ----------------------------
(***************************************************************************)
(* The two guards of a candidate that the replicas share through Redis:    *)
(* the token bucket, for every cap, key lifetime, clock disagreement and   *)
(* number of calls, and the circuit breaker, for every fleet, window and   *)
(* threshold.                                                              *)
(***************************************************************************)
EXTENDS TokenBucket, Breaker, FiniteSetTheorems, TLAPS

-----------------------------------------------------------------------------
(* The token bucket: the fleet-wide bound on what it admits.               *)

\* What the steps need of the types, and of the times.
Types ==
    /\ now \in Nat /\ now <= MaxTime
    /\ rpm \in Nat \cup {Nil}
    /\ tpm \in Nat \cup {Nil}
    /\ last \in Nat \cup {Nil}
    /\ expires \in Nat \cup {Never}
    /\ start \in Nat /\ start <= now
    /\ calls \in Nat /\ calls <= MaxCalls
    /\ requests \in Nat
    /\ tokens \in Nat
    /\ rpm = Nil <=> tpm = Nil
    /\ rpm = Nil => last = Nil
    /\ last = Nil <=> expires = Never

\* When the script that last set the key's lifetime ran.
Used == expires - Ttl

\* That was in the past, and its reading of the time at most Spread ahead of it.
Timely ==
    expires # Never => /\ now < expires
                       /\ Used <= now
                       /\ last <= Used + Spread

\* What a window that began at start may admit until time t.
Allowed(cap, t) == cap * Minute + cap * (t - start) + cap * (Spread * calls)

\* What was admitted and what is there now are covered, and what was admitted
\* was so when it was admitted: a key that expires is full again for nothing.
Covered(level, cap, taken) == Minute * taken + Refill(level, cap, now) <= Allowed(cap, now)
Paid(cap, taken) ==
    expires # Never /\ taken # 0 =>
        start <= Used /\ Minute * taken <= Allowed(cap, Used)

IInv ==
    /\ Types
    /\ Timely
    /\ Covered(rpm, Rpm, requests) /\ Paid(Rpm, requests)
    /\ Covered(tpm, Tpm, tokens) /\ Paid(Tpm, tokens)

-----------------------------------------------------------------------------
LEMMA Products ==
    /\ \A a, b, c \in Int : c * (a + b) = c * a + c * b
    /\ \A a, b, c \in Int : c * (a - b) = c * a - c * b
    /\ \A a, b, c \in Nat : a <= b => c * a <= c * b
    /\ \A a, b \in Nat : a * b \in Nat
  OBVIOUS

\* The refilled level is between nothing and the cap, and grows by at most one
\* cap per millisecond.
LEMMA RefillFacts ==
    ASSUME Types, NEW cap \in Nat, NEW level \in Nat \cup {Nil}, NEW t \in Nat
    PROVE  /\ Elapsed(t) \in Nat
           /\ Refill(level, cap, t) \in Nat
           /\ Refill(level, cap, t) <= cap * Minute
           /\ level = Nil => Refill(level, cap, t) = cap * Minute
           /\ \A u, d \in Nat : u <= t + d =>
                  Refill(level, cap, u) <= Refill(level, cap, t) + cap * d
<1>1. \A u \in Nat : Elapsed(u) \in Nat
  BY DEF Elapsed, Types
<1> DEFINE full == cap * Minute
           base == IF level = Nil THEN full ELSE level
           Held(u) == base + cap * Elapsed(u)
<1>2. full \in Nat /\ base \in Nat
  BY Products, TimeAssumption
<1>3. \A u \in Nat : Refill(level, cap, u) = IF Held(u) > full THEN full ELSE Held(u)
  BY DEF Refill
<1>4. \A u \in Nat : cap * Elapsed(u) \in Nat
  BY <1>1, Products
<1>5. level = Nil => base = full
  OBVIOUS
<1> HIDE DEF base, full
<1>6. \A u \in Nat : Held(u) \in Nat /\ (level = Nil => Held(u) >= full)
  BY <1>2, <1>4, <1>5
<1>7. ASSUME NEW u \in Nat, NEW d \in Nat, u <= t + d
      PROVE  Held(u) <= Held(t) + cap * d
  <2>1. Elapsed(u) <= Elapsed(t) + d
    BY <1>7 DEF Elapsed, Types
  <2>2. cap * Elapsed(u) <= cap * (Elapsed(t) + d)
    BY <1>1, <2>1, Products
  <2>3. cap * (Elapsed(t) + d) = cap * Elapsed(t) + cap * d
    BY <1>1, Products
  <2>4. cap * d \in Nat
    BY Products
  <2> QED
    BY <1>2, <1>4, <2>2, <2>3, <2>4
<1> HIDE DEF Held
<1>8. ASSUME NEW u \in Nat, NEW d \in Nat, u <= t + d
      PROVE  Refill(level, cap, u) <= Refill(level, cap, t) + cap * d
  <2>1. PICK p \in Nat : p = cap * d
    BY Products
  <2>2. Held(u) <= Held(t) + p
    BY <1>7, <1>8, <2>1
  <2>3. Held(u) \in Nat /\ Held(t) \in Nat
    BY <1>6
  <2>4. Refill(level, cap, u) <= Refill(level, cap, t) + p
    BY <1>2, <1>3, <2>2, <2>3
  <2> QED
    BY <2>1, <2>4
<1> QED
  BY <1>1, <1>2, <1>3, <1>6, <1>8 DEF full

LEMMA AllowedFacts ==
    ASSUME Types, NEW cap \in Nat, NEW t \in Nat, start <= t
    PROVE  /\ Allowed(cap, t) \in Nat
           /\ Allowed(cap, t) >= cap * Minute
           /\ \A d \in Nat : Allowed(cap, t + d) = Allowed(cap, t) + cap * d
<1>1. t - start \in Nat /\ calls \in Nat /\ Spread \in Nat /\ Minute \in Nat
  BY TimeAssumption DEF Types
<1>2. cap * Minute \in Nat /\ cap * (t - start) \in Nat /\ cap * (Spread * calls) \in Nat
  BY <1>1, Products
<1>3. ASSUME NEW d \in Nat
      PROVE  Allowed(cap, t + d) = Allowed(cap, t) + cap * d
  <2>1. (t + d) - start = (t - start) + d
    BY DEF Types
  <2>2. cap * ((t - start) + d) = cap * (t - start) + cap * d
    BY <1>1, Products
  <2>3. cap * d \in Nat
    BY Products
  <2> QED
    BY <1>2, <2>1, <2>2, <2>3 DEF Allowed
<1> QED
  BY <1>2, <1>3 DEF Allowed

-----------------------------------------------------------------------------
LEMMA InitHolds == Init => IInv
<1> SUFFICES ASSUME Init PROVE IInv
  OBVIOUS
<1>1. Types /\ Timely
  BY TimeAssumption DEF Init, Types, Timely, Nil, Never
<1>2. ASSUME NEW cap \in Nat
      PROVE  Covered(Nil, cap, 0) /\ Paid(cap, 0)
  <2>1. Refill(Nil, cap, now) <= cap * Minute /\ Refill(Nil, cap, now) \in Nat
    BY <1>1, RefillFacts DEF Types
  <2>2. Allowed(cap, now) >= cap * Minute /\ Allowed(cap, now) \in Nat
    BY <1>1, AllowedFacts DEF Types
  <2>3. Minute * 0 = 0 /\ cap * Minute \in Nat
    BY Products, TimeAssumption
  <2> QED
    BY <2>1, <2>2, <2>3 DEF Covered, Paid
<1>3. rpm = Nil /\ tpm = Nil /\ requests = 0 /\ tokens = 0
  BY DEF Init
<1> QED
  BY <1>1, <1>2, <1>3, LimitAssumption DEF IInv

\* One field of the hash under RATELIMIT_LUA: what is left and what was taken are
\* covered once the call has paid for a reading that is Spread ahead.
LEMMA FieldAcquired ==
    ASSUME Types, NEW cap \in Nat, NEW level \in Nat \cup {Nil}, NEW t \in Reading,
           NEW taken \in Nat, NEW took \in Nat, NEW left \in Nat,
           left + Minute * took = Refill(level, cap, t), Covered(level, cap, taken)
    PROVE  /\ left <= cap * Minute
           /\ Minute * (taken + took) + left <= Allowed(cap, now) + cap * Spread
           /\ Minute * (taken + took) <= Allowed(cap, now) + cap * Spread
<1>1. now \in Nat /\ t \in Nat /\ now <= t /\ t <= now + Spread
  BY TimeAssumption DEF Types, Reading
<1>2. PICK full \in Nat : full = cap * Minute
  BY Products, TimeAssumption
<1>3. PICK more \in Nat : more = cap * Spread
  BY Products, TimeAssumption
<1>4. PICK x \in Nat : x = Minute * taken
  BY Products, TimeAssumption
<1>5. PICK y \in Nat : y = Minute * took
  BY Products, TimeAssumption
<1>6. Minute * (taken + took) = x + y
  BY <1>4, <1>5, Products, TimeAssumption
<1>7. PICK r \in Nat : r = Refill(level, cap, t) /\ r <= full /\ left + y = r
  BY <1>1, <1>2, <1>5, RefillFacts
<1>8. PICK p \in Nat : p = Refill(level, cap, now) /\ r <= p + more
  <2>1. Refill(level, cap, now) \in Nat
    BY <1>1, RefillFacts
  <2>2. Refill(level, cap, t) <= Refill(level, cap, now) + cap * Spread
    BY <1>1, RefillFacts, TimeAssumption
  <2> QED
    BY <1>3, <1>7, <2>1, <2>2
<1>9. PICK a \in Nat : a = Allowed(cap, now) /\ x + p <= a
  BY <1>1, <1>4, <1>8, AllowedFacts DEF Covered, Types
<1> QED
  BY <1>2, <1>3, <1>6, <1>7, <1>8, <1>9

\* A call more allows Spread milliseconds of refill more.
LEMMA CallAllows ==
    ASSUME Types, NEW cap \in Nat
    PROVE  cap * Minute + cap * (now - start) + cap * (Spread * (calls + 1))
               = Allowed(cap, now) + cap * Spread
<1>1. Spread * (calls + 1) = Spread * calls + Spread
  BY TimeAssumption DEF Types
<1>2. Spread * calls \in Nat /\ now - start \in Nat
  BY Products, TimeAssumption DEF Types
<1>3. cap * (Spread * calls + Spread) = cap * (Spread * calls) + cap * Spread
  BY <1>2, Products, TimeAssumption
<1>4. PICK u \in Nat : u = cap * (Spread * calls)
  BY <1>2, Products
<1>5. PICK v \in Nat : v = cap * (now - start)
  BY <1>2, Products
<1>6. PICK w \in Nat : w = cap * Spread
  BY Products, TimeAssumption
<1>7. PICK f \in Nat : f = cap * Minute
  BY Products, TimeAssumption
<1> QED
  BY <1>1, <1>3, <1>4, <1>5, <1>6, <1>7 DEF Allowed

LEMMA AcquireStep ==
    ASSUME IInv, NEW cost \in Nat, NEW t \in Reading, Acquire(cost, t)
    PROVE  IInv'
<1> DEFINE r == Refill(rpm, Rpm, t)
           k == Refill(tpm, Tpm, t)
           ok == r >= Minute /\ k >= cost * Minute
           took == IF ok THEN 1 ELSE 0
           tookTokens == IF ok THEN cost ELSE 0
<1>1. Types /\ Rpm \in Nat /\ Tpm \in Nat /\ t \in Nat /\ now <= t /\ Minute \in Nat
  BY LimitAssumption, TimeAssumption DEF IInv, Types, Reading
<1>2. rpm \in Nat \cup {Nil} /\ tpm \in Nat \cup {Nil} /\ requests \in Nat /\ tokens \in Nat
  BY DEF IInv, Types
<1>3. r \in Nat /\ k \in Nat
  BY <1>1, <1>2, RefillFacts
<1>4. /\ calls < MaxCalls /\ calls' = calls + 1 /\ now' = now /\ start' = start
      /\ last' = t /\ expires' = now + Ttl
      /\ rpm' = IF ok THEN r - Minute ELSE r
      /\ tpm' = IF ok THEN k - cost * Minute ELSE k
      /\ requests' = IF ok THEN requests + 1 ELSE requests
      /\ tokens' = IF ok THEN tokens + cost ELSE tokens
  BY DEF Acquire
<1>5. cost * Minute \in Nat /\ Minute * cost = cost * Minute /\ Minute * 1 = Minute /\ Minute * 0 = 0
  BY <1>1, Products
<1>6. /\ rpm' \in Nat /\ rpm' + Minute * took = r /\ requests' = requests + took /\ took \in Nat
      /\ tpm' \in Nat /\ tpm' + Minute * tookTokens = k /\ tokens' = tokens + tookTokens
      /\ tookTokens \in Nat
  <2> HIDE DEF r, k
  <2> QED
    BY <1>1, <1>2, <1>3, <1>4, <1>5
<1> HIDE DEF r, k, took, tookTokens
<1>7. Types'
  <2>1. now + Ttl \in Nat /\ calls + 1 \in Nat /\ calls + 1 <= MaxCalls
    BY <1>1, <1>4, TimeAssumption DEF Types
  <2> QED
    BY <1>1, <1>2, <1>4, <1>6, <2>1 DEF Types, Nil, Never
<1>8. Timely'
  BY <1>1, <1>4, TimeAssumption, TtlAssumption DEF Types, Timely, Used, Reading
<1>9. \A cap : Allowed(cap, now)' = cap * Minute + cap * (now - start) + cap * (Spread * (calls + 1))
  BY <1>4 DEF Allowed
<1>10. Used' = now /\ \A cap : Allowed(cap, Used)' = Allowed(cap, now)'
  <2>1. Used' = now
    BY <1>1, <1>4, TimeAssumption DEF Used, Types
  <2> QED
    BY <1>4, <2>1 DEF Allowed
<1>11. Elapsed(now)' = 0
  BY <1>1, <1>4 DEF Elapsed, Types
<1>12. Covered(rpm, Rpm, requests)' /\ Paid(Rpm, requests)'
  <2>1. /\ rpm' <= Rpm * Minute
        /\ Minute * requests' + rpm' <= Allowed(Rpm, now) + Rpm * Spread
        /\ Minute * requests' <= Allowed(Rpm, now) + Rpm * Spread
    BY <1>1, <1>2, <1>6, FieldAcquired DEF IInv, r
  <2>2. Allowed(Rpm, now)' = Allowed(Rpm, now) + Rpm * Spread
    BY <1>1, <1>9, CallAllows
  <2>3. Refill(rpm, Rpm, now)' = rpm'
    <3>1. Rpm * Minute \in Nat /\ Rpm * 0 = 0 /\ rpm' # Nil
      BY <1>1, <1>6, Products DEF Nil
    <3> QED
      BY <1>6, <1>11, <2>1, <3>1 DEF Refill
  <2> QED
    BY <1>1, <1>4, <1>10, <2>1, <2>2, <2>3 DEF Covered, Paid, Types
<1>13. Covered(tpm, Tpm, tokens)' /\ Paid(Tpm, tokens)'
  <2>1. /\ tpm' <= Tpm * Minute
        /\ Minute * tokens' + tpm' <= Allowed(Tpm, now) + Tpm * Spread
        /\ Minute * tokens' <= Allowed(Tpm, now) + Tpm * Spread
    BY <1>1, <1>2, <1>6, FieldAcquired DEF IInv, k
  <2>2. Allowed(Tpm, now)' = Allowed(Tpm, now) + Tpm * Spread
    BY <1>1, <1>9, CallAllows
  <2>3. Refill(tpm, Tpm, now)' = tpm'
    <3>1. Tpm * Minute \in Nat /\ Tpm * 0 = 0 /\ tpm' # Nil
      BY <1>1, <1>6, Products DEF Nil
    <3> QED
      BY <1>6, <1>11, <2>1, <3>1 DEF Refill
  <2> QED
    BY <1>1, <1>4, <1>10, <2>1, <2>2, <2>3 DEF Covered, Paid, Types
<1> QED
  BY <1>7, <1>8, <1>12, <1>13 DEF IInv

\* CLAMP_LUA never raises what a field is worth now.
LEMMA FieldClamped ==
    ASSUME Types, NEW cap \in Nat, NEW level \in Nat \cup {Nil}, NEW observed \in Nat,
           level = Nil => last = Nil
    PROVE  /\ Shrunk(level, observed) \in Nat
           /\ Refill(Shrunk(level, observed), cap, now) <= Refill(level, cap, now)
<1>1. PICK full \in Nat : full = cap * Minute
  BY Products, TimeAssumption
<1>2. PICK seen \in Nat : seen = observed * Minute
  BY Products, TimeAssumption
<1>3. PICK new \in Nat : new = Shrunk(level, observed) /\ (level # Nil => new <= level)
  BY <1>2 DEF Shrunk, Nil
<1>4. PICK gain \in Nat : gain = cap * Elapsed(now)
  <2>1. Elapsed(now) \in Nat
    BY DEF Elapsed, Types
  <2> QED
    BY <2>1, Products
<1>5. new # Nil
  BY DEF Nil
<1>6. Refill(new, cap, now) <= Refill(level, cap, now)
  BY <1>1, <1>3, <1>4, <1>5 DEF Refill
<1> QED
  BY <1>3, <1>6

LEMMA ClampStep == IInv /\ Clamp => IInv'
<1> SUFFICES ASSUME IInv, Clamp PROVE IInv'
  OBVIOUS
<1>1. PICK r \in Observed, k \in Observed : rpm' = Shrunk(rpm, r) /\ tpm' = Shrunk(tpm, k)
  BY DEF Clamp
<1>2. UNCHANGED <<now, last, expires, start, calls, requests, tokens>>
  BY DEF Clamp, window
<1>3. /\ Types /\ Rpm \in Nat /\ Tpm \in Nat /\ r \in Nat /\ k \in Nat
      /\ rpm \in Nat \cup {Nil} /\ tpm \in Nat \cup {Nil}
      /\ (rpm = Nil => last = Nil) /\ (tpm = Nil => last = Nil)
  BY LimitAssumption, InputAssumption DEF IInv, Types
<1>4. /\ rpm' \in Nat /\ Refill(rpm', Rpm, now) <= Refill(rpm, Rpm, now)
      /\ tpm' \in Nat /\ Refill(tpm', Tpm, now) <= Refill(tpm, Tpm, now)
  BY <1>1, <1>3, FieldClamped
<1>5. Types' /\ Timely'
  BY <1>2, <1>4 DEF IInv, Types, Timely, Used, Nil
<1>6. \A level, cap : Refill(level, cap, now)' = Refill(level, cap, now)
  BY <1>2 DEF Refill, Elapsed
<1>7. \A cap : Allowed(cap, now)' = Allowed(cap, now) /\ Allowed(cap, Used)' = Allowed(cap, Used)
  BY <1>2 DEF Allowed, Used
<1>8. Paid(Rpm, requests)' /\ Paid(Tpm, tokens)'
  BY <1>2, <1>7 DEF IInv, Paid, Used
<1>9. Covered(rpm, Rpm, requests)'
  <2>1. Refill(rpm, Rpm, now)' = Refill(rpm', Rpm, now)
    BY <1>2 DEF Refill, Elapsed
  <2>2. /\ Minute * requests \in Nat /\ Refill(rpm', Rpm, now) \in Nat
        /\ Refill(rpm, Rpm, now) \in Nat /\ Allowed(Rpm, now) \in Nat
    BY <1>3, <1>4, Products, RefillFacts, AllowedFacts, TimeAssumption DEF Types
  <2>3. Minute * requests + Refill(rpm, Rpm, now) <= Allowed(Rpm, now)
    BY DEF IInv, Covered
  <2>4. Minute * requests + Refill(rpm', Rpm, now) <= Allowed(Rpm, now)
    BY <1>4, <2>2, <2>3
  <2> QED
    BY <1>2, <1>7, <2>1, <2>4 DEF Covered
<1>10. Covered(tpm, Tpm, tokens)'
  <2>1. Refill(tpm, Tpm, now)' = Refill(tpm', Tpm, now)
    BY <1>2 DEF Refill, Elapsed
  <2>2. /\ Minute * tokens \in Nat /\ Refill(tpm', Tpm, now) \in Nat
        /\ Refill(tpm, Tpm, now) \in Nat /\ Allowed(Tpm, now) \in Nat
    BY <1>3, <1>4, Products, RefillFacts, AllowedFacts, TimeAssumption DEF Types
  <2>3. Minute * tokens + Refill(tpm, Tpm, now) <= Allowed(Tpm, now)
    BY DEF IInv, Covered
  <2>4. Minute * tokens + Refill(tpm', Tpm, now) <= Allowed(Tpm, now)
    BY <1>4, <2>2, <2>3
  <2> QED
    BY <1>2, <1>7, <2>1, <2>4 DEF Covered
<1> QED
  BY <1>5, <1>8, <1>9, <1>10 DEF IInv

\* One millisecond refills a cap, which the window allows.
LEMMA FieldTicks ==
    ASSUME Types, NEW cap \in Nat, NEW level \in Nat \cup {Nil}, NEW taken \in Nat,
           Covered(level, cap, taken)
    PROVE  Minute * taken + Refill(level, cap, now + 1) <= Allowed(cap, now + 1)
<1>1. cap * 1 = cap /\ now \in Nat /\ now + 1 \in Nat /\ start <= now
  BY DEF Types
<1>2. PICK x \in Nat : x = Minute * taken
  BY Products, TimeAssumption
<1>3. PICK p \in Nat : p = Refill(level, cap, now)
  BY <1>1, RefillFacts
<1>4. PICK q \in Nat : q = Refill(level, cap, now + 1)
  BY <1>1, RefillFacts
<1>5. PICK a \in Nat : a = Allowed(cap, now)
  BY <1>1, AllowedFacts
<1>6. q <= p + cap
  <2>1. \A u, d \in Nat :
            u <= now + d => Refill(level, cap, u) <= Refill(level, cap, now) + cap * d
    BY <1>1, RefillFacts, Zenon
  <2>2. now + 1 \in Nat /\ 1 \in Nat /\ now + 1 <= now + 1
    BY <1>1
  <2>3. Refill(level, cap, now + 1) <= Refill(level, cap, now) + cap * 1
    BY <2>1, <2>2, Zenon
  <2> QED
    BY <1>1, <1>3, <1>4, <2>3
<1>7. Allowed(cap, now + 1) = a + cap
  <2>1. Allowed(cap, now + 1) = Allowed(cap, now) + cap * 1
    BY <1>1, AllowedFacts
  <2> QED
    BY <1>1, <1>5, <2>1
<1>8. x + p <= a
  BY <1>2, <1>3, <1>5 DEF Covered
<1> QED
  BY <1>2, <1>4, <1>6, <1>7, <1>8

\* An expiry refills the bucket; in the Ttl since its last use the window has
\* allowed a full one.
LEMMA FieldExpires ==
    ASSUME Types, Timely, NEW cap \in Nat, NEW taken \in Nat, Paid(cap, taken),
           expires # Never, now + 1 >= expires
    PROVE  Minute * taken + cap * Minute <= Allowed(cap, now + 1)
<1>1. now \in Nat /\ now + 1 \in Nat /\ start <= now /\ start \in Nat
  BY DEF Types
<1>2. CASE taken = 0
  <2>1. Allowed(cap, now + 1) >= cap * Minute /\ Allowed(cap, now + 1) \in Nat
    BY <1>1, AllowedFacts
  <2>2. Minute * 0 = 0 /\ cap * Minute \in Nat
    BY Products, TimeAssumption
  <2> QED
    BY <1>2, <2>1, <2>2
<1>3. CASE taken # 0
  <2>1. start <= Used /\ Minute * taken <= Allowed(cap, Used)
    BY <1>3 DEF Paid
  <2>2. Used \in Nat /\ now + 1 >= Used + Minute
    BY <1>1, <2>1, TimeAssumption, TtlAssumption DEF Used, Types
  <2>3. PICK d \in Nat : now + 1 = Used + d /\ Minute <= d
    <3>1. (now + 1) - Used \in Nat
      BY <1>1, <2>2, TimeAssumption
    <3> QED
      BY <1>1, <2>2, <3>1, TimeAssumption
  <2>4. Allowed(cap, now + 1) = Allowed(cap, Used) + cap * d
    <3>1. \A c \in Nat : Allowed(cap, Used + c) = Allowed(cap, Used) + cap * c
      BY <2>1, <2>2, AllowedFacts, Zenon
    <3>2. Allowed(cap, Used + d) = Allowed(cap, Used) + cap * d
      BY <3>1, Zenon
    <3> QED
      BY <2>3, <3>2, Zenon
  <2>5. cap * Minute <= cap * d
    BY <2>3, Products, TimeAssumption
  <2>6. Allowed(cap, Used) \in Nat /\ cap * Minute \in Nat /\ cap * d \in Nat /\ Minute * taken \in Nat
    BY <2>1, <2>2, <2>3, Products, AllowedFacts, TimeAssumption
  <2> QED
    BY <2>1, <2>4, <2>5, <2>6
<1> QED
  BY <1>2, <1>3

LEMMA TickStep == IInv /\ Tick => IInv'
<1> SUFFICES ASSUME IInv, Tick PROVE IInv'
  OBVIOUS
<1>1. /\ now < MaxTime /\ now' = now + 1
      /\ UNCHANGED <<start, calls, requests, tokens>>
  BY DEF Tick, window
<1>2. /\ Types /\ Timely /\ Rpm \in Nat /\ Tpm \in Nat /\ now \in Nat
      /\ rpm \in Nat \cup {Nil} /\ tpm \in Nat \cup {Nil}
      /\ requests \in Nat /\ tokens \in Nat
  BY LimitAssumption DEF IInv, Types
<1>3. \A cap, t : Allowed(cap, t)' = Allowed(cap, t')
  BY <1>1 DEF Allowed
<1>4. \A cap : Allowed(cap, now)' = Allowed(cap, now + 1)
  BY <1>1 DEF Allowed
<1>5. CASE expires # Never /\ now + 1 >= expires
  <2>1. rpm' = Nil /\ tpm' = Nil /\ last' = Nil /\ expires' = Never
    BY <1>5 DEF Tick
  <2>2. Types' /\ Timely'
    BY <1>1, <1>2, <2>1, TimeAssumption DEF Types, Timely, Used, Nil, Never
  <2>3. Paid(Rpm, requests)' /\ Paid(Tpm, tokens)'
    BY <2>1 DEF Paid
  <2>4. \A cap \in Nat : Refill(Nil, cap, now)' = cap * Minute
    <3> SUFFICES ASSUME NEW cap \in Nat PROVE Refill(Nil, cap, now)' = cap * Minute
      OBVIOUS
    <3>1. Elapsed(now)' = 0
      BY <2>1 DEF Elapsed
    <3>2. cap * Minute \in Nat /\ cap * 0 = 0
      BY Products, TimeAssumption
    <3> QED
      BY <3>1, <3>2 DEF Refill
  <2>5. /\ Minute * requests + Rpm * Minute <= Allowed(Rpm, now + 1)
        /\ Minute * tokens + Tpm * Minute <= Allowed(Tpm, now + 1)
    BY <1>2, <1>5, FieldExpires DEF IInv
  <2>6. Refill(rpm, Rpm, now)' = Rpm * Minute /\ Refill(tpm, Tpm, now)' = Tpm * Minute
    BY <1>2, <2>1, <2>4 DEF Refill
  <2>7. Covered(rpm, Rpm, requests)' /\ Covered(tpm, Tpm, tokens)'
    BY <1>1, <1>4, <2>5, <2>6 DEF Covered
  <2> QED
    BY <2>2, <2>3, <2>7 DEF IInv
<1>6. CASE ~(expires # Never /\ now + 1 >= expires)
  <2>1. UNCHANGED <<rpm, tpm, last, expires>>
    BY <1>6 DEF Tick, hash
  <2>2. Types' /\ Timely'
    BY <1>1, <1>2, <1>6, <2>1, TimeAssumption DEF Types, Timely, Used
  <2>3. Paid(Rpm, requests)' /\ Paid(Tpm, tokens)'
    BY <1>1, <2>1 DEF IInv, Paid, Used, Allowed
  <2>4. /\ Minute * requests + Refill(rpm, Rpm, now + 1) <= Allowed(Rpm, now + 1)
        /\ Minute * tokens + Refill(tpm, Tpm, now + 1) <= Allowed(Tpm, now + 1)
    BY <1>2, FieldTicks DEF IInv
  <2>5. /\ Refill(rpm, Rpm, now)' = Refill(rpm, Rpm, now + 1)
        /\ Refill(tpm, Tpm, now)' = Refill(tpm, Tpm, now + 1)
    BY <1>1, <2>1 DEF Refill, Elapsed
  <2>6. Covered(rpm, Rpm, requests)' /\ Covered(tpm, Tpm, tokens)'
    BY <1>1, <1>4, <2>4, <2>5 DEF Covered
  <2> QED
    BY <2>2, <2>3, <2>6 DEF IInv
<1> QED
  BY <1>5, <1>6

\* A bucket never holds more than its cap, so any moment may begin a window.
LEMMA OpenWindowStep == IInv /\ OpenWindow => IInv'
<1> SUFFICES ASSUME IInv, OpenWindow PROVE IInv'
  OBVIOUS
<1>1. /\ start' = now /\ calls' = 0 /\ requests' = 0 /\ tokens' = 0
      /\ UNCHANGED <<now, rpm, tpm, last, expires>>
  BY DEF OpenWindow, hash
<1>2. Types' /\ Timely'
  BY <1>1, TimeAssumption DEF IInv, Types, Timely, Used
<1>3. Paid(Rpm, requests)' /\ Paid(Tpm, tokens)'
  BY <1>1 DEF Paid
<1>4. ASSUME NEW cap \in Nat, NEW level \in Nat \cup {Nil}
      PROVE  Minute * 0 + Refill(level, cap, now) <= cap * Minute + cap * (now - now) + cap * (Spread * 0)
  <2>1. Refill(level, cap, now) \in Nat /\ Refill(level, cap, now) <= cap * Minute
    BY RefillFacts DEF IInv, Types
  <2>2. /\ Minute * 0 = 0 /\ now - now = 0 /\ cap * 0 = 0 /\ Spread * 0 = 0
        /\ cap * Minute \in Nat
    BY Products, TimeAssumption DEF IInv, Types
  <2> QED
    BY <2>1, <2>2
<1>5. /\ Refill(rpm, Rpm, now)' = Refill(rpm, Rpm, now)
      /\ Refill(tpm, Tpm, now)' = Refill(tpm, Tpm, now)
  BY <1>1 DEF Refill, Elapsed
<1>6. \A cap : Allowed(cap, now)' = cap * Minute + cap * (now - now) + cap * (Spread * 0)
  BY <1>1 DEF Allowed
<1>7. Covered(rpm, Rpm, requests)' /\ Covered(tpm, Tpm, tokens)'
  BY <1>1, <1>4, <1>5, <1>6, LimitAssumption DEF Covered, IInv, Types
<1> QED
  BY <1>2, <1>3, <1>7 DEF IInv

LEMMA Step == IInv /\ [Next]_vars => IInv'
<1> SUFFICES ASSUME IInv, [Next]_vars PROVE IInv'
  OBVIOUS
<1>1. CASE TryAcquire
  BY <1>1, AcquireStep, InputAssumption DEF TryAcquire
<1>2. CASE Remaining
  BY <1>2, AcquireStep DEF Remaining
<1>3. CASE UNCHANGED vars
  <2>1. UNCHANGED <<now, rpm, tpm, last, expires, start, calls, requests, tokens>>
    BY <1>3 DEF vars, hash, window
  <2> QED
    BY <2>1 DEF IInv, Types, Timely, Used, Covered, Paid, Refill, Elapsed, Allowed
<1> QED
  BY <1>1, <1>2, <1>3, ClampStep, TickStep, OpenWindowStep DEF Next

LEMMA Inductive == Spec => []IInv
  BY InitHolds, Step, PTL DEF Spec

-----------------------------------------------------------------------------
\* Type correctness: no level is ever negative, a key that a script created has
\* an expiry, and one that only a clamp created has none.
THEOREM TypeCorrect == Spec => []TypeOK
<1>1. IInv => TypeOK
  BY TimeAssumption DEF IInv, Types, TypeOK
<1> QED
  BY <1>1, Inductive, PTL

\* The fleet-wide rate limit: in any window of time the replicas together are
\* admitted the cap and the window's refill at most, and Spread milliseconds of
\* refill for each call, for every cap, every clock and across key expiries.
THEOREM OverageIsBounded == Spec => []OverageBounded
<1>1. ASSUME Types, NEW cap \in Nat, NEW level \in Nat \cup {Nil}, NEW taken \in Nat,
             Covered(level, cap, taken)
      PROVE  Minute * taken <= Bound(cap)
  <2>1. Refill(level, cap, now) \in Nat
    BY <1>1, RefillFacts DEF Types
  <2>2. Minute * taken \in Nat /\ Allowed(cap, now) \in Nat
    BY <1>1, Products, AllowedFacts, TimeAssumption DEF Types
  <2>3. Bound(cap) = Allowed(cap, now)
    BY DEF Bound, Allowed
  <2> QED
    BY <1>1, <2>1, <2>2, <2>3 DEF Covered
<1>2. IInv => OverageBounded
  BY <1>1, LimitAssumption DEF IInv, Types, OverageBounded
<1> QED
  BY <1>2, Inductive, PTL

\* When Redis drops a key its bucket would be full: PEXPIRE loses nothing.
THEOREM NothingForgotten == Spec => ExpiryForgetsNothing
<1>1. ASSUME IInv, Next, rpm # Nil, rpm' = Nil
      PROVE  /\ Refill(rpm, Rpm, now' + Spread) = Rpm * Minute
             /\ Refill(tpm, Tpm, now' + Spread) = Tpm * Minute
  <2>1. Types /\ Timely
    BY <1>1 DEF IInv
  <2>2. Tick
    <3>1. ASSUME NEW cost \in Nat, NEW t \in Reading, Acquire(cost, t)
          PROVE  FALSE
      <4>0. t \in Nat /\ Rpm \in Nat /\ rpm \in Nat \cup {Nil}
        BY <2>1, LimitAssumption, TimeAssumption DEF Types, Reading
      <4>1. PICK r \in Nat : r = Refill(rpm, Rpm, t)
        BY <2>1, <4>0, RefillFacts
      <4> QED
        BY <1>1, <3>1, <4>1, TimeAssumption DEF Acquire, Nil
    <3>2. ~Clamp
      <4> SUFFICES ASSUME Clamp PROVE FALSE
        OBVIOUS
      <4>1. PICK r \in Observed : rpm' = Shrunk(rpm, r)
        BY DEF Clamp
      <4>2. r * Minute \in Nat
        BY Products, TimeAssumption, InputAssumption
      <4> QED
        BY <1>1, <4>1, <4>2 DEF Shrunk, Nil
    <3>3. ~OpenWindow
      BY <1>1 DEF OpenWindow, hash
    <3> QED
      BY <1>1, <3>1, <3>2, <3>3, InputAssumption DEF Next, TryAcquire, Remaining
  <2>3. expires # Never /\ now + 1 >= expires /\ now' = now + 1
    BY <1>1, <2>2 DEF Tick, hash
  <2>4. PICK e \in Nat : e = Elapsed(now' + Spread) /\ e >= Minute
    <3>1. last \in Nat /\ expires \in Nat /\ now \in Nat
      BY <2>1, <2>3 DEF Types
    <3>2. last <= (expires - Ttl) + Spread
      BY <2>1, <2>3 DEF Timely, Used
    <3>3. (now' + Spread) - last >= Ttl
      BY <2>3, <3>1, <3>2, TimeAssumption
    <3>4. (now' + Spread) - last \in Nat /\ (now' + Spread) - last >= Minute
      BY <2>3, <3>1, <3>3, TimeAssumption, TtlAssumption
    <3>5. last # Nil /\ ~(now' + Spread < last)
      BY <2>3, <3>1, <3>4, TimeAssumption DEF Nil
    <3>6. Elapsed(now' + Spread) = (now' + Spread) - last
      BY <3>5 DEF Elapsed
    <3> QED
      BY <3>4, <3>6
  <2>5. ASSUME NEW cap \in Nat, NEW level \in Nat \cup {Nil}
        PROVE  Refill(level, cap, now' + Spread) = cap * Minute
    <3>1. cap * Minute <= cap * e
      BY <2>4, Products, TimeAssumption
    <3>2. PICK full \in Nat : full = cap * Minute
      BY Products, TimeAssumption
    <3>3. PICK gain \in Nat : gain = cap * Elapsed(now' + Spread) /\ full <= gain
      BY <2>4, <3>1, <3>2, Products
    <3> QED
      BY <3>2, <3>3 DEF Refill
  <2> QED
    BY <2>1, <2>5, LimitAssumption DEF Types
<1> QED
  BY <1>1, Inductive, PTL DEF Spec, ExpiryForgetsNothing

-----------------------------------------------------------------------------
(* The circuit breaker.                                                    *)

LEMMA TotalNat ==
    ASSUME NEW S, IsFiniteSet(S), NEW f, \A s \in S : f[s] \in Nat
    PROVE  IsFiniteSet(UnitsOf(f, S)) /\ TotalOf(f, S) \in Nat
<1> DEFINE Of(s) == {s} \X (1 .. f[s])
           T == {Of(s) : s \in S}
           of == [s \in S |-> Of(s)]
<1>1. \A s \in S : IsFiniteSet(Of(s))
  <2> TAKE s \in S
  <2>1. IsFiniteSet({s})
    BY FS_Singleton
  <2>2. IsFiniteSet(1 .. f[s])
    BY FS_Interval
  <2> QED
    BY <2>1, <2>2, FS_Product
<1>2. UnitsOf(f, S) = UNION T
  BY DEF UnitsOf
<1>3. of \in Surjection(S, T)
  BY DEF Surjection
<1>4. \A u \in T : IsFiniteSet(u)
  BY <1>1
<1> HIDE DEF T, of
<1>5. IsFiniteSet(T)
  BY <1>3, FS_Surjection
<1>6. IsFiniteSet(UNION T)
  BY <1>4, <1>5, FS_UNION
<1> QED
  BY <1>2, <1>6, FS_CardinalityType DEF TotalOf

LEMMA TotalMonotonic ==
    ASSUME NEW S, NEW T, IsFiniteSet(T), S \subseteq T, NEW f, NEW g,
           \A s \in T : g[s] \in Nat, \A s \in S : f[s] \in Nat /\ f[s] <= g[s]
    PROVE  TotalOf(f, S) <= TotalOf(g, T)
<1>1. ASSUME NEW u \in UnitsOf(f, S)
      PROVE  u \in UnitsOf(g, T)
  <2>1. PICK s \in S : u \in {s} \X (1 .. f[s])
    BY DEF UnitsOf
  <2>2. s \in T /\ 1 .. f[s] \subseteq 1 .. g[s]
    OBVIOUS
  <2>3. u \in {s} \X (1 .. g[s])
    BY <2>1, <2>2
  <2> QED
    BY <2>2, <2>3 DEF UnitsOf
<1>2. IsFiniteSet(UnitsOf(g, T))
  BY TotalNat
<1> QED
  BY <1>1, <1>2, FS_Subset DEF TotalOf

LEMMA TotalSame ==
    ASSUME NEW S, NEW f, NEW g, \A s \in S : f[s] = g[s]
    PROVE  TotalOf(f, S) = TotalOf(g, S)
<1>1. UnitsOf(f, S) = UnitsOf(g, S)
  BY DEF UnitsOf
<1> QED
  BY <1>1 DEF TotalOf

BreakerTyping ==
    /\ clock \in Nat /\ Window <= clock /\ clock <= MaxClock
    /\ successes \in [Second -> Nat]
    /\ failures \in [Second -> Nat]
    /\ expire_at \in [Second -> Nat \cup {Unset}]
    /\ probe \in Nat \cup {Unset}
    /\ sending \in [Task -> Sample \cup {NoSample}]
    /\ entry \in [Replica -> Entry \cup {NoEntry}]
    /\ pc \in [Replica -> {"idle", "scan", "window", "probe"}]
    /\ read_at \in [Replica -> Nat]
    /\ broken \in Nat /\ broken <= MaxFailures
    /\ recorded \in Nat /\ recorded <= MaxSamples
    /\ log \in [Kind -> [Second -> Nat]]
    /\ writers \in [Second -> SUBSET Replica]
    /\ fresh \in [Replica -> [Kind -> Nat]]

\* A refresh has read the clock, and a half-open breaker was open for long enough.
Dated ==
    \A r \in Replica :
        /\ read_at[r] <= Clock(r)
        /\ pc[r] = "probe" => entry[r].state = "half_open"
        /\ entry[r].state = "half_open" =>
              entry[r].half_opened_at - entry[r].opened_at >= OpenDuration

\* The last time, on its own clock, at which a refresh reads the hash of second s.
ReadUntil(s) == s * TicksPerSecond + TicksPerSecond + Window + MaxRefresh
Trusted(r, s) == \A p \in writers[s] : ~Ahead(p, r)

\* A sample is sent after its second has begun on the clock of its replica, and a
\* hash expires a lifetime after that, on the clock of one of its writers.
InItsSecond(t) ==
    sending[t] # NoSample =>
        /\ sending[t].second * TicksPerSecond <= clock + Offset[sending[t].by]
        /\ sending[t].step = "expire" => sending[t].by \in writers[sending[t].second]
Stamped == \A t \in Task : InItsSecond(t)
Lasting ==
    \A s \in Second : expire_at[s] # Unset =>
        \E p \in writers[s] : s * TicksPerSecond + SampleTtl <= expire_at[s] + Offset[p]

\* So the hash of a second is what was recorded under it, for as long as r may
\* read it, if all its writers are near enough to r; it is never more.
Counted ==
    /\ \A s \in Second : /\ successes[s] <= log["success"][s]
                         /\ failures[s] <= log["failure"][s]
    /\ \A r \in Replica, s \in Second : Trusted(r, s) /\ Clock(r) < ReadUntil(s) =>
          successes[s] = log["success"][s] /\ failures[s] = log["failure"][s]
Prompt ==
    \A r \in Replica : pc[r] # "idle" =>
        Window <= read_at[r] /\ read_at[r] <= Clock(r) /\ Clock(r) <= read_at[r] + MaxRefresh

Kept == Stamped /\ Lasting /\ Counted /\ Prompt
BreakerInv == BreakerTyping /\ Dated

-----------------------------------------------------------------------------
LEMMA BreakerConstants ==
    /\ \A r \in Replica : Offset[r] \in Nat
    /\ TicksPerSecond \in Nat /\ TicksPerSecond > 0
    /\ Window \in Nat /\ OpenDuration \in Nat /\ OpenDuration > 0
    /\ SampleTtl \in Nat /\ ProbeTtl \in Nat /\ MaxRefresh \in Nat
    /\ SampleTtl >= Window + TicksPerSecond + MaxRefresh
    /\ MaxClock \in Nat /\ Window <= MaxClock /\ MaxSecond \in Nat
    /\ Second \subseteq Nat
  BY ClockAssumption DEF ClockAssumption, Second

LEMMA Readers == Reader \subseteq Replica
  BY ClockAssumption DEF ClockAssumption

\* Whole seconds: division rounds down, and keeps the order of times.
LEMMA Divisions ==
    ASSUME NEW d \in Nat, d > 0, NEW t \in Nat
    PROVE  /\ t \div d \in Nat
           /\ (t \div d) * d <= t /\ t < (t \div d) * d + d
  OBVIOUS

LEMMA Multiples ==
    ASSUME NEW d \in Nat, d > 0, NEW m \in Nat, NEW n \in Nat
    PROVE  /\ m <= n => m * d <= n * d
           /\ m < n => m * d + d <= n * d
           /\ m * d \in Nat
           /\ m * d < n * d + d => m <= n
  OBVIOUS

LEMMA EpochFacts ==
    ASSUME NEW t \in Nat
    PROVE  /\ Epoch(t) \in Nat
           /\ Epoch(t) * TicksPerSecond <= t
           /\ t < Epoch(t) * TicksPerSecond + TicksPerSecond
           /\ \A u \in Nat : u <= t => Epoch(u) <= Epoch(t)
           /\ \A s \in Nat : s * TicksPerSecond <= t => s <= Epoch(t)
           /\ \A s \in Nat : t < s * TicksPerSecond + TicksPerSecond => Epoch(t) <= s
<1> DEFINE d == TicksPerSecond
<1>1. d \in Nat /\ d > 0
  BY BreakerConstants
<1> HIDE DEF d
<1>2. \A u \in Nat : /\ u \div d \in Nat /\ (u \div d) * d <= u /\ u < (u \div d) * d + d
  BY <1>1, Divisions
<1>3. \A m, n \in Nat : m * d < n * d + d => m <= n
  BY <1>1, Multiples
<1>4. \A m \in Nat : m * d \in Nat
  BY <1>1, Multiples
<1>5. \A u \in Nat : u <= t => u \div d <= t \div d
  <2> TAKE u \in Nat
  <2> HAVE u <= t
  <2>1. (u \div d) * d < (t \div d) * d + d
    BY <1>1, <1>2, <1>4
  <2> QED
    BY <1>2, <1>3, <2>1
<1>6. \A s \in Nat : s * d <= t => s <= t \div d
  <2> TAKE s \in Nat
  <2> HAVE s * d <= t
  <2>1. s * d < (t \div d) * d + d
    BY <1>1, <1>2, <1>4
  <2> QED
    BY <1>2, <1>3, <2>1
<1>7. \A s \in Nat : t < s * d + d => t \div d <= s
  <2> TAKE s \in Nat
  <2> HAVE t < s * d + d
  <2>1. (t \div d) * d < s * d + d
    BY <1>1, <1>2, <1>4
  <2> QED
    BY <1>2, <1>3, <2>1
<1> QED
  BY <1>2, <1>5, <1>6, <1>7 DEF Epoch, d

\* The seconds of the times of an interval are an interval.
LEMMA EpochsOf ==
    ASSUME NEW a \in Nat, NEW b \in Nat, a <= b
    PROVE  {Epoch(t) : t \in a .. b} = Epoch(a) .. Epoch(b)
<1>1. ASSUME NEW t \in a .. b
      PROVE  Epoch(t) \in Epoch(a) .. Epoch(b)
  <2>1. t \in Nat /\ a <= t /\ t <= b
    OBVIOUS
  <2>2. Epoch(a) <= Epoch(t)
    BY <2>1, EpochFacts
  <2>3. Epoch(t) <= Epoch(b)
    BY <2>1, EpochFacts
  <2> QED
    BY <2>1, <2>2, <2>3, EpochFacts
<1>2. ASSUME NEW s \in Epoch(a) .. Epoch(b)
      PROVE  \E t \in a .. b : Epoch(t) = s
  <2>1. Epoch(a) \in Nat /\ Epoch(b) \in Nat /\ s \in Nat
    BY EpochFacts
  <2>2. CASE s = Epoch(a)
    BY <2>2
  <2>3. CASE s # Epoch(a)
    <3> DEFINE t == s * TicksPerSecond
    <3>1. t \in Nat /\ Epoch(b) * TicksPerSecond \in Nat
      BY <2>1, BreakerConstants, Multiples
    <3>2. t <= Epoch(b) * TicksPerSecond /\ Epoch(b) * TicksPerSecond <= b
      <4>1. s <= Epoch(b) /\ TicksPerSecond \in Nat /\ TicksPerSecond > 0
        BY <1>2, <2>1, BreakerConstants
      <4>2. t <= Epoch(b) * TicksPerSecond
        BY <2>1, <4>1, Multiples
      <4>3. Epoch(b) * TicksPerSecond <= b
        BY EpochFacts
      <4> QED
        BY <4>2, <4>3
    <3>3. ~(t <= a)
      <4>1. t <= a => s <= Epoch(a)
        BY <2>1, EpochFacts
      <4>2. Epoch(a) <= s
        BY <1>2, <2>1
      <4> QED
        BY <2>1, <2>3, <4>1, <4>2
    <3>4. t < s * TicksPerSecond + TicksPerSecond /\ s * TicksPerSecond <= t
      BY <3>1, BreakerConstants
    <3> HIDE DEF t
    <3>5. Epoch(t) \in Nat /\ Epoch(t) <= s /\ s <= Epoch(t)
      BY <2>1, <3>1, <3>4, EpochFacts
    <3>6. Epoch(t) = s
      BY <2>1, <3>5
    <3> QED
      BY <3>1, <3>2, <3>3, <3>6
  <2> QED
    BY <2>2, <2>3
<1> QED
  BY <1>1, <1>2

\* A sample is recorded under a second that the model has.
LEMMA ClockFacts ==
    ASSUME BreakerTyping, NEW r \in Replica
    PROVE  /\ Clock(r) \in Nat /\ clock <= Clock(r)
           /\ Epoch(Clock(r)) \in Second /\ Epoch(clock) \in Second
<1>1. /\ clock \in Nat /\ clock <= MaxClock /\ Offset[r] \in Nat /\ MaxClock \in Nat
      /\ MaxSecond \in Nat
  BY BreakerConstants DEF BreakerTyping
<1>2. Epoch(MaxClock + Offset[r]) <= MaxSecond
  BY ClockAssumption DEF ClockAssumption, Epoch
<1>3. /\ Epoch(Clock(r)) <= Epoch(MaxClock + Offset[r]) /\ Epoch(clock) <= Epoch(MaxClock + Offset[r])
      /\ Epoch(Clock(r)) \in Nat /\ Epoch(clock) \in Nat /\ Epoch(MaxClock + Offset[r]) \in Nat
  <2>1. /\ Clock(r) = clock + Offset[r] /\ MaxClock + Offset[r] \in Nat /\ Clock(r) \in Nat
        /\ Clock(r) <= MaxClock + Offset[r] /\ clock <= MaxClock + Offset[r]
    BY <1>1 DEF Clock
  <2> QED
    BY <1>1, <2>1, EpochFacts
<1> QED
  BY <1>1, <1>2, <1>3 DEF Second, Clock
-----------------------------------------------------------------------------
LEMMA BreakerInitHolds == ASSUME BreakerInit PROVE BreakerInv /\ Kept
<1> USE DEF BreakerInit
<1>1. BreakerTyping
  <2>1. /\ Window \in Nat /\ Window <= MaxClock /\ MaxFailures \in Nat /\ MaxSamples \in Nat
    BY BreakerConstants, BoundAssumption DEF BoundAssumption
  <2> QED
    BY <2>1 DEF BreakerTyping
<1>2. Dated
  <2>1. \A r \in Replica : entry[r].state = "absent" /\ read_at[r] = 0 /\ pc[r] = "idle"
    BY DEF NoEntry
  <2>2. \A r \in Replica : 0 <= Clock(r)
    BY <1>1, BreakerConstants DEF Clock, BreakerTyping
  <2> QED
    BY <2>1, <2>2 DEF Dated
<1>3. Stamped /\ Lasting /\ Prompt
  BY DEF Stamped, InItsSecond, Lasting, Prompt
<1>4. Counted
  <2>1. \A s \in Second : /\ successes[s] = 0 /\ failures[s] = 0
                          /\ log["success"][s] = 0 /\ log["failure"][s] = 0
    BY DEF Kind
  <2> QED
    BY <2>1 DEF Counted
<1> QED
  BY <1>1, <1>2, <1>3, <1>4 DEF BreakerInv, Kept

\* The sample whose pipeline task t is sending.
LEMMA SampleFacts ==
    ASSUME BreakerTyping, NEW t \in Task, sending[t].step \in {"hincrby", "expire"}
    PROVE  /\ sending[t] # NoSample /\ sending[t] \in Sample
           /\ sending[t].second \in Second /\ sending[t].kind \in Kind
           /\ sending[t].by \in Replica
  BY DEF BreakerTyping, Sample, NoSample

\* What HINCRBY changes.
CountsUp(t, x, kind) ==
    /\ x = sending[t].second /\ kind = sending[t].kind
    /\ \/ /\ kind = "success" /\ failures' = failures
          /\ successes' = [successes EXCEPT ![x] = successes[x] + 1]
       \/ /\ kind = "failure" /\ successes' = successes
          /\ failures' = [failures EXCEPT ![x] = failures[x] + 1]
    /\ log' = [log EXCEPT ![kind] = [log[kind] EXCEPT ![x] = log[kind][x] + 1]]
    /\ writers' = [writers EXCEPT ![x] = writers[x] \cup {sending[t].by}]
    /\ sending' = [sending EXCEPT ![t] = [sending[t] EXCEPT !.step = "expire"]]
    /\ [sending[t] EXCEPT !.step = "expire"] \in Sample
    /\ UNCHANGED <<clock, expire_at, probe, entry, pc, read_at, broken, recorded>>

LEMMA IncrementFacts ==
    ASSUME BreakerTyping, NEW t \in Task, Increments(t)
    PROVE  \E x \in Second, kind \in Kind : CountsUp(t, x, kind)
<1>1. /\ sending[t] \in Sample /\ sending[t].second \in Second /\ sending[t].kind \in Kind
  BY SampleFacts DEF Increments
<1>2. [sending[t] EXCEPT !.step = "expire"] \in Sample
  BY <1>1 DEF Sample
<1>3. sending[t].kind = "success" \/ sending[t].kind = "failure"
  BY <1>1 DEF Kind
<1> QED
  BY <1>1, <1>2, <1>3 DEF Increments, refresh, CountsUp

LEMMA IncrementTypes ==
    ASSUME BreakerTyping, NEW t \in Task, Increments(t)
    PROVE  BreakerTyping'
<1>1. PICK x \in Second, kind \in Kind : CountsUp(t, x, kind)
  BY IncrementFacts
<1> USE DEF CountsUp
<1>2. successes' \in [Second -> Nat] /\ failures' \in [Second -> Nat]
  BY <1>1 DEF BreakerTyping
<1>3. log' \in [Kind -> [Second -> Nat]]
  <2>1. log[kind] \in [Second -> Nat] /\ log \in [Kind -> [Second -> Nat]]
    BY DEF BreakerTyping
  <2>2. [log[kind] EXCEPT ![x] = log[kind][x] + 1] \in [Second -> Nat]
    BY <2>1
  <2> HIDE DEF Kind
  <2> QED
    BY <1>1, <2>1, <2>2
<1>4. fresh' \in [Replica -> [Kind -> Nat]]
  <2>1. \A q \in Replica : [fresh[q] EXCEPT ![kind] = fresh[q][kind] + 1] \in [Kind -> Nat]
    BY DEF BreakerTyping
  <2>2. fresh' = [q \in Replica |-> [fresh[q] EXCEPT ![kind] = fresh[q][kind] + 1]]
    BY <1>1 DEF Increments
  <2> HIDE DEF Kind
  <2> QED
    BY <2>1, <2>2
<1>5. writers' \in [Second -> SUBSET Replica]
  <2>1. sending[t].by \in Replica
    BY SampleFacts DEF Increments
  <2> QED
    BY <1>1, <2>1 DEF BreakerTyping
<1>6. sending' \in [Task -> Sample \cup {NoSample}]
  BY <1>1 DEF BreakerTyping
<1> QED
  BY <1>1, <1>2, <1>3, <1>4, <1>5, <1>6 DEF BreakerTyping

\* The entry a refresh ends with.
LEMMA NextEntry ==
    ASSUME NEW e \in Entry \cup {NoEntry}, NEW t \in Nat
    PROVE  /\ AfterOpenDuration(e, t) \in Entry \cup {NoEntry}
           /\ \A s, f : AfterWindow(e, t, s, f) \in Entry \cup {NoEntry}
           /\ \A s, f : AfterProbe(e, t, s, f) \in Entry \cup {NoEntry}
<1>1. [state |-> "open", opened_at |-> t, half_opened_at |-> 0] \in Entry /\ Closed \in Entry
  BY DEF Entry, Closed
<1>2. AfterOpenDuration(e, t) \in Entry \cup {NoEntry}
  <2>1. CASE e.state = "open"
    <3>1. e \in Entry
      BY <2>1 DEF NoEntry
    <3>2. [e EXCEPT !.state = "half_open", !.half_opened_at = t] \in Entry
      BY <3>1 DEF Entry
    <3> QED
      BY <3>1, <3>2 DEF AfterOpenDuration
  <2>2. CASE e.state # "open"
    BY <2>2 DEF AfterOpenDuration
  <2> QED
    BY <2>1, <2>2
<1> HIDE DEF Entry, NoEntry, Closed
<1>3. \A s, f : AfterWindow(e, t, s, f) \in Entry \cup {NoEntry}
  BY <1>1 DEF AfterWindow
<1>4. \A s, f : AfterProbe(e, t, s, f) \in Entry \cup {NoEntry}
  BY <1>1 DEF AfterProbe
<1> QED
  BY <1>2, <1>3, <1>4

\* AfterOpenDuration: half-open comes from open, after the open duration.
LEMMA HalfOpens ==
    ASSUME NEW e \in Entry \cup {NoEntry}, NEW t \in Nat
    PROVE  LET new == AfterOpenDuration(e, t)
           IN  \/ new = e /\ (e.state = "open" => ~(t - e.opened_at >= OpenDuration))
               \/ /\ e.state = "open" /\ t - e.opened_at >= OpenDuration
                  /\ new.state = "half_open" /\ new.half_opened_at = t
                  /\ new.opened_at = e.opened_at
<1>1. CASE e.state = "open" /\ t - e.opened_at >= OpenDuration
  <2>1. e \in Entry
    BY <1>1 DEF NoEntry
  <2>2. /\ [e EXCEPT !.state = "half_open", !.half_opened_at = t].state = "half_open"
        /\ [e EXCEPT !.state = "half_open", !.half_opened_at = t].half_opened_at = t
        /\ [e EXCEPT !.state = "half_open", !.half_opened_at = t].opened_at = e.opened_at
    BY <2>1 DEF Entry
  <2> QED
    BY <1>1, <2>2 DEF AfterOpenDuration
<1>2. CASE ~(e.state = "open" /\ t - e.opened_at >= OpenDuration)
  BY <1>2 DEF AfterOpenDuration
<1> QED
  BY <1>1, <1>2

\* A refresh of replica r, for any counts it may read.
Decided(r, new, s, f) ==
    /\ entry' = [entry EXCEPT ![r] = new]
    /\ new \in Entry \cup {NoEntry}
    /\ entry[r].state = "open" /\ new.state # "open" =>
          new.state = "half_open" /\ read_at[r] - entry[r].opened_at >= OpenDuration
    /\ new.state = "half_open" =>
          \/ new = entry[r]
          \/ /\ entry[r].state = "open"
             /\ new.half_opened_at - new.opened_at >= OpenDuration
    /\ entry[r].state = "closed" => (new.state = "open" <=> Trips(s + f, f))

LEMMA WindowDecides ==
    ASSUME BreakerTyping, Dated, NEW r \in Replica, ReadsWindow(r)
    PROVE  \E new : Decided(r, new, TotalOf(successes, WindowSeconds(read_at[r])),
                                    TotalOf(failures, WindowSeconds(read_at[r])))
<1>0. PICK s, f : /\ s = TotalOf(successes, WindowSeconds(read_at[r]))
                  /\ f = TotalOf(failures, WindowSeconds(read_at[r]))
  OBVIOUS
<1>1. PICK e \in Entry \cup {NoEntry} : e = entry[r]
  BY DEF BreakerTyping
<1>2. PICK t \in Nat : t = read_at[r]
  BY DEF BreakerTyping
<1>3. PICK w : w = AfterWindow(e, t, s, f)
  OBVIOUS
<1>4. w \in Entry \cup {NoEntry}
  BY <1>3, NextEntry
<1>5. PICK new : new = AfterOpenDuration(w, t)
  OBVIOUS
<1>6. entry' = [entry EXCEPT ![r] = new] /\ e.state # "half_open" /\ new \in Entry \cup {NoEntry}
  BY <1>0, <1>1, <1>2, <1>3, <1>4, <1>5, NextEntry DEF ReadsWindow, Commit
<1>7. \/ new = w /\ (w.state = "open" => ~(t - w.opened_at >= OpenDuration))
      \/ /\ w.state = "open" /\ t - w.opened_at >= OpenDuration
         /\ new.state = "half_open" /\ new.half_opened_at = t /\ new.opened_at = w.opened_at
  BY <1>4, <1>5, HalfOpens
<1>8. OpenDuration \in Nat /\ OpenDuration > 0
  BY BreakerConstants
<1>9. CASE e.state = "closed" /\ Trips(s + f, f)
  <2>1. w.state = "open" /\ w.opened_at = t
    BY <1>3, <1>9 DEF AfterWindow
  <2>2. ~(t - w.opened_at >= OpenDuration)
    BY <1>8, <2>1
  <2>3. new.state = "open"
    BY <1>7, <2>1, <2>2
  <2> QED
    BY <1>0, <1>1, <1>2, <1>6, <1>9, <2>3 DEF Decided
<1>10. CASE ~(e.state = "closed" /\ Trips(s + f, f))
  <2>1. w = e
    BY <1>3, <1>10 DEF AfterWindow
  <2>2. CASE new = e
    BY <1>0, <1>1, <1>2, <1>6, <1>10, <2>2 DEF Decided
  <2>3. CASE /\ e.state = "open" /\ t - e.opened_at >= OpenDuration
             /\ new.state = "half_open" /\ new.half_opened_at = t /\ new.opened_at = e.opened_at
    BY <1>0, <1>1, <1>2, <1>6, <1>10, <2>3 DEF Decided
  <2> QED
    BY <1>7, <2>1, <2>2, <2>3
<1> QED
  BY <1>9, <1>10

LEMMA ProbeDecidesFacts ==
    ASSUME BreakerTyping, Dated, NEW r \in Replica, ReadsProbe(r)
    PROVE  \E new, s, f : Decided(r, new, s, f)
<1>0. PICK s, f : /\ s = TotalOf(successes, ProbeSeconds(entry[r], read_at[r]))
                  /\ f = TotalOf(failures, ProbeSeconds(entry[r], read_at[r]))
  OBVIOUS
<1>1. PICK e \in Entry \cup {NoEntry} : e = entry[r]
  BY DEF BreakerTyping
<1>2. PICK t \in Nat : t = read_at[r]
  BY DEF BreakerTyping
<1>3. PICK w : w = AfterProbe(e, t, s, f)
  OBVIOUS
<1>4. w \in Entry \cup {NoEntry}
  BY <1>3, NextEntry
<1>5. PICK new : new = AfterOpenDuration(w, t)
  OBVIOUS
<1>6. entry' = [entry EXCEPT ![r] = new] /\ e.state = "half_open" /\ new \in Entry \cup {NoEntry}
  BY <1>0, <1>1, <1>2, <1>3, <1>4, <1>5, NextEntry DEF ReadsProbe, Commit, Dated
<1>7. \/ new = w /\ (w.state = "open" => ~(t - w.opened_at >= OpenDuration))
      \/ /\ w.state = "open" /\ t - w.opened_at >= OpenDuration
         /\ new.state = "half_open" /\ new.half_opened_at = t /\ new.opened_at = w.opened_at
  BY <1>4, <1>5, HalfOpens
<1>8. OpenDuration \in Nat /\ OpenDuration > 0
  BY BreakerConstants
<1>9. \/ w.state = "open" /\ w.opened_at = t
      \/ w.state = "closed"
      \/ w = e
  BY <1>3 DEF AfterProbe, Closed
<1>10. new = w
  <2>1. w.state = "open" => ~(t - w.opened_at >= OpenDuration)
    BY <1>6, <1>8, <1>9
  <2> QED
    BY <1>7, <2>1
<1>11. new.state = "half_open" => new = e
  BY <1>9, <1>10
<1> QED
  BY <1>1, <1>6, <1>11 DEF Decided

LEMMA BreakerTypingStep ==
    ASSUME BreakerTyping, Dated, [BreakerNext]_breaker_vars
    PROVE  BreakerTyping'
<1> USE DEF samples, redis, refresh, history
<1>1. ASSUME NEW t \in Task, NEW r \in Replica, NEW kind \in Kind, Records(t, r, kind)
      PROVE  BreakerTyping'
  <2>1. [step |-> "hincrby", by |-> r, kind |-> kind, second |-> Epoch(Clock(r))] \in Sample
    BY ClockFacts DEF Sample
  <2>2. recorded' \in Nat /\ recorded' <= MaxSamples
    BY <1>1, BoundAssumption DEF BreakerTyping, Records, BoundAssumption
  <2> HIDE DEF Sample
  <2> QED
    BY <1>1, <2>1, <2>2 DEF BreakerTyping, Records
<1>i. ASSUME NEW t \in Task, Increments(t)
      PROVE  BreakerTyping'
  BY <1>i, IncrementTypes
<1>e. ASSUME NEW t \in Task, Expires(t) \/ BreaksOff(t)
      PROVE  BreakerTyping'
  <2>1. sending' \in [Task -> Sample \cup {NoSample}]
    BY <1>e DEF BreakerTyping, Expires, BreaksOff
  <2>2. expire_at' \in [Second -> Nat \cup {Unset}]
    <3>1. clock + SampleTtl \in Nat
      BY BreakerConstants DEF BreakerTyping
    <3> QED
      BY <1>e, <3>1 DEF BreakerTyping, Expires, BreaksOff
  <2> QED
    BY <1>e, <2>1, <2>2 DEF BreakerTyping, Expires, BreaksOff
<1>s. \A r \in Replica : Seeded(r) \in Entry \cup {NoEntry}
  <2>1. Closed \in Entry
    BY DEF Closed, Entry
  <2> HIDE DEF Closed, Entry
  <2> QED
    BY <2>1 DEF BreakerTyping, Seeded
<1>2. ASSUME NEW r \in Replica, QueryState(r)
      PROVE  BreakerTyping'
  <2>1. entry' \in [Replica -> Entry \cup {NoEntry}]
    BY <1>s, <1>2 DEF BreakerTyping, QueryState
  <2> QED
    BY <1>2, <2>1 DEF BreakerTyping, QueryState
<1>3. ASSUME NEW r \in Replica, RefreshBegins(r)
      PROVE  BreakerTyping'
  BY <1>3, ClockFacts DEF BreakerTyping, RefreshBegins
<1>4. ASSUME NEW r \in Replica, Scans(r)
      PROVE  BreakerTyping'
  <2>1. entry' \in [Replica -> Entry \cup {NoEntry}]
    BY <1>s, <1>4 DEF BreakerTyping, Scans
  <2>2. pc' \in [Replica -> {"idle", "scan", "window", "probe"}]
    BY <1>4 DEF BreakerTyping, Scans
  <2> QED
    BY <1>4, <2>1, <2>2 DEF BreakerTyping, Scans
<1>5. ASSUME NEW r \in Replica, ReadsWindow(r) \/ ReadsProbe(r)
      PROVE  BreakerTyping'
  <2>1. entry' \in [Replica -> Entry \cup {NoEntry}]
    <3>1. PICK new, s, f : Decided(r, new, s, f)
      BY <1>5, WindowDecides, ProbeDecidesFacts
    <3> QED
      BY <3>1 DEF Decided, BreakerTyping
  <2>2. fresh' \in [Replica -> [Kind -> Nat]]
    <3>1. [k \in Kind |-> 0] \in [Kind -> Nat]
      OBVIOUS
    <3>2. fresh' = fresh \/ fresh' = [fresh EXCEPT ![r] = [k \in Kind |-> 0]]
      BY <1>5 DEF ReadsWindow, ReadsProbe, Commit
    <3> QED
      BY <3>1, <3>2 DEF BreakerTyping
  <2>3. /\ pc' = [pc EXCEPT ![r] = "idle"]
        /\ UNCHANGED <<clock, redis, sending, read_at, broken, recorded, log, writers>>
    BY <1>5 DEF ReadsWindow, ReadsProbe, Commit
  <2> QED
    BY <2>1, <2>2, <2>3 DEF BreakerTyping
<1>6. ASSUME NEW r \in Replica, ReadsWindowHalfOpen(r)
      PROVE  BreakerTyping'
  BY <1>6 DEF BreakerTyping, ReadsWindowHalfOpen
<1>7. ASSUME NEW r \in Replica, RefreshFails(r)
      PROVE  BreakerTyping'
  BY <1>7, BoundAssumption DEF BreakerTyping, RefreshFails, BoundAssumption
<1>8. CASE TryProbe
  BY <1>8, BreakerConstants DEF BreakerTyping, TryProbe
<1>9. CASE TimePasses
  <2>1. clock' \in Nat /\ Window <= clock' /\ clock' <= MaxClock
    BY <1>9, BreakerConstants DEF BreakerTyping, TimePasses
  <2>2. /\ successes' \in [Second -> Nat] /\ failures' \in [Second -> Nat]
        /\ expire_at' \in [Second -> Nat \cup {Unset}] /\ probe' \in Nat \cup {Unset}
    BY <1>9 DEF BreakerTyping, TimePasses
  <2> QED
    BY <1>9, <2>1, <2>2 DEF BreakerTyping, TimePasses
<1>10. CASE UNCHANGED breaker_vars
  BY <1>10 DEF BreakerTyping, breaker_vars
<1> QED
  BY <1>1, <1>i, <1>e, <1>2, <1>3, <1>4, <1>5, <1>6, <1>7, <1>8, <1>9, <1>10, Readers
     DEF BreakerNext, RefreshStep

\* Seeding makes a closed breaker of an absent one, and leaves the others alone.
LEMMA SeedFacts ==
    ASSUME BreakerTyping, NEW r \in Replica
    PROVE  \/ Seeded(r) = entry[r]
           \/ entry[r] = NoEntry /\ Seeded(r) = Closed
  BY DEF Seeded

\* What any step does to the breaker of a replica.
LEMMA EntrySteps ==
    ASSUME BreakerTyping, Dated, [BreakerNext]_breaker_vars, NEW r \in Replica
    PROVE  \/ entry'[r] = entry[r]
           \/ entry[r].state = "absent" /\ entry'[r].state = "closed" /\ pc'[r] # "probe"
           \/ /\ pc[r] \in {"window", "probe"} /\ pc'[r] = "idle" /\ clock' = clock
              /\ \E new, s, f : Decided(r, new, s, f)
<1> USE DEF samples, redis, refresh, history
<1>1. ASSUME NEW q \in Replica, QueryState(q)
      PROVE  \/ entry'[r] = entry[r]
             \/ entry[r].state = "absent" /\ entry'[r].state = "closed" /\ pc'[r] # "probe"
  BY <1>1, SeedFacts DEF QueryState, BreakerTyping, NoEntry, Closed
<1>2. ASSUME NEW q \in Replica, Scans(q)
      PROVE  \/ entry'[r] = entry[r]
             \/ entry[r].state = "absent" /\ entry'[r].state = "closed" /\ pc'[r] # "probe"
  <2>1. CASE q = r
    <3>1. entry'[r] = Seeded(r) /\ pc'[r] # "probe"
      BY <1>2, <2>1 DEF Scans, BreakerTyping
    <3> QED
      BY <3>1, SeedFacts DEF NoEntry, Closed
  <2>2. CASE q # r
    BY <1>2, <2>2 DEF Scans, BreakerTyping
  <2> QED
    BY <2>1, <2>2
<1>3. ASSUME NEW q \in Replica, ReadsWindow(q) \/ ReadsProbe(q)
      PROVE  \/ entry'[r] = entry[r]
             \/ /\ pc[r] \in {"window", "probe"} /\ pc'[r] = "idle" /\ clock' = clock
                /\ \E new, s, f : Decided(r, new, s, f)
  <2>1. \E new, s, f : Decided(q, new, s, f)
    BY <1>3, WindowDecides, ProbeDecidesFacts
  <2>2. CASE q = r
    BY <1>3, <2>1, <2>2 DEF ReadsWindow, ReadsProbe, Commit, BreakerTyping
  <2>3. CASE q # r
    BY <2>1, <2>3 DEF Decided, BreakerTyping
  <2> QED
    BY <2>2, <2>3
<1>4. CASE entry' = entry
  BY <1>4
<1>5. CASE ~(\E q \in Replica : QueryState(q) \/ Scans(q) \/ ReadsWindow(q) \/ ReadsProbe(q))
  <2>1. entry' = entry
    BY <1>5, Readers DEF BreakerNext, RefreshStep, breaker_vars, Records, Increments, Expires, BreaksOff, RefreshBegins,
       ReadsWindowHalfOpen,
                RefreshFails, TryProbe, TimePasses
  <2> QED
    BY <2>1
<1> QED
  BY <1>1, <1>2, <1>3, <1>5

\* The steps that touch neither the samples nor the time.
Elsewhere == UNCHANGED <<clock, successes, failures, expire_at, sending, log, writers>>

LEMMA StepKinds ==
    ASSUME [BreakerNext]_breaker_vars
    PROVE  \/ \E t \in Task, r \in Replica, kind \in Kind : Records(t, r, kind)
           \/ \E t \in Task : Increments(t)
           \/ \E t \in Task : Expires(t)
           \/ \E t \in Task : BreaksOff(t)
           \/ TimePasses
           \/ Elsewhere
<1> USE DEF samples, redis, refresh, history, Elsewhere
<1>1. CASE \E q \in Replica : \/ QueryState(q) \/ RefreshBegins(q) \/ Scans(q) \/ ReadsWindow(q)
                              \/ ReadsWindowHalfOpen(q) \/ ReadsProbe(q) \/ RefreshFails(q)
  BY <1>1 DEF QueryState, RefreshBegins, Scans, ReadsWindow, ReadsWindowHalfOpen, ReadsProbe,
              Commit, RefreshFails
<1>2. CASE TryProbe \/ UNCHANGED breaker_vars
  BY <1>2 DEF TryProbe, breaker_vars
<1> QED
  BY <1>1, <1>2, Readers DEF BreakerNext, RefreshStep

\* What any step does to the time and to the refresh of a replica.
LEMMA RefreshSteps ==
    ASSUME BreakerTyping, [BreakerNext]_breaker_vars, NEW r \in Replica
    PROVE  /\ clock' = clock \/ TimePasses
           /\ \/ /\ read_at'[r] = read_at[r]
                 /\ pc'[r] # "idle" => pc[r] # "idle"
              \/ read_at'[r] = Clock(r)
<1> USE DEF samples, redis, refresh, history
<1>1. clock' = clock \/ TimePasses
  <2>1. \A t \in Task : Increments(t) => clock' = clock
    BY DEF Increments
  <2> QED
    BY <2>1, StepKinds DEF Records, Expires, BreaksOff, Elsewhere
<1>2. ASSUME NEW q \in Replica, RefreshBegins(q)
      PROVE  (read_at'[r] = read_at[r] /\ pc'[r] = pc[r]) \/ read_at'[r] = Clock(r)
  BY <1>2 DEF RefreshBegins, BreakerTyping
<1>3. ASSUME NEW q \in Replica,
             Scans(q) \/ ReadsWindow(q) \/ ReadsWindowHalfOpen(q) \/ ReadsProbe(q) \/ RefreshFails(q)
      PROVE  read_at'[r] = read_at[r] /\ (pc'[r] # "idle" => pc[r] # "idle")
  BY <1>3 DEF Scans, ReadsWindow, ReadsWindowHalfOpen, ReadsProbe, Commit, RefreshFails,
              BreakerTyping
<1>4. ASSUME NEW t \in Task,
             \/ Increments(t) \/ Expires(t) \/ BreaksOff(t)
             \/ \E q \in Replica, kind \in Kind : Records(t, q, kind)
      PROVE  UNCHANGED <<pc, read_at>>
  BY <1>4 DEF Records, Increments, Expires, BreaksOff
<1>5. CASE \/ \E q \in Replica : QueryState(q)
           \/ TryProbe \/ TimePasses \/ UNCHANGED breaker_vars
  BY <1>1, <1>5 DEF QueryState, TryProbe, TimePasses, breaker_vars
<1> QED
  BY <1>1, <1>2, <1>3, <1>4, <1>5, Readers DEF BreakerNext, RefreshStep

LEMMA DatedStep ==
    ASSUME BreakerTyping, BreakerTyping', Dated, [BreakerNext]_breaker_vars
    PROVE  Dated'
<1> SUFFICES ASSUME NEW r \in Replica
             PROVE  /\ read_at'[r] <= Clock(r)'
                    /\ pc'[r] = "probe" => entry'[r].state = "half_open"
                    /\ entry'[r].state = "half_open" =>
                          entry'[r].half_opened_at - entry'[r].opened_at >= OpenDuration
  BY DEF Dated
<1> USE DEF samples, redis, refresh, history
<1>1. read_at'[r] <= Clock(r)'
  <2>1. clock' = clock \/ clock' = clock + 1
    BY RefreshSteps DEF TimePasses
  <2>2. /\ clock \in Nat /\ read_at[r] \in Nat /\ Offset[r] \in Nat
        /\ read_at[r] <= Clock(r)
    BY BreakerConstants DEF BreakerTyping, Dated
  <2>3. read_at'[r] = read_at[r] \/ read_at'[r] = Clock(r)
    BY RefreshSteps
  <2> QED
    BY <2>1, <2>2, <2>3 DEF Clock
<1>2. pc'[r] = "probe" => pc[r] = "probe" \/ (entry'[r] = entry[r] /\ entry[r].state = "half_open")
  <2>1. ASSUME NEW q \in Replica, ReadsWindowHalfOpen(q), pc'[r] = "probe", pc[r] # "probe"
        PROVE  entry'[r] = entry[r] /\ entry[r].state = "half_open"
    BY <2>1 DEF ReadsWindowHalfOpen, BreakerTyping
  <2>2. CASE ~(\E q \in Replica : ReadsWindowHalfOpen(q))
    <3>1. \/ pc' = pc
          \/ \E q \in Replica, w \in {"idle", "scan", "window"} : pc' = [pc EXCEPT ![q] = w]
      BY <2>2, Readers DEF BreakerNext, RefreshStep, breaker_vars, Records, Increments, Expires, BreaksOff, QueryState, RefreshBegins,
         Scans,
          ReadsWindow, ReadsProbe, Commit, RefreshFails, TryProbe, TimePasses
    <3> QED
      BY <3>1 DEF BreakerTyping
  <2> QED
    BY <2>1, <2>2
<1>3. CASE entry'[r] = entry[r]
  BY <1>1, <1>2, <1>3 DEF Dated
<1>4. CASE entry[r].state = "absent" /\ entry'[r].state = "closed" /\ pc'[r] # "probe"
  BY <1>1, <1>4
<1>5. CASE pc'[r] = "idle" /\ \E new, s, f : Decided(r, new, s, f)
  <2>1. PICK new, s, f : Decided(r, new, s, f)
    BY <1>5
  <2>2. entry'[r] = new
    BY <2>1 DEF Decided, BreakerTyping
  <2>3. new.state = "half_open" =>
            \/ new = entry[r]
            \/ new.half_opened_at - new.opened_at >= OpenDuration
    BY <2>1 DEF Decided
  <2> QED
    BY <1>1, <1>5, <2>2, <2>3 DEF Dated
<1> QED
  BY <1>3, <1>4, <1>5, EntrySteps

LEMMA DiagramStep ==
    ASSUME BreakerTyping, Dated, [BreakerNext]_breaker_vars, NEW r \in Replica, State(r)' # State(r)
    PROVE  /\ State(r) = "open" =>
                 State(r)' = "half_open" /\ Clock(r) - entry[r].opened_at >= OpenDuration
           /\ State(r)' = "half_open" => State(r) = "open"
<1>1. entry'[r].state # entry[r].state
  BY DEF State
<1>2. CASE entry[r].state = "absent" /\ entry'[r].state = "closed"
  BY <1>2 DEF State
<1>3. ASSUME NEW new, NEW s, NEW f, Decided(r, new, s, f)
      PROVE  /\ State(r) = "open" =>
                   State(r)' = "half_open" /\ Clock(r) - entry[r].opened_at >= OpenDuration
             /\ State(r)' = "half_open" => State(r) = "open"
  <2>1. entry'[r] = new
    BY <1>3 DEF Decided, BreakerTyping
  <2>2. CASE entry[r].state = "open"
    <3>1. new.state = "half_open" /\ read_at[r] - entry[r].opened_at >= OpenDuration
      BY <1>1, <1>3, <2>1, <2>2 DEF Decided
    <3>2. entry[r] \in Entry
      BY <2>2 DEF BreakerTyping, NoEntry
    <3>3. entry[r].opened_at \in Nat /\ read_at[r] \in Nat /\ Clock(r) \in Nat
      BY <3>2, ClockFacts DEF BreakerTyping, Entry
    <3>4. read_at[r] <= Clock(r)
      BY DEF Dated
    <3> QED
      BY <2>1, <2>2, <3>1, <3>3, <3>4, BreakerConstants DEF State
  <2>3. CASE entry[r].state # "open"
    <3>1. new.state # "half_open"
      BY <1>1, <1>3, <2>1, <2>3 DEF Decided
    <3> QED
      BY <2>1, <2>3, <3>1 DEF State
  <2> QED
    BY <2>2, <2>3
<1> QED
  BY <1>1, <1>2, <1>3, EntrySteps

-----------------------------------------------------------------------------
LEMMA SecondFacts ==
    ASSUME NEW s \in Second
    PROVE  s \in Nat /\ s * TicksPerSecond \in Nat /\ ReadUntil(s) \in Nat
<1>1. s \in Nat
  BY BreakerConstants
<1>2. s * TicksPerSecond \in Nat
  BY <1>1, BreakerConstants, Multiples
<1> QED
  BY <1>1, <1>2, BreakerConstants DEF ReadUntil

LEMMA StampedStep ==
    ASSUME BreakerTyping, Stamped, [BreakerNext]_breaker_vars
    PROVE  Stamped'
<1> SUFFICES ASSUME NEW u \in Task PROVE InItsSecond(u)'
  BY DEF Stamped
<1> USE DEF samples, redis, refresh, history
<1>0. sending \in [Task -> Sample \cup {NoSample}] /\ writers \in [Second -> SUBSET Replica]
  BY DEF BreakerTyping
<1>1. ASSUME UNCHANGED <<clock, writers>>, sending'[u] = sending[u]
      PROVE  InItsSecond(u)'
  BY <1>1 DEF Stamped, InItsSecond
<1>2. ASSUME NEW t \in Task, NEW r \in Replica, NEW kind \in Kind, Records(t, r, kind)
      PROVE  InItsSecond(u)'
  <2>1. UNCHANGED <<clock, writers>>
    BY <1>2 DEF Records
  <2>2. CASE u = t
    <3>1. sending'[u] = [step |-> "hincrby", by |-> r, kind |-> kind, second |-> Epoch(Clock(r))]
      BY <1>0, <1>2, <2>2 DEF Records
    <3>2. Epoch(Clock(r)) * TicksPerSecond <= Clock(r)
      BY ClockFacts, EpochFacts
    <3>3. /\ sending'[u].second = Epoch(Clock(r)) /\ sending'[u].by = r
          /\ sending'[u].step = "hincrby" /\ clock' + Offset[r] = Clock(r)
      BY <2>1, <3>1 DEF Clock
    <3> QED
      BY <3>2, <3>3 DEF InItsSecond
  <2>3. CASE u # t
    BY <1>0, <1>1, <1>2, <2>1, <2>3 DEF Records
  <2> QED
    BY <2>2, <2>3
<1>3. ASSUME NEW t \in Task, Increments(t)
      PROVE  InItsSecond(u)'
  <2>0. PICK x \in Second, kind \in Kind : CountsUp(t, x, kind)
    BY <1>3, IncrementFacts
  <2>1. /\ x = sending[t].second
        /\ writers' = [writers EXCEPT ![x] = writers[x] \cup {sending[t].by}]
        /\ sending' = [sending EXCEPT ![t] = [sending[t] EXCEPT !.step = "expire"]]
        /\ clock' = clock
    BY <2>0 DEF CountsUp
  <2>2. \A s \in Second : writers[s] \subseteq writers'[s]
    BY <1>0, <2>1
  <2>3. CASE u = t
    <3>1. /\ sending[t] \in Sample /\ sending[t] # NoSample
          /\ sending'[u] = [sending[t] EXCEPT !.step = "expire"]
      BY <1>0, <1>3, <2>1, <2>3, SampleFacts DEF Increments
    <3>2. sending'[u].second = x /\ sending'[u].by = sending[t].by
      BY <2>1, <3>1 DEF Sample
    <3>3. sending[t].by \in writers'[x]
      BY <1>0, <2>1
    <3> QED
      BY <2>1, <3>1, <3>2, <3>3 DEF Stamped, InItsSecond
  <2>4. CASE u # t
    <3>1. sending'[u] = sending[u]
      BY <1>0, <2>1, <2>4
    <3>2. sending[u] # NoSample => sending[u].second \in Second
      BY <1>0, <3>1 DEF Sample
    <3> QED
      BY <2>1, <2>2, <3>1, <3>2 DEF Stamped, InItsSecond
  <2> QED
    BY <2>3, <2>4
<1>4. ASSUME NEW t \in Task, Expires(t) \/ BreaksOff(t)
      PROVE  InItsSecond(u)'
  <2>1. sending' = [sending EXCEPT ![t] = NoSample] /\ UNCHANGED <<clock, writers>>
    BY <1>4 DEF Expires, BreaksOff
  <2>2. CASE u = t
    BY <1>0, <2>1, <2>2 DEF InItsSecond
  <2>3. CASE u # t
    BY <1>0, <1>1, <2>1, <2>3
  <2> QED
    BY <2>2, <2>3
<1>5. CASE TimePasses
  <2>1. /\ clock' = clock + 1 /\ clock \in Nat /\ UNCHANGED <<sending, writers>>
    BY <1>5 DEF TimePasses, BreakerTyping
  <2>2. ASSUME sending[u] # NoSample
        PROVE  sending[u].second * TicksPerSecond <= clock' + Offset[sending[u].by]
    <3>1. sending[u].by \in Replica /\ sending[u].second \in Second
      BY <1>0, <2>2 DEF Sample
    <3>2. PICK m \in Nat : m = sending[u].second * TicksPerSecond
      BY <3>1, SecondFacts
    <3>3. m <= clock + Offset[sending[u].by] /\ Offset[sending[u].by] \in Nat
      BY <2>2, <3>1, <3>2, BreakerConstants DEF Stamped, InItsSecond
    <3> QED
      BY <2>1, <3>2, <3>3
  <2> QED
    BY <2>1, <2>2 DEF Stamped, InItsSecond
<1>6. CASE Elsewhere
  BY <1>1, <1>6 DEF Elsewhere
<1> QED
  BY <1>1, <1>2, <1>3, <1>4, <1>5, <1>6, StepKinds

LEMMA LastingStep ==
    ASSUME BreakerTyping, Stamped, Lasting, [BreakerNext]_breaker_vars
    PROVE  Lasting'
<1> USE DEF samples, redis, refresh, history
<1>0. writers \in [Second -> SUBSET Replica] /\ expire_at \in [Second -> Nat \cup {Unset}]
  BY DEF BreakerTyping
<1>1. ASSUME \A s \in Second : expire_at'[s] \in {expire_at[s], Unset} /\ writers[s] \subseteq writers'[s]
      PROVE  Lasting'
  BY <1>1 DEF Lasting
<1>2. ASSUME NEW t \in Task, Increments(t)
      PROVE  Lasting'
  <2>0. PICK x \in Second, kind \in Kind : CountsUp(t, x, kind)
    BY <1>2, IncrementFacts
  <2>1. /\ writers' = [writers EXCEPT ![x] = writers[x] \cup {sending[t].by}]
        /\ expire_at' = expire_at
    BY <2>0 DEF CountsUp
  <2> QED
    BY <1>0, <1>1, <2>1
<1>3. ASSUME NEW t \in Task, Expires(t)
      PROVE  Lasting'
  <2>1. /\ sending[t] # NoSample /\ sending[t].second \in Second /\ sending[t].by \in Replica
        /\ sending[t].step = "expire"
    BY <1>3, SampleFacts DEF Expires
  <2>2. PICK x \in Second, p \in Replica : x = sending[t].second /\ p = sending[t].by
    BY <2>1
  <2>3. /\ writers' = writers
        /\ expire_at' = expire_at \/ expire_at' = [expire_at EXCEPT ![x] = clock + SampleTtl]
    BY <1>3, <2>2 DEF Expires
  <2>4. CASE expire_at' = expire_at
    BY <1>1, <2>3, <2>4
  <2>5. CASE expire_at' = [expire_at EXCEPT ![x] = clock + SampleTtl]
    <3>1. p \in writers'[x] /\ x * TicksPerSecond <= clock + Offset[p]
      BY <2>1, <2>2, <2>3 DEF Stamped, InItsSecond
    <3>2. /\ x * TicksPerSecond \in Nat /\ clock \in Nat /\ Offset[p] \in Nat /\ SampleTtl \in Nat
      BY SecondFacts, BreakerConstants DEF BreakerTyping
    <3>3. PICK m \in Nat : m = x * TicksPerSecond
      BY <3>2
    <3>4. m + SampleTtl <= clock + SampleTtl + Offset[p]
      BY <3>1, <3>2, <3>3
    <3>5. expire_at'[x] = clock + SampleTtl /\ \A s \in Second : s # x => expire_at'[s] = expire_at[s]
      BY <1>0, <2>5
    <3>6. x * TicksPerSecond + SampleTtl <= expire_at'[x] + Offset[p]
      BY <3>3, <3>4, <3>5
    <3> QED
      BY <2>3, <3>1, <3>5, <3>6 DEF Lasting
  <2> QED
    BY <2>3, <2>4, <2>5
<1>4. CASE TimePasses
  BY <1>0, <1>1, <1>4 DEF TimePasses
<1>5. CASE UNCHANGED <<expire_at, writers>>
  BY <1>1, <1>5
<1> QED
  BY <1>2, <1>3, <1>4, <1>5, StepKinds DEF Records, BreaksOff, Elsewhere

LEMMA CountedStep ==
    ASSUME BreakerTyping, Lasting, Counted, [BreakerNext]_breaker_vars
    PROVE  Counted'
<1> USE DEF samples, redis, refresh, history
<1>0. /\ log["success"] \in [Second -> Nat] /\ log["failure"] \in [Second -> Nat]
      /\ log \in [Kind -> [Second -> Nat]] /\ "success" # "failure"
      /\ successes \in [Second -> Nat] /\ failures \in [Second -> Nat]
      /\ writers \in [Second -> SUBSET Replica]
  BY DEF BreakerTyping, Kind
<1>1. ASSUME NEW t \in Task, Increments(t)
      PROVE  Counted'
  <2>0. PICK x \in Second, kind \in Kind : CountsUp(t, x, kind)
    BY <1>1, IncrementFacts
  <2>1. /\ \/ /\ kind = "success" /\ failures' = failures
              /\ successes' = [successes EXCEPT ![x] = successes[x] + 1]
           \/ /\ kind = "failure" /\ successes' = successes
              /\ failures' = [failures EXCEPT ![x] = failures[x] + 1]
        /\ log' = [log EXCEPT ![kind] = [log[kind] EXCEPT ![x] = log[kind][x] + 1]]
        /\ writers' = [writers EXCEPT ![x] = writers[x] \cup {sending[t].by}]
        /\ clock' = clock
    BY <2>0 DEF CountsUp
  <2>2. ASSUME NEW s \in Second
        PROVE  \/ /\ successes'[s] = successes[s] /\ log'["success"][s] = log["success"][s]
                  /\ failures'[s] = failures[s] /\ log'["failure"][s] = log["failure"][s]
               \/ /\ successes'[s] = successes[s] + 1 /\ log'["success"][s] = log["success"][s] + 1
                  /\ failures'[s] = failures[s] /\ log'["failure"][s] = log["failure"][s]
               \/ /\ successes'[s] = successes[s] /\ log'["success"][s] = log["success"][s]
                  /\ failures'[s] = failures[s] + 1 /\ log'["failure"][s] = log["failure"][s] + 1
    <3>1. CASE kind = "success"
      <4>1. /\ log'["failure"] = log["failure"]
            /\ log'["success"] = [log["success"] EXCEPT ![x] = log["success"][x] + 1]
            /\ failures' = failures
            /\ successes' = [successes EXCEPT ![x] = successes[x] + 1]
        BY <1>0, <2>1, <3>1
      <4> QED
        BY <1>0, <4>1
    <3>2. CASE kind = "failure"
      <4>1. /\ log'["success"] = log["success"]
            /\ log'["failure"] = [log["failure"] EXCEPT ![x] = log["failure"][x] + 1]
            /\ successes' = successes
            /\ failures' = [failures EXCEPT ![x] = failures[x] + 1]
        BY <1>0, <2>1, <3>2
      <4> QED
        BY <1>0, <4>1
    <3> QED
      BY <3>1, <3>2 DEF Kind
  <2>3. \A r \in Replica, s \in Second : Trusted(r, s)' => Trusted(r, s)
    BY <1>0, <2>1 DEF Trusted, Ahead
  <2>4. \A r \in Replica : Clock(r)' = Clock(r)
    BY <2>1 DEF Clock
  <2>5. ASSUME NEW s \in Second
        PROVE  successes'[s] <= log'["success"][s] /\ failures'[s] <= log'["failure"][s]
    <3>1. /\ successes[s] <= log["success"][s] /\ failures[s] <= log["failure"][s]
          /\ successes[s] \in Nat /\ failures[s] \in Nat
          /\ log["success"][s] \in Nat /\ log["failure"][s] \in Nat
      BY <1>0 DEF Counted
    <3> QED
      BY <2>2, <3>1
  <2>6. ASSUME NEW r \in Replica, NEW s \in Second, Trusted(r, s)', Clock(r)' < ReadUntil(s)
        PROVE  successes'[s] = log'["success"][s] /\ failures'[s] = log'["failure"][s]
    <3>1. successes[s] = log["success"][s] /\ failures[s] = log["failure"][s]
      BY <2>3, <2>4, <2>6 DEF Counted
    <3> QED
      BY <2>2, <3>1
  <2> QED
    BY <2>5, <2>6 DEF Counted, ReadUntil
<1>2. CASE TimePasses
  <2>1. /\ clock' = clock + 1 /\ clock \in Nat /\ UNCHANGED <<log, writers>>
        /\ \A s \in Second :
              \/ /\ expire_at[s] # Unset /\ expire_at[s] <= clock + 1
                 /\ successes'[s] = 0 /\ failures'[s] = 0
              \/ successes'[s] = successes[s] /\ failures'[s] = failures[s]
    BY <1>2 DEF BreakerTyping, TimePasses
  <2>2. \A s \in Second : successes'[s] <= log'["success"][s] /\ failures'[s] <= log'["failure"][s]
    BY <1>0, <2>1 DEF Counted
  <2>3. ASSUME NEW r \in Replica, NEW s \in Second, Trusted(r, s)', Clock(r)' < ReadUntil(s)
        PROVE  successes'[s] = log'["success"][s] /\ failures'[s] = log'["failure"][s]
    <3>1. Trusted(r, s)
      BY <2>1, <2>3 DEF Trusted
    <3>2. /\ ReadUntil(s) \in Nat /\ s * TicksPerSecond \in Nat /\ Offset[r] \in Nat
          /\ {SampleTtl, Window, TicksPerSecond, MaxRefresh} \subseteq Nat
      BY SecondFacts, BreakerConstants
    <3>3. PICK m \in Nat : m = s * TicksPerSecond
      BY <3>2
    <3>4. clock + 1 + Offset[r] < m + TicksPerSecond + Window + MaxRefresh
      BY <2>1, <2>3, <3>3 DEF Clock, ReadUntil
    <3>5. ~(expire_at[s] # Unset /\ expire_at[s] <= clock + 1)
      <4> SUFFICES ASSUME expire_at[s] # Unset, expire_at[s] <= clock + 1 PROVE FALSE
        OBVIOUS
      <4>1. PICK p \in writers[s] : m + SampleTtl <= expire_at[s] + Offset[p]
        BY <3>3 DEF Lasting
      <4>2. ~(Offset[p] - Offset[r] > SampleTtl - Window - TicksPerSecond - MaxRefresh)
        BY <3>1, <4>1 DEF Trusted, Ahead
      <4>3. p \in Replica /\ Offset[p] \in Nat
        BY <1>0, <4>1, BreakerConstants
      <4>4. expire_at[s] \in Nat
        BY DEF BreakerTyping
      <4> QED
        BY <2>1, <3>2, <3>4, <4>1, <4>2, <4>3, <4>4
    <3>6. Clock(r) < ReadUntil(s)
      BY <2>1, <2>3, <3>2 DEF Clock
    <3> QED
      BY <2>1, <3>1, <3>5, <3>6 DEF Counted
  <2> QED
    BY <2>2, <2>3 DEF Counted, ReadUntil
<1>3. CASE UNCHANGED <<clock, successes, failures, log, writers>>
  BY <1>3 DEF Counted, Trusted, Clock, ReadUntil, Ahead
<1> QED
  BY <1>1, <1>2, <1>3, StepKinds DEF Records, Expires, BreaksOff, Elsewhere

LEMMA PromptStep ==
    ASSUME BreakerTyping, Prompt, [BreakerNext]_breaker_vars
    PROVE  Prompt'
<1> SUFFICES ASSUME NEW r \in Replica, pc'[r] # "idle"
             PROVE  /\ Window <= read_at'[r] /\ read_at'[r] <= Clock(r)'
                    /\ Clock(r)' <= read_at'[r] + MaxRefresh
  BY DEF Prompt
<1> USE DEF samples, redis, refresh, history
<1>0. /\ read_at[r] \in Nat /\ MaxRefresh \in Nat /\ Window \in Nat /\ clock \in Nat
      /\ Window <= clock /\ Offset[r] \in Nat
  BY BreakerConstants DEF BreakerTyping
<1>1. CASE TimePasses
  <2>1. clock' = clock + 1 /\ UNCHANGED <<pc, read_at>> /\ Clock(r) - read_at[r] < MaxRefresh
    BY <1>1 DEF TimePasses
  <2>2. Window <= read_at[r] /\ read_at[r] <= Clock(r)
    BY <2>1 DEF Prompt
  <2> QED
    BY <1>0, <2>1, <2>2 DEF Clock
<1>2. CASE ~TimePasses
  <2>1. /\ clock' = clock
        /\ \/ pc[r] # "idle" /\ read_at'[r] = read_at[r]
           \/ read_at'[r] = Clock(r)
    BY <1>2, RefreshSteps
  <2> QED
    BY <1>0, <2>1 DEF Prompt, Clock
<1> QED
  BY <1>1, <1>2

\* The seconds of the window of a refresh are an interval that the model has.
LEMMA SecondsKnown ==
    ASSUME BreakerTyping, Prompt, NEW r \in Replica, pc[r] # "idle"
    PROVE  /\ SecondsOf(r) = Epoch(read_at[r] - Window) .. Epoch(read_at[r])
           /\ SecondsOf(r) \subseteq Second /\ IsFiniteSet(SecondsOf(r))
<1> DEFINE b == read_at[r]
           a == b - Window
<1>1. b \in Nat /\ Window \in Nat /\ Window <= b /\ b <= Clock(r) /\ Clock(r) \in Nat
  BY BreakerConstants, ClockFacts DEF BreakerTyping, Prompt
<1>2. a \in Nat /\ a <= b
  BY <1>1
<1>3. SecondsOf(r) = Epoch(a) .. Epoch(b)
  BY <1>1, <1>2, EpochsOf DEF SecondsOf
<1>4. /\ Epoch(b) <= Epoch(Clock(r)) /\ Epoch(Clock(r)) \in Second
      /\ Epoch(a) \in Nat /\ Epoch(b) \in Nat
  BY <1>1, <1>2, ClockFacts, EpochFacts
<1>5. IsFiniteSet(Epoch(a) .. Epoch(b))
  BY <1>4, FS_Interval
<1>6. Epoch(a) .. Epoch(b) \subseteq Second
  BY <1>4, BreakerConstants DEF Second
<1> QED
  BY <1>3, <1>5, <1>6

\* The hashes that a refresh of a closed breaker reads hold what is recorded under
\* their seconds, or less where a replica too far ahead has written.
LEMMA FullWindow ==
    ASSUME BreakerTyping, Dated, Counted, Prompt, [BreakerNext]_breaker_vars,
           NEW r \in Replica, Decides(r)
    PROVE  LET kept == {s \in SecondsOf(r) : \A p \in writers[s] : ~Ahead(p, r)}
           IN  \E succ \in TotalOf(log["success"], kept)
                             .. TotalOf(log["success"], SecondsOf(r)),
                  fail \in TotalOf(log["failure"], kept)
                             .. TotalOf(log["failure"], SecondsOf(r)) :
                   Explains(r, succ, fail)
<1> USE DEF samples, redis, refresh, history
<1>1. ReadsWindow(r)
  <2> USE DEF Decides
  <2>1. \A q \in Replica : ~RefreshBegins(q) /\ ~Scans(q)
    BY DEF BreakerTyping, RefreshBegins, Scans
  <2>2. \A q \in Replica : ~QueryState(q) /\ ~RefreshFails(q)
    BY DEF BreakerTyping, QueryState, RefreshFails
  <2>3. \A q \in Replica : ~ReadsWindowHalfOpen(q)
    BY DEF BreakerTyping, ReadsWindowHalfOpen
  <2>4. \A q \in Replica : ~ReadsProbe(q) /\ (ReadsWindow(q) => q = r)
    BY DEF BreakerTyping, ReadsProbe, ReadsWindow, Commit
  <2>5. ~TryProbe /\ ~TimePasses /\ ~UNCHANGED breaker_vars
    BY DEF TryProbe, TimePasses, breaker_vars
  <2>6. \A t \in Task : /\ ~Increments(t) /\ ~Expires(t) /\ ~BreaksOff(t)
                        /\ \A q \in Replica, k \in Kind : ~Records(t, q, k)
    BY DEF Increments, Expires, BreaksOff, Records
  <2> QED
    BY <2>1, <2>2, <2>3, <2>4, <2>5, <2>6, Readers DEF BreakerNext, RefreshStep
<1> DEFINE b == read_at[r]
           a == b - Window
           seconds == Epoch(a) .. Epoch(b)
           kept == {s \in seconds : Trusted(r, s)}
<1>2. /\ b \in Nat /\ Window \in Nat /\ Window <= b /\ b <= Clock(r) /\ Clock(r) \in Nat
      /\ Clock(r) <= b + MaxRefresh /\ MaxRefresh \in Nat
  BY BreakerConstants, ClockFacts DEF BreakerTyping, Prompt, Decides
<1>3. a \in Nat /\ a <= b
  BY <1>2
<1>4. seconds \subseteq Second /\ IsFiniteSet(seconds) /\ Epoch(a) \in Nat
  BY <1>3, SecondsKnown, EpochFacts DEF Decides
<1>5. ASSUME NEW s \in kept
      PROVE  successes[s] = log["success"][s] /\ failures[s] = log["failure"][s]
  <2>1. s \in Second /\ s \in Nat /\ Epoch(a) \in Nat /\ Epoch(a) <= s
    <3>1. s \in Second /\ s \in Nat
      BY <1>4, BreakerConstants
    <3> QED
      BY <1>4, <3>1
  <2>2. /\ a < Epoch(a) * TicksPerSecond + TicksPerSecond
        /\ Epoch(a) * TicksPerSecond <= s * TicksPerSecond
    BY <1>3, <2>1, EpochFacts, BreakerConstants, Multiples
  <2>3. PICK m, n \in Nat : m = Epoch(a) * TicksPerSecond /\ n = s * TicksPerSecond
    BY <2>1, BreakerConstants, Multiples
  <2>4. ReadUntil(s) = n + TicksPerSecond + Window + MaxRefresh
    BY <2>3 DEF ReadUntil
  <2>5. Clock(r) < ReadUntil(s)
    BY <1>2, <1>3, <2>2, <2>3, <2>4, BreakerConstants
  <2> QED
    BY <2>1, <2>5 DEF Counted
<1>6. SecondsOf(r) = seconds
  BY SecondsKnown DEF Decides
<1>7. WindowSeconds(b) = seconds
  BY DEF WindowSeconds
<1>8. kept \subseteq seconds /\ IsFiniteSet(kept)
  BY <1>4, FS_Subset
<1>9. \A s \in seconds : /\ successes[s] \in Nat /\ failures[s] \in Nat
                         /\ log["success"][s] \in Nat /\ log["failure"][s] \in Nat
                         /\ successes[s] <= log["success"][s] /\ failures[s] <= log["failure"][s]
  BY <1>4 DEF BreakerTyping, Counted, Kind
<1>10. kept = {s \in SecondsOf(r) : \A p \in writers[s] : ~Ahead(p, r)}
  BY <1>6 DEF Trusted
<1> HIDE DEF seconds, kept
<1>11. /\ TotalOf(successes, kept) = TotalOf(log["success"], kept)
       /\ TotalOf(failures, kept) = TotalOf(log["failure"], kept)
  BY <1>5, TotalSame
<1>12. /\ TotalOf(successes, kept) <= TotalOf(successes, seconds)
       /\ TotalOf(failures, kept) <= TotalOf(failures, seconds)
  <2>1. \A s \in kept : successes[s] \in Nat /\ successes[s] <= successes[s]
    BY <1>8, <1>9
  <2>2. \A s \in kept : failures[s] \in Nat /\ failures[s] <= failures[s]
    BY <1>8, <1>9
  <2> QED
    BY <1>4, <1>8, <1>9, <2>1, <2>2, TotalMonotonic
<1>13. /\ TotalOf(successes, seconds) <= TotalOf(log["success"], seconds)
       /\ TotalOf(failures, seconds) <= TotalOf(log["failure"], seconds)
  BY <1>4, <1>9, TotalMonotonic
<1>14. /\ TotalOf(successes, seconds) \in Nat /\ TotalOf(failures, seconds) \in Nat
       /\ TotalOf(successes, kept) \in Nat /\ TotalOf(failures, kept) \in Nat
       /\ TotalOf(log["success"], seconds) \in Nat /\ TotalOf(log["failure"], seconds) \in Nat
  BY <1>4, <1>8, <1>9, TotalNat
<1>15. PICK new : Decided(r, new, TotalOf(successes, WindowSeconds(b)), TotalOf(failures, WindowSeconds(b)))
  BY <1>1, WindowDecides
<1>16. State(r)' = new.state
  BY <1>15 DEF Decided, State, BreakerTyping
<1>17. Explains(r, TotalOf(successes, seconds), TotalOf(failures, seconds))
  BY <1>7, <1>15, <1>16 DEF Decided, State, Decides, Explains
<1>18. /\ TotalOf(successes, seconds)
             \in TotalOf(log["success"], kept) .. TotalOf(log["success"], SecondsOf(r))
       /\ TotalOf(failures, seconds)
             \in TotalOf(log["failure"], kept) .. TotalOf(log["failure"], SecondsOf(r))
  BY <1>6, <1>11, <1>12, <1>13, <1>14
<1> QED
  BY <1>10, <1>17, <1>18

LEMMA BreakerTypingKept ==
    ASSUME BreakerInv
    PROVE  BreakerTypeOK
<1>1. /\ clock \in Window .. MaxClock /\ broken \in 0 .. MaxFailures
  BY DEF BreakerInv, BreakerTyping
<1> QED
  BY <1>1 DEF BreakerInv, BreakerTyping, Dated, BreakerTypeOK

\* Type correctness: a replica's entry is one refresh_snapshot can make, and a
\* breaker is HALF_OPEN only after open_duration_s.
THEOREM BreakerTypes == BreakerSpec => []BreakerTypeOK
<1>1. BreakerInit => BreakerInv
  BY BreakerInitHolds
<1>2. BreakerInv /\ [BreakerNext]_breaker_vars => BreakerInv'
  BY BreakerTypingStep, DatedStep DEF BreakerInv
<1>3. BreakerInv => BreakerTypeOK
  BY BreakerTypingKept
<1> QED
  BY <1>1, <1>2, <1>3, PTL DEF BreakerSpec

\* A breaker never skips a state: it leaves OPEN for HALF_OPEN only, after
\* open_duration_s on the replica's own clock, and enters HALF_OPEN from OPEN
\* only, however samples, failed refreshes and other replicas interleave.
THEOREM BreakersFollowTheDiagram == BreakerSpec => StateDiagram
<1>1. BreakerInit => BreakerInv
  BY BreakerInitHolds
<1>2. BreakerInv /\ [BreakerNext]_breaker_vars => BreakerInv'
  BY BreakerTypingStep, DatedStep DEF BreakerInv
<1>3. BreakerInv /\ [BreakerNext]_breaker_vars =>
          [\A r \in Replica :
              State(r)' # State(r) =>
                  /\ State(r) = "open" =>
                        /\ State(r)' = "half_open"
                        /\ Clock(r) - entry[r].opened_at >= OpenDuration
                  /\ State(r)' = "half_open" => State(r) = "open"]_breaker_vars
  BY DiagramStep DEF BreakerInv
<1> QED
  BY <1>1, <1>2, <1>3, PTL DEF BreakerSpec, StateDiagram

LEMMA BreakerSteps == BreakerSpec => [](BreakerInv /\ Kept)
<1>1. BreakerInit => BreakerInv /\ Kept
  BY BreakerInitHolds
<1>2. BreakerInv /\ Kept /\ [BreakerNext]_breaker_vars => (BreakerInv /\ Kept)'
  BY BreakerTypingStep, DatedStep, StampedStep, LastingStep, CountedStep, PromptStep
     DEF BreakerInv, Kept
<1> QED
  BY <1>1, <1>2, PTL DEF BreakerSpec

\* Whatever the clocks of the hosts say, refresh_snapshot opens a closed breaker
\* exactly when the samples recorded under the seconds of its window pass the
\* threshold, counting all of them but those that share a hash with a replica
\* whose clock is too far ahead: no other hash expires before it is read, and no
\* sample is counted twice.
THEOREM BreakersDecideOnFullWindows == BreakerSpec => DecidesOnFullWindow
<1>1. BreakerInv /\ Kept /\ [BreakerNext]_breaker_vars =>
          [\A r \in Replica :
              Decides(r) =>
                LET kept == {s \in SecondsOf(r) : \A p \in writers[s] : ~Ahead(p, r)}
                IN  \E succ \in TotalOf(log["success"], kept)
                                  .. TotalOf(log["success"], SecondsOf(r)),
                       fail \in TotalOf(log["failure"], kept)
                                  .. TotalOf(log["failure"], SecondsOf(r)) :
                        Explains(r, succ, fail)]_breaker_vars
  BY FullWindow DEF BreakerInv, Kept
<1> QED
  BY <1>1, BreakerSteps, PTL DEF BreakerSpec, DecidesOnFullWindow

\* How much "clock jitter" the lifetime of the hashes tolerates: the full window
\* is seen when no two clocks differ by more than SampleTtl leaves beside the
\* window, a second and a refresh, which is 3 * window_s less those two.
THEOREM JitterIsTolerated ==
    ASSUME \A p, r \in Replica : ~Ahead(p, r)
    PROVE  BreakerSpec => SeesFullWindow
<1>1. ASSUME BreakerInv, Kept, [BreakerNext]_breaker_vars, NEW r \in Replica, Decides(r)
      PROVE  Explains(r, TotalOf(log["success"], SecondsOf(r)),
                         TotalOf(log["failure"], SecondsOf(r)))
  <2> DEFINE seconds == SecondsOf(r)
             kept == {s \in seconds : \A p \in writers[s] : ~Ahead(p, r)}
  <2>1. kept = seconds
    <3>1. \A s \in seconds : s \in Second
      BY <1>1, SecondsKnown DEF BreakerInv, Kept, Decides, Prompt
    <3>2. \A s \in seconds : writers[s] \subseteq Replica
      BY <1>1, <3>1 DEF BreakerInv, BreakerTyping
    <3> QED
      BY <3>2
  <2> HIDE DEF seconds
  <2>2. \E succ \in TotalOf(log["success"], kept) .. TotalOf(log["success"], seconds),
           fail \in TotalOf(log["failure"], kept) .. TotalOf(log["failure"], seconds) :
            Explains(r, succ, fail)
    BY <1>1, FullWindow DEF BreakerInv, Kept, seconds
  <2> HIDE DEF kept
  <2>3. PICK succ \in TotalOf(log["success"], seconds) .. TotalOf(log["success"], seconds),
             fail \in TotalOf(log["failure"], seconds) .. TotalOf(log["failure"], seconds) :
            Explains(r, succ, fail)
    BY <2>1, <2>2
  <2>4. /\ TotalOf(log["success"], seconds) \in Nat /\ TotalOf(log["failure"], seconds) \in Nat
    <3>1. seconds \subseteq Second /\ IsFiniteSet(seconds)
      BY <1>1, SecondsKnown DEF BreakerInv, Kept, Decides, Prompt, seconds
    <3>2. \A s \in seconds : log["success"][s] \in Nat /\ log["failure"][s] \in Nat
      BY <1>1, <3>1 DEF BreakerInv, BreakerTyping, Kind
    <3> QED
      BY <3>1, <3>2, TotalNat
  <2>5. succ = TotalOf(log["success"], seconds) /\ fail = TotalOf(log["failure"], seconds)
    BY <2>3, <2>4
  <2> QED
    BY <2>3, <2>5 DEF seconds
<1>2. BreakerInv /\ Kept /\ [BreakerNext]_breaker_vars =>
          [\A r \in Replica :
              Decides(r) => Explains(r, TotalOf(log["success"], SecondsOf(r)),
                                        TotalOf(log["failure"], SecondsOf(r)))]_breaker_vars
  BY <1>1
<1> QED
  BY <1>2, BreakerSteps, PTL DEF BreakerSpec, SeesFullWindow
=============================================================================
